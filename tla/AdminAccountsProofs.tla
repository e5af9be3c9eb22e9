-------------------------- MODULE AdminAccountsProofs --------------------------
(***************************************************************************)
(* Proofs about AdminAccounts, for any users, passwords, threads and       *)
(* bounds.  The invariants are proved one after the other, each from the   *)
(* ones before it.                                                         *)
(***************************************************************************)
EXTENDS AdminAccounts, TLAPS

(* A thread that has a change ahead of it works for a call.                   *)
CallsNumbered ==
    \A t \in Thread :
        /\ request[t].pc \in {"insert", "update", "password", "delete", "audit"} =>
              request[t].call \in 1 .. calls
        /\ (request[t].pc = "migrate" /\ request[t].password # None) =>
              request[t].call \in 1 .. calls

TypeInv == TypeOK /\ CallsNumbered

LEMMA InitType == Init => TypeInv
  BY AccountAssumption
  DEF Init, TypeInv, TypeOK, CallsNumbered, Row, Request, Idle, Role, Standing

(* What a call begins with.                                                   *)
LEMMA CallType ==
  ASSUME TypeInv, NEW t \in Thread, NEW r \in Request, Call(t, r),
         r.pc = "migrate" => r.typed \in Password,
         r.pc \in {"insert", "password"} => r.password \in Password
  PROVE  TypeInv'
<1>1. calls' = calls + 1 /\ calls' \in Nat
  BY DEF Call, TypeInv, TypeOK
<1>2. request' \in [Thread -> Request]
  BY <1>1 DEF Call, TypeInv, TypeOK, Request
<1>3. \A u \in Thread : u # t => request'[u] = request[u]
  BY DEF Call, TypeInv, TypeOK
<1>4. request'[t] = [r EXCEPT !.call = calls']
  BY DEF Call, TypeInv, TypeOK
<1>5. /\ request'[t].pc = r.pc /\ request'[t].typed = r.typed
      /\ request'[t].password = r.password /\ request'[t].call = calls'
  BY <1>4 DEF Request
<1>6. \A u \in Thread : /\ request'[u].pc = "migrate" => request'[u].typed \in Password
                        /\ request'[u].pc \in {"insert", "password"} =>
                              request'[u].password \in Password
                        /\ request'[u].call \in 0 .. calls'
  BY <1>1, <1>3, <1>5 DEF TypeInv, TypeOK
<1>7. CallsNumbered'
  BY <1>1, <1>3, <1>5 DEF TypeInv, TypeOK, CallsNumbered
<1>8. /\ admins' \in [User -> Row \cup {None}]
      /\ session' \in [User -> Role \cup {None}]
      /\ audit_logs' \subseteq 1 .. calls'
      /\ stored' \subseteq 1 .. calls' /\ cut' \subseteq 1 .. calls'
      /\ chosen' \in [User -> Password \cup {None}] /\ faults' \in Nat
  BY <1>1 DEF Call, TypeInv, TypeOK, tableVars
<1> QED
  BY <1>1, <1>2, <1>6, <1>7, <1>8 DEF TypeInv, TypeOK

(* A step of a request that leaves the bounds alone and goes on to pc.        *)
LEMMA GotoType ==
  ASSUME TypeInv, NEW t \in Thread,
         NEW pc \in {"role", "password", "audit"},
         Goto(t, pc), UNCHANGED calls,
         pc = "password" => request[t].password \in Password,
         pc \in {"password", "audit"} => request[t].call \in 1 .. calls
  PROVE  /\ request' \in [Thread -> Request]
         /\ \A u \in Thread :
              /\ request'[u].pc = "migrate" => request'[u].typed \in Password
              /\ request'[u].pc \in {"insert", "password"} =>
                    request'[u].password \in Password
              /\ request'[u].call \in 0 .. calls'
         /\ CallsNumbered'
<1>1. request' \in [Thread -> Request]
  BY DEF Goto, TypeInv, TypeOK, Request
<1>2. \A u \in Thread : u # t => request'[u] = request[u]
  BY DEF Goto, TypeInv, TypeOK
<1>3. /\ request'[t].pc = pc /\ request'[t].call = request[t].call
      /\ request'[t].password = request[t].password
  BY DEF Goto, TypeInv, TypeOK, Request
<1> QED
  BY <1>1, <1>2, <1>3 DEF TypeInv, TypeOK, CallsNumbered

LEMMA ReturnType ==
  ASSUME TypeInv, NEW t \in Thread, Return(t), UNCHANGED calls
  PROVE  /\ request' \in [Thread -> Request]
         /\ \A u \in Thread :
              /\ request'[u].pc = "migrate" => request'[u].typed \in Password
              /\ request'[u].pc \in {"insert", "password"} =>
                    request'[u].password \in Password
              /\ request'[u].call \in 0 .. calls'
         /\ CallsNumbered'
<1>1. Idle \in Request /\ Idle.pc = "idle" /\ Idle.call = 0
  BY AccountAssumption DEF Idle, Request, Role, Standing
<1>2. request' \in [Thread -> Request]
  BY <1>1 DEF Return, TypeInv, TypeOK
<1>3. \A u \in Thread : u # t => request'[u] = request[u]
  BY DEF Return, TypeInv, TypeOK
<1>4. request'[t] = Idle
  BY DEF Return, TypeInv, TypeOK
<1> QED
  BY <1>1, <1>2, <1>3, <1>4 DEF TypeInv, TypeOK, CallsNumbered

LEMMA NextType == TypeInv /\ [Next]_accountVars => TypeInv'
<1> SUFFICES ASSUME TypeInv, [Next]_accountVars PROVE TypeInv'
  OBVIOUS
<1> USE AccountAssumption DEF tableVars, boundVars
<1>1. ASSUME NEW t \in Thread, NEW u \in User, NEW p \in Password, Login(t, u, p)
      PROVE  TypeInv'
  <2> DEFINE r == [Idle EXCEPT !.pc = AfterCompare(u, "role"), !.actor = u,
                               !.username = u, !.typed = p]
  <2>1. r \in Request /\ r.pc \in {"migrate", "role"} /\ r.typed = p /\ r.call = 0
        /\ r.password = None
    BY DEF AfterCompare, Idle, Request, Role, Standing
  <2>2. request' = [request EXCEPT ![t] = r]
    BY <1>1 DEF Login
  <2> HIDE DEF r
  <2>3. request' \in [Thread -> Request]
    BY <2>1, <2>2 DEF TypeInv, TypeOK
  <2>4. request'[t] = r /\ \A v \in Thread : v # t => request'[v] = request[v]
    BY <2>2 DEF TypeInv, TypeOK
  <2>5. \A v \in Thread : /\ request'[v].pc = "migrate" => request'[v].typed \in Password
                          /\ request'[v].pc \in {"insert", "password"} =>
                                request'[v].password \in Password
                          /\ request'[v].call \in 0 .. calls
    BY <2>1, <2>4 DEF TypeInv, TypeOK
  <2>6. calls' = calls /\ CallsNumbered'
    BY <1>1, <2>1, <2>4 DEF Login, TypeInv, TypeOK, CallsNumbered
  <2> QED
    BY <1>1, <2>3, <2>5, <2>6 DEF Login, TypeInv, TypeOK
<1>2. ASSUME NEW t \in Thread, LoginRole(t) PROVE TypeInv'
  <2>1. session' \in [User -> Role \cup {None}]
    BY <1>2 DEF LoginRole, TypeInv, TypeOK, Row, Role
  <2> QED
    BY <1>2, <2>1, ReturnType DEF LoginRole, TypeInv, TypeOK
<1>3. ASSUME NEW t \in Thread, Migrate(t) PROVE TypeInv'
  <2> DEFINE u == request[t].username
  <2>1. u \in User /\ request[t].typed \in Password
    BY <1>3 DEF Migrate, TypeInv, TypeOK, Request
  <2>2. admins' \in [User -> Row \cup {None}]
    BY <1>3, <2>1 DEF Migrate, TypeInv, TypeOK, Row
  <2>3. request[t].password # None =>
           request[t].password \in Password /\ request[t].call \in 1 .. calls
    BY <1>3 DEF Migrate, TypeInv, TypeOK, CallsNumbered, Request
  <2>4. PICK pc \in {"role", "password"} :
           Goto(t, pc) /\ (pc = "password" => request[t].password # None)
    BY <1>3 DEF Migrate
  <2> QED
    BY <1>3, <2>2, <2>3, <2>4, GotoType DEF Migrate, TypeInv, TypeOK
<1>4. ASSUME NEW u \in User, Logout(u) PROVE TypeInv'
  BY <1>4 DEF Logout, TypeInv, TypeOK, CallsNumbered
<1>5. ASSUME NEW t \in Thread, NEW a \in User, NEW old \in Password,
             NEW new \in Password, ChangePassword(t, a, old, new)
      PROVE  TypeInv'
  <2> DEFINE r == [Idle EXCEPT !.pc = AfterCompare(a, "password"), !.actor = a,
                               !.username = a, !.typed = old, !.password = new]
  <2>1. r \in Request /\ r.typed = old /\ r.password = new
    BY DEF AfterCompare, Idle, Request, Role, Standing
  <2>2. Call(t, r)
    BY <1>5 DEF ChangePassword
  <2> QED
    BY <2>1, <2>2, CallType
<1>6. ASSUME NEW t \in Thread, StorePassword(t) PROVE TypeInv'
  <2> DEFINE q == request[t]
  <2>1. q.username \in User /\ q.password \in Password /\ q.call \in 1 .. calls
    BY <1>6 DEF StorePassword, TypeInv, TypeOK, CallsNumbered, Request
  <2>2. /\ admins' \in [User -> Row \cup {None}]
        /\ chosen' \in [User -> Password \cup {None}]
        /\ stored' \subseteq 1 .. calls
    BY <1>6, <2>1 DEF StorePassword, SetPassword, TypeInv, TypeOK, Row
  <2>3. Goto(t, "audit") \/ Return(t)
    BY <1>6 DEF StorePassword
  <2> QED
    BY <1>6, <2>1, <2>2, <2>3, GotoType, ReturnType DEF StorePassword, TypeInv, TypeOK
<1>7. ASSUME NEW t \in Thread, Audit(t) PROVE TypeInv'
  <2>1. request[t].call \in 1 .. calls
    BY <1>7 DEF Audit, TypeInv, CallsNumbered
  <2> QED
    BY <1>7, <2>1, ReturnType DEF Audit, TypeInv, TypeOK
<1>8. ASSUME NEW t \in Thread, NEW a \in User, NEW u \in User, NEW p \in Password,
             NEW role \in Role, NEW status \in Standing,
             AddAdmin(t, a, u, p, role, status)
      PROVE  TypeInv'
  <2> DEFINE r == [Idle EXCEPT !.pc = "insert", !.actor = a, !.username = u,
                               !.password = p, !.role = role, !.status = status]
  <2>1. r \in Request /\ r.pc = "insert" /\ r.password = p
    BY DEF Idle, Request, Role, Standing
  <2>2. Call(t, r)
    BY <1>8 DEF AddAdmin
  <2> QED
    BY <2>1, <2>2, CallType
<1>9. ASSUME NEW t \in Thread, InsertAdmin(t) PROVE TypeInv'
  <2> DEFINE q == request[t]
  <2>1. q.username \in User /\ q.password \in Password /\ q.call \in 1 .. calls
        /\ q.role \in Role /\ q.status \in Standing
    BY <1>9 DEF InsertAdmin, TypeInv, TypeOK, CallsNumbered, Request
  <2>2. /\ admins' \in [User -> Row \cup {None}]
        /\ chosen' \in [User -> Password \cup {None}]
        /\ stored' \subseteq 1 .. calls
    <3> DEFINE row == [password |-> q.password, legacy |-> FALSE,
                       role |-> q.role, status |-> q.status]
    <3>1. row \in Row
      BY <2>1 DEF Row
    <3>2. \/ /\ admins' = [admins EXCEPT ![q.username] = row]
             /\ chosen' = [chosen EXCEPT ![q.username] = q.password]
             /\ stored' = stored \cup {q.call}
          \/ UNCHANGED tableVars
      BY <1>9 DEF InsertAdmin
    <3>3. /\ admins \in [User -> Row \cup {None}]
          /\ chosen \in [User -> Password \cup {None}]
          /\ stored \subseteq 1 .. calls
      BY DEF TypeInv, TypeOK
    <3> HIDE DEF row, q
    <3> QED
      BY <2>1, <3>1, <3>2, <3>3
  <2>3. Goto(t, "audit") \/ Return(t)
    BY <1>9 DEF InsertAdmin
  <2> QED
    BY <1>9, <2>1, <2>2, <2>3, GotoType, ReturnType DEF InsertAdmin, TypeInv, TypeOK
<1>10. ASSUME NEW t \in Thread, NEW a \in User, NEW u \in User,
              NEW p \in Password \cup {None}, NEW role \in Role, NEW status \in Standing,
              UpdateAdmin(t, a, u, p, role, status)
       PROVE  TypeInv'
  <2> DEFINE r == [Idle EXCEPT !.pc = "update", !.actor = a, !.username = u,
                               !.password = p, !.role = role, !.status = status]
  <2>1. r \in Request /\ r.pc = "update"
    BY DEF Idle, Request, Role, Standing
  <2>2. Call(t, r)
    BY <1>10 DEF UpdateAdmin
  <2> QED
    BY <2>1, <2>2, CallType
<1>11. ASSUME NEW t \in Thread, UpdateRow(t) PROVE TypeInv'
  <2> DEFINE q == request[t]
  <2>1. q.username \in User /\ q.password \in Password \cup {None}
        /\ q.call \in 1 .. calls /\ q.role \in Role /\ q.status \in Standing
    BY <1>11 DEF UpdateRow, TypeInv, TypeOK, CallsNumbered, Request
  <2>2. /\ admins' \in [User -> Row \cup {None}]
        /\ stored' \subseteq 1 .. calls
    BY <1>11, <2>1 DEF UpdateRow, TypeInv, TypeOK, Row
  <2>3. \/ Return(t)
        \/ Goto(t, "audit")
        \/ Goto(t, "password") /\ q.password \in Password
    BY <1>11, <2>1 DEF UpdateRow
  <2> QED
    BY <1>11, <2>1, <2>2, <2>3, GotoType, ReturnType DEF UpdateRow, TypeInv, TypeOK
<1>12. ASSUME NEW t \in Thread, NEW a \in User, NEW u \in User, DeleteAdmin(t, a, u)
       PROVE  TypeInv'
  <2> DEFINE r == [Idle EXCEPT !.pc = "delete", !.actor = a, !.username = u]
  <2>1. r \in Request /\ r.pc = "delete"
    BY DEF Idle, Request, Role, Standing
  <2>2. Call(t, r)
    BY <1>12 DEF DeleteAdmin
  <2> QED
    BY <2>1, <2>2, CallType
<1>13. ASSUME NEW t \in Thread, DeleteRow(t) PROVE TypeInv'
  <2> DEFINE q == request[t]
  <2>1. q.username \in User /\ q.call \in 1 .. calls
    BY <1>13 DEF DeleteRow, TypeInv, TypeOK, CallsNumbered, Request
  <2>2. /\ admins' \in [User -> Row \cup {None}]
        /\ chosen' \in [User -> Password \cup {None}]
        /\ stored' \subseteq 1 .. calls
    BY <1>13, <2>1 DEF DeleteRow, TypeInv, TypeOK
  <2>3. Goto(t, "audit") \/ Return(t)
    BY <1>13 DEF DeleteRow
  <2> QED
    BY <1>13, <2>1, <2>2, <2>3, GotoType, ReturnType DEF DeleteRow, TypeInv, TypeOK
<1>14. ASSUME SeedAdmin PROVE TypeInv'
  BY <1>14 DEF SeedAdmin, TypeInv, TypeOK, CallsNumbered, Row, Role, Standing
<1>15. ASSUME NEW t \in Thread, EndEarly(t) PROVE TypeInv'
  <2>1. request[t].call \in 0 .. calls
    BY DEF TypeInv, TypeOK
  <2>2. cut' \subseteq 1 .. calls /\ faults' \in Nat
    <3> DEFINE n == request[t].call
    <3>1. cut' = cut \cup ({n} \ {0}) /\ faults' = faults + 1
      BY <1>15 DEF EndEarly
    <3>2. cut \subseteq 1 .. calls /\ faults \in Nat /\ calls \in Nat
      BY DEF TypeInv, TypeOK
    <3> HIDE DEF n
    <3>3. n \in 0 .. calls
      BY <2>1 DEF n
    <3> QED
      BY <3>1, <3>2, <3>3
  <2>3. Return(t) /\ UNCHANGED <<tableVars, session, audit_logs, calls>>
    BY <1>15 DEF EndEarly
  <2>4. /\ request' \in [Thread -> Request]
        /\ \A u \in Thread :
              /\ request'[u].pc = "migrate" => request'[u].typed \in Password
              /\ request'[u].pc \in {"insert", "password"} =>
                    request'[u].password \in Password
              /\ request'[u].call \in 0 .. calls'
        /\ CallsNumbered'
    BY <2>3, ReturnType
  <2>5. /\ admins' \in [User -> Row \cup {None}]
        /\ session' \in [User -> Role \cup {None}]
        /\ audit_logs' \subseteq 1 .. calls' /\ stored' \subseteq 1 .. calls'
        /\ chosen' \in [User -> Password \cup {None}] /\ calls' \in Nat
    BY <2>3 DEF TypeInv, TypeOK
  <2> QED
    BY <2>2, <2>3, <2>4, <2>5 DEF TypeInv, TypeOK
<1>16. CASE UNCHANGED accountVars
  BY <1>16 DEF accountVars, TypeInv, TypeOK, CallsNumbered
<1> QED
  BY <1>1, <1>2, <1>3, <1>4, <1>5, <1>6, <1>7, <1>8, <1>9, <1>10, <1>11, <1>12, <1>13,
     <1>14, <1>15, <1>16
  DEF Next, Sessions, Passwords, Accounts

(* Types of the accounts, sessions and requests under every interleaving and   *)
(* failure: a NULL never becomes a password, and an audit row has a call.     *)
THEOREM AccountsTypeCorrect == Spec => []TypeOK
<1>1. TypeInv => TypeOK
  BY DEF TypeInv
<1> QED
  BY <1>1, InitType, NextType, PTL DEF Spec

-----------------------------------------------------------------------------
(* What the three kinds of steps do to the requests.                          *)

LEMMA GotoFields ==
  ASSUME TypeOK, NEW t \in Thread, NEW pc, Goto(t, pc)
  PROVE  /\ \A v \in Thread : v # t => request'[v] = request[v]
         /\ request'[t].pc = pc
         /\ request'[t].call = request[t].call
         /\ request'[t].actor = request[t].actor
         /\ request'[t].username = request[t].username
         /\ request'[t].typed = request[t].typed
         /\ request'[t].password = request[t].password
         /\ request'[t].role = request[t].role
         /\ request'[t].status = request[t].status
  BY DEF Goto, TypeOK, Request

LEMMA ReturnFields ==
  ASSUME TypeOK, NEW t \in Thread, Return(t)
  PROVE  /\ \A v \in Thread : v # t => request'[v] = request[v]
         /\ request'[t].pc = "idle" /\ request'[t].call = 0
  BY DEF Return, Idle, TypeOK

LEMMA CallFields ==
  ASSUME TypeOK, NEW t \in Thread, NEW r \in Request, Call(t, r)
  PROVE  /\ \A v \in Thread : v # t => request'[v] = request[v]
         /\ request'[t] \in Request
         /\ request'[t].pc = r.pc
         /\ request'[t].call = calls + 1
         /\ request'[t].actor = r.actor
         /\ request'[t].username = r.username
         /\ request'[t].typed = r.typed
         /\ request'[t].password = r.password
         /\ request'[t].role = r.role
         /\ request'[t].status = r.status
  BY DEF Call, TypeOK, Request

(* The five ways a request begins.                                            *)
LEMMA LoginFields ==
  ASSUME TypeOK, NEW t \in Thread, NEW u \in User, NEW p \in Password, Login(t, u, p)
  PROVE  /\ \A v \in Thread : v # t => request'[v] = request[v]
         /\ request'[t].pc = AfterCompare(u, "role") /\ request'[t].call = 0
         /\ request'[t].username = u /\ request'[t].typed = p
         /\ request'[t].password = None
  BY DEF Login, Idle, TypeOK

LEMMA ChangeFields ==
  ASSUME TypeOK, NEW t \in Thread, NEW a \in User, NEW old \in Password,
         NEW new \in Password, ChangePassword(t, a, old, new)
  PROVE  /\ \A v \in Thread : v # t => request'[v] = request[v]
         /\ request'[t].pc = AfterCompare(a, "password") /\ request'[t].call = calls + 1
         /\ request'[t].username = a /\ request'[t].typed = old
         /\ request'[t].password = new
<1> DEFINE r == [Idle EXCEPT !.pc = AfterCompare(a, "password"), !.actor = a,
                             !.username = a, !.typed = old, !.password = new]
<1>1. /\ r \in Request /\ r.typed = old /\ r.password = new
      /\ r.pc = AfterCompare(a, "password") /\ r.username = a
  BY AccountAssumption DEF AfterCompare, Idle, Request, Role, Standing
<1>2. Call(t, r)
  BY DEF ChangePassword
<1> HIDE DEF r
<1> QED
  BY <1>1, <1>2, CallFields

LEMMA AddFields ==
  ASSUME TypeOK, NEW t \in Thread, NEW a \in User, NEW u \in User, NEW p \in Password,
         NEW role \in Role, NEW status \in Standing, AddAdmin(t, a, u, p, role, status)
  PROVE  /\ \A v \in Thread : v # t => request'[v] = request[v]
         /\ request'[t].pc = "insert" /\ request'[t].call = calls + 1
<1> DEFINE r == [Idle EXCEPT !.pc = "insert", !.actor = a, !.username = u,
                             !.password = p, !.role = role, !.status = status]
<1>1. r \in Request /\ r.pc = "insert"
  BY AccountAssumption DEF Idle, Request, Role, Standing
<1>2. Call(t, r)
  BY DEF AddAdmin
<1> HIDE DEF r
<1> QED
  BY <1>1, <1>2, CallFields

LEMMA UpdateFields ==
  ASSUME TypeOK, NEW t \in Thread, NEW a \in User, NEW u \in User,
         NEW p \in Password \cup {None}, NEW role \in Role, NEW status \in Standing,
         UpdateAdmin(t, a, u, p, role, status)
  PROVE  /\ \A v \in Thread : v # t => request'[v] = request[v]
         /\ request'[t].pc = "update" /\ request'[t].call = calls + 1
         /\ request'[t].typed = None
         /\ request'[t].username = request'[t].actor => request'[t].status = "ACTIVE"
<1> DEFINE r == [Idle EXCEPT !.pc = "update", !.actor = a, !.username = u,
                             !.password = p, !.role = role, !.status = status]
<1>1. /\ r \in Request /\ r.pc = "update" /\ r.typed = None
      /\ r.actor = a /\ r.username = u /\ r.status = status
  BY AccountAssumption DEF Idle, Request, Role, Standing
<1>2. Call(t, r) /\ (u = a => status = "ACTIVE")
  BY DEF UpdateAdmin
<1> HIDE DEF r
<1> QED
  BY <1>1, <1>2, CallFields

LEMMA DeleteFields ==
  ASSUME TypeOK, NEW t \in Thread, NEW a \in User, NEW u \in User, DeleteAdmin(t, a, u)
  PROVE  /\ \A v \in Thread : v # t => request'[v] = request[v]
         /\ request'[t].pc = "delete" /\ request'[t].call = calls + 1
         /\ request'[t].username # request'[t].actor
<1> DEFINE r == [Idle EXCEPT !.pc = "delete", !.actor = a, !.username = u]
<1>1. r \in Request /\ r.pc = "delete" /\ r.actor = a /\ r.username = u
  BY AccountAssumption DEF Idle, Request, Role, Standing
<1>2. Call(t, r) /\ u # a
  BY DEF DeleteAdmin
<1> HIDE DEF r
<1> QED
  BY <1>1, <1>2, CallFields

-----------------------------------------------------------------------------
(* Only an account of an earlier version is legacy, and only its old password  *)
(* is ever migrated.                                                          *)
OldStays ==
    /\ \A u \in User : (admins[u] # None /\ admins[u].legacy) =>
          admins[u].password = OldPassword[u]
    /\ \A t \in Thread : request[t].pc = "migrate" =>
          request[t].typed = OldPassword[request[t].username]

PasswordInv == OldStays /\ PasswordSticks

LEMMA InitPasswords == Init => PasswordInv
  BY DEF Init, PasswordInv, OldStays, PasswordSticks, Idle

LEMMA NextPasswords == TypeInv /\ PasswordInv /\ [Next]_accountVars => PasswordInv'
<1> SUFFICES ASSUME TypeInv, PasswordInv, [Next]_accountVars PROVE PasswordInv'
  OBVIOUS
<1>0. TypeOK
  BY DEF TypeInv
<1> USE <1>0 DEF tableVars, boundVars
<1>1. ASSUME NEW t \in Thread, NEW u \in User, NEW p \in Password, Login(t, u, p)
      PROVE  PasswordInv'
  <2>1. request'[t].pc = "migrate" => p = OldPassword[u]
    <3>1. request'[t].pc = "migrate" => admins[u].legacy
      BY <1>1, LoginFields DEF AfterCompare
    <3>2. admins[u] # None /\ admins[u].password = p
      BY <1>1 DEF Login, Authentic
    <3> QED
      BY <3>1, <3>2 DEF PasswordInv, OldStays
  <2>2. UNCHANGED <<admins, chosen>>
    BY <1>1 DEF Login
  <2> QED
    BY <1>1, <2>1, <2>2, LoginFields DEF PasswordInv, OldStays, PasswordSticks
<1>2. ASSUME NEW t \in Thread, NEW a \in User, NEW old \in Password,
             NEW new \in Password, ChangePassword(t, a, old, new)
      PROVE  PasswordInv'
  <2>1. request'[t].pc = "migrate" => old = OldPassword[a]
    <3>1. request'[t].pc = "migrate" => admins[a].legacy
      BY <1>2, ChangeFields DEF AfterCompare
    <3>2. admins[a] # None /\ admins[a].password = old
      BY <1>2 DEF ChangePassword, Authentic
    <3> QED
      BY <3>1, <3>2 DEF PasswordInv, OldStays
  <2>2. UNCHANGED <<admins, chosen>>
    BY <1>2 DEF ChangePassword, Call
  <2> QED
    BY <1>2, <2>1, <2>2, ChangeFields DEF PasswordInv, OldStays, PasswordSticks
<1>3. ASSUME NEW t \in Thread, Return(t), UNCHANGED <<admins, chosen>> PROVE PasswordInv'
  BY <1>3, ReturnFields DEF PasswordInv, OldStays, PasswordSticks
<1>4. ASSUME NEW t \in Thread, NEW pc \in {"role", "password", "audit"}, Goto(t, pc),
             \A u \in User :
                 \/ admins'[u] = admins[u] /\ chosen'[u] = chosen[u]
                 \/ admins'[u] = None
                 \/ ~admins'[u].legacy /\ admins'[u].password \in {chosen'[u], OldPassword[u]}
                 \/ /\ admins[u] # None /\ chosen'[u] = chosen[u]
                    /\ admins'[u].password = admins[u].password
                    /\ admins'[u].legacy = admins[u].legacy
      PROVE  PasswordInv'
  <2>1. \A v \in Thread : request'[v].pc = "migrate" => request'[v] = request[v]
    BY <1>4, GotoFields
  <2> QED
    BY <1>4, <2>1 DEF PasswordInv, OldStays, PasswordSticks
<1>5. ASSUME NEW t \in Thread, Migrate(t) PROVE PasswordInv'
  <2> DEFINE u == request[t].username
  <2>1. u \in User /\ request[t].typed = OldPassword[u]
    BY <1>5 DEF Migrate, TypeOK, Request, PasswordInv, OldStays
  <2>2. PICK pc \in {"role", "password"} : Goto(t, pc)
    BY <1>5 DEF Migrate
  <2>3. \A w \in User : \/ admins'[w] = admins[w]
                        \/ /\ ~admins'[w].legacy
                           /\ admins'[w].password = OldPassword[w]
    <3> DEFINE p == request[t].typed
    <3>1. \/ admins' = admins
          \/ /\ admins[u] # None
             /\ admins' = [admins EXCEPT ![u].password = p, ![u].legacy = FALSE]
      BY <1>5 DEF Migrate
    <3>2. admins \in [User -> Row \cup {None}] /\ u \in User /\ p = OldPassword[u]
      BY <2>1 DEF TypeOK
    <3> HIDE DEF u, p
    <3> QED
      BY <3>1, <3>2 DEF Row
  <2>4. chosen' = chosen
    BY <1>5 DEF Migrate
  <2> QED
    BY <1>4, <2>2, <2>3, <2>4
<1>6. ASSUME NEW t \in Thread, StorePassword(t) PROVE PasswordInv'
  <2> DEFINE u == request[t].username
             p == request[t].password
  <2>1. u \in User
    BY DEF TypeOK, Request
  <2>2. CASE admins[u] = None
    BY <1>3, <1>4, <1>6, <2>2 DEF StorePassword
  <2>3. CASE admins[u] # None
    <3>1. Goto(t, "audit") /\ SetPassword(u, p)
      BY <1>6, <2>3 DEF StorePassword
    <3>2. \A w \in User : \/ admins'[w] = admins[w] /\ chosen'[w] = chosen[w]
                          \/ ~admins'[w].legacy /\ admins'[w].password = chosen'[w]
      BY <2>1, <2>3, <3>1 DEF SetPassword, TypeOK, Row
    <3> QED
      BY <1>4, <3>1, <3>2
  <2> QED
    BY <2>2, <2>3
<1>7. ASSUME NEW t \in Thread, InsertAdmin(t) PROVE PasswordInv'
  <2> DEFINE u == request[t].username
  <2>1. u \in User
    BY DEF TypeOK, Request
  <2>2. CASE admins[u] # None
    BY <1>3, <1>7, <2>2 DEF InsertAdmin
  <2>3. CASE admins[u] = None
    <3>1. Goto(t, "audit")
      BY <1>7, <2>3 DEF InsertAdmin
    <3>2. \A w \in User : \/ admins'[w] = admins[w] /\ chosen'[w] = chosen[w]
                          \/ ~admins'[w].legacy /\ admins'[w].password = chosen'[w]
      BY <1>7, <2>1, <2>3 DEF InsertAdmin, TypeOK
    <3> QED
      BY <1>4, <3>1, <3>2
  <2> QED
    BY <2>2, <2>3
<1>8. ASSUME NEW t \in Thread, UpdateRow(t) PROVE PasswordInv'
  <2> DEFINE u == request[t].username
  <2>1. u \in User
    BY DEF TypeOK, Request
  <2>2. CASE admins[u] = None
    BY <1>3, <1>8, <2>2 DEF UpdateRow
  <2>3. CASE admins[u] # None
    <3>1. PICK pc \in {"audit", "password"} : Goto(t, pc)
      BY <1>8, <2>3 DEF UpdateRow
    <3>2. \A w \in User : \/ admins'[w] = admins[w]
                          \/ /\ admins[w] # None
                             /\ admins'[w].password = admins[w].password
                             /\ admins'[w].legacy = admins[w].legacy
      BY <1>8, <2>1, <2>3 DEF UpdateRow, TypeOK, Row
    <3>3. chosen' = chosen
      BY <1>8 DEF UpdateRow
    <3> QED
      BY <1>4, <3>1, <3>2, <3>3
  <2> QED
    BY <2>2, <2>3
<1>9. ASSUME NEW t \in Thread, DeleteRow(t) PROVE PasswordInv'
  <2> DEFINE u == request[t].username
  <2>1. u \in User
    BY DEF TypeOK, Request
  <2>2. CASE admins[u] = None
    BY <1>3, <1>9, <2>2 DEF DeleteRow
  <2>3. CASE admins[u] # None
    <3>1. Goto(t, "audit")
      BY <1>9, <2>3 DEF DeleteRow
    <3>2. \A w \in User : \/ admins'[w] = admins[w] /\ chosen'[w] = chosen[w]
                          \/ admins'[w] = None
      BY <1>9, <2>1, <2>3 DEF DeleteRow, TypeOK
    <3> QED
      BY <1>4, <3>1, <3>2
  <2> QED
    BY <2>2, <2>3
<1>10. ASSUME NEW t \in Thread,
              \/ LoginRole(t) \/ Audit(t) \/ EndEarly(t)
       PROVE  PasswordInv'
  BY <1>3, <1>10 DEF LoginRole, Audit, EndEarly
<1>11. ASSUME NEW t \in Thread, request'[t].pc # "migrate",
              \A v \in Thread : v # t => request'[v] = request[v],
              UNCHANGED <<admins, chosen>>
       PROVE  PasswordInv'
  BY <1>11 DEF PasswordInv, OldStays, PasswordSticks
<1>12. ASSUME NEW t \in Thread, NEW a \in User, NEW u \in User, NEW p \in Password,
              NEW role \in Role, NEW status \in Standing,
              AddAdmin(t, a, u, p, role, status)
       PROVE  PasswordInv'
  BY <1>11, <1>12, AddFields DEF AddAdmin, Call
<1>13. ASSUME NEW t \in Thread, NEW a \in User, NEW u \in User,
              NEW p \in Password \cup {None}, NEW role \in Role, NEW status \in Standing,
              UpdateAdmin(t, a, u, p, role, status)
       PROVE  PasswordInv'
  BY <1>11, <1>13, UpdateFields DEF UpdateAdmin, Call
<1>14. ASSUME NEW t \in Thread, NEW a \in User, NEW u \in User, DeleteAdmin(t, a, u)
       PROVE  PasswordInv'
  BY <1>11, <1>14, DeleteFields DEF DeleteAdmin, Call
<1>15. ASSUME SeedAdmin PROVE PasswordInv'
  <2>1. \A w \in User : \/ admins'[w] = admins[w] /\ chosen'[w] = chosen[w]
                        \/ ~admins'[w].legacy /\ admins'[w].password = chosen'[w]
    BY <1>15, AccountAssumption DEF SeedAdmin, TypeOK
  <2>2. request' = request
    BY <1>15 DEF SeedAdmin
  <2> QED
    BY <2>1, <2>2 DEF PasswordInv, OldStays, PasswordSticks
<1>16. ASSUME NEW u \in User, Logout(u) PROVE PasswordInv'
  BY <1>16 DEF Logout, PasswordInv, OldStays, PasswordSticks
<1>17. CASE UNCHANGED accountVars
  BY <1>17 DEF accountVars, PasswordInv, OldStays, PasswordSticks
<1> QED
  BY <1>1, <1>2, <1>5, <1>6, <1>7, <1>8, <1>9, <1>10, <1>12, <1>13, <1>14, <1>15, <1>16,
     <1>17
  DEF Next, Sessions, Passwords, Accounts

(* The password of an account is the one last chosen for it or the one of an   *)
(* earlier version, however many logins and changes overlap.                  *)
THEOREM PasswordHolds == Spec => []PasswordSticks
<1>1. PasswordInv => PasswordSticks
  BY DEF PasswordInv
<1> QED
  BY <1>1, InitType, NextType, InitPasswords, NextPasswords, PTL DEF Spec

-----------------------------------------------------------------------------
(* Calls at work differ, and how far each is tells whether its change is       *)
(* stored.                                                                    *)
CallsApart ==
    \A t, v \in Thread : (t # v /\ request[t].call = request[v].call) => request[t].call = 0
CallsStored ==
    \A t \in Thread :
        /\ request[t].pc = "audit" => request[t].call \in stored
        /\ request[t].pc = "update" => request[t].typed = None
        /\ request[t].pc \in {"migrate", "role", "insert", "update", "delete"} =>
              request[t].call \notin stored
        /\ request[t].pc = "password" =>
              (request[t].call \in stored <=> request[t].typed = None)

AuditInv == CallsApart /\ CallsStored /\ AuditFollows

LEMMA InitAudit == Init => AuditInv
  BY DEF Init, AuditInv, CallsApart, CallsStored, AuditFollows, Idle

(* A request begins.                                                          *)
LEMMA BeginAudit ==
  ASSUME TypeInv, AuditInv, NEW t \in Thread, request[t].pc = "idle",
         \A v \in Thread : v # t => request'[v] = request[v],
         request'[t].call \in {0, calls + 1},
         request'[t].call = 0 =>
             \/ request'[t].pc = "role"
             \/ request'[t].pc = "migrate" /\ request'[t].password = None,
         request'[t].pc # "audit",
         request'[t].pc = "update" => request'[t].typed = None,
         request'[t].pc = "password" => request'[t].typed # None,
         UNCHANGED <<stored, audit_logs, cut>>
  PROVE  AuditInv'
<1>1. /\ \A v \in Thread : request[v].call \in 0 .. calls
      /\ stored \subseteq 1 .. calls /\ calls \in Nat
  BY DEF TypeInv, TypeOK
<1>2. calls + 1 \notin stored /\ 0 \notin stored /\ \A v \in Thread : request[v].call # calls + 1
  BY <1>1
<1>3. CallsApart'
  BY <1>2 DEF AuditInv, CallsApart
<1>4. CallsStored'
  BY <1>2 DEF AuditInv, CallsStored
<1>5. AuditFollows'
  BY DEF AuditInv, AuditFollows
<1> QED
  BY <1>3, <1>4, <1>5 DEF AuditInv

(* It goes on, perhaps after it has stored its change.                         *)
LEMMA GotoAudit ==
  ASSUME TypeInv, AuditInv, NEW t \in Thread, NEW pc \in {"role", "password", "audit"},
         Goto(t, pc), UNCHANGED <<audit_logs, cut>>,
         \/ stored' = stored
         \/ stored' = stored \cup {request[t].call} /\ request[t].call # 0,
         request[t].pc \notin {"idle", "audit"},
         pc = "role" => request[t].pc = "migrate" /\ request[t].call \notin stored',
         pc = "audit" => request[t].call \in stored',
         pc = "password" => (request[t].call \in stored' <=> request[t].typed = None)
  PROVE  AuditInv'
<1>1. TypeOK
  BY DEF TypeInv
<1>2. CallsApart'
  BY <1>1, GotoFields DEF AuditInv, CallsApart
<1>3. \A v \in Thread : v # t =>
         (request[v].call \in stored' <=> request[v].call \in stored)
  BY DEF AuditInv, CallsApart
<1>4. CallsStored'
  BY <1>1, <1>3, GotoFields DEF AuditInv, CallsStored
<1>5. ASSUME NEW n \in stored' \ (audit_logs' \cup cut')
      PROVE  \E v \in Thread : request'[v].call = n /\ request'[v].pc \in {"password", "audit"}
  <2>1. CASE n = request[t].call
    BY <1>1, <1>5, <2>1, GotoFields
  <2>2. CASE n # request[t].call
    <3>1. PICK v \in Thread : request[v].call = n /\ request[v].pc \in {"password", "audit"}
      BY <1>5, <2>2 DEF AuditInv, AuditFollows
    <3>2. v # t
      BY <2>2, <3>1
    <3> QED
      BY <1>1, <3>1, <3>2, GotoFields
  <2> QED
    BY <2>1, <2>2
<1>6. audit_logs' \subseteq stored'
  BY DEF AuditInv, AuditFollows
<1> QED
  BY <1>2, <1>4, <1>5, <1>6 DEF AuditInv, AuditFollows

(* It ends: without a change, with its audit row, or early.                   *)
LEMMA ReturnAudit ==
  ASSUME TypeInv, AuditInv, NEW t \in Thread, Return(t), stored' = stored,
         \/ request[t].call \notin stored
         \/ request[t].call \in audit_logs' \cup cut',
         audit_logs \subseteq audit_logs', cut \subseteq cut',
         audit_logs' \subseteq stored
  PROVE  AuditInv'
<1>1. TypeOK
  BY DEF TypeInv
<1>2. CallsApart'
  BY <1>1, ReturnFields DEF AuditInv, CallsApart
<1>3. CallsStored'
  BY <1>1, ReturnFields DEF AuditInv, CallsStored
<1>4. ASSUME NEW n \in stored' \ (audit_logs' \cup cut')
      PROVE  \E v \in Thread : request'[v].call = n /\ request'[v].pc \in {"password", "audit"}
  <2>1. PICK v \in Thread : request[v].call = n /\ request[v].pc \in {"password", "audit"}
    BY <1>4 DEF AuditInv, AuditFollows
  <2>2. v # t
    BY <1>4, <2>1
  <2> QED
    BY <1>1, <2>1, <2>2, ReturnFields
<1> QED
  BY <1>2, <1>3, <1>4 DEF AuditInv, AuditFollows

LEMMA NextAudit == TypeInv /\ AuditInv /\ [Next]_accountVars => AuditInv'
<1> SUFFICES ASSUME TypeInv, AuditInv, [Next]_accountVars PROVE AuditInv'
  OBVIOUS
<1>0. TypeOK /\ CallsNumbered /\ CallsStored /\ audit_logs \subseteq stored
  BY DEF TypeInv, AuditInv, AuditFollows
<1> USE <1>0 DEF tableVars, boundVars
<1>1. ASSUME NEW t \in Thread, NEW u \in User, NEW p \in Password, Login(t, u, p)
      PROVE  AuditInv'
  <2>1. request'[t].pc \in {"migrate", "role"}
    BY <1>1, LoginFields DEF AfterCompare
  <2>2. request[t].pc = "idle" /\ UNCHANGED <<stored, audit_logs, cut>>
    BY <1>1 DEF Login
  <2> QED
    BY <1>1, <2>1, <2>2, LoginFields, BeginAudit
<1>2. ASSUME NEW t \in Thread, NEW a \in User, NEW old \in Password,
             NEW new \in Password, ChangePassword(t, a, old, new)
      PROVE  AuditInv'
  <2>1. request'[t].pc \in {"migrate", "password"} /\ old # None /\ calls + 1 # 0
    BY <1>2, ChangeFields, AccountAssumption DEF AfterCompare, TypeOK
  <2>2. request[t].pc = "idle" /\ UNCHANGED <<stored, audit_logs, cut>>
    BY <1>2 DEF ChangePassword, Call
  <2> QED
    BY <1>2, <2>1, <2>2, ChangeFields, BeginAudit
<1>3. ASSUME NEW t \in Thread, NEW a \in User, NEW u \in User, NEW p \in Password,
             NEW role \in Role, NEW status \in Standing,
             AddAdmin(t, a, u, p, role, status)
      PROVE  AuditInv'
  <2>1. /\ request[t].pc = "idle" /\ UNCHANGED <<stored, audit_logs, cut>>
        /\ calls + 1 # 0
    BY <1>3 DEF AddAdmin, Call, TypeOK
  <2> QED
    BY <1>3, <2>1, AddFields, BeginAudit
<1>4. ASSUME NEW t \in Thread, NEW a \in User, NEW u \in User,
             NEW p \in Password \cup {None}, NEW role \in Role, NEW status \in Standing,
             UpdateAdmin(t, a, u, p, role, status)
      PROVE  AuditInv'
  <2>1. /\ request[t].pc = "idle" /\ UNCHANGED <<stored, audit_logs, cut>>
        /\ calls + 1 # 0
    BY <1>4 DEF UpdateAdmin, Call, TypeOK
  <2> QED
    BY <1>4, <2>1, UpdateFields, BeginAudit
<1>5. ASSUME NEW t \in Thread, NEW a \in User, NEW u \in User, DeleteAdmin(t, a, u)
      PROVE  AuditInv'
  <2>1. /\ request[t].pc = "idle" /\ UNCHANGED <<stored, audit_logs, cut>>
        /\ calls + 1 # 0
    BY <1>5 DEF DeleteAdmin, Call, TypeOK
  <2> QED
    BY <1>5, <2>1, DeleteFields, BeginAudit
<1>6. ASSUME NEW t \in Thread, LoginRole(t) PROVE AuditInv'
  BY <1>6, ReturnAudit DEF LoginRole, CallsStored
<1>7. ASSUME NEW t \in Thread, Migrate(t) PROVE AuditInv'
  <2>1. request[t].pc = "migrate" /\ UNCHANGED <<stored, audit_logs, cut>>
    BY <1>7 DEF Migrate
  <2>2. request[t].call \notin stored /\ request[t].typed # None
    BY <2>1, AccountAssumption DEF CallsStored, TypeOK
  <2>3. Goto(t, "role") \/ Goto(t, "password")
    BY <1>7 DEF Migrate
  <2> QED
    BY <2>1, <2>2, <2>3, GotoAudit
<1>8. ASSUME NEW t \in Thread, StorePassword(t) PROVE AuditInv'
  <2>1. /\ request[t].pc = "password" /\ UNCHANGED <<audit_logs, cut>>
        /\ request[t].call # 0
        /\ request[t].call \in stored <=> request[t].typed = None
    BY <1>8 DEF StorePassword, CallsStored, CallsNumbered
  <2>2. \/ Goto(t, "audit") /\ stored' = stored \cup {request[t].call}
        \/ Goto(t, "audit") /\ stored' = stored /\ request[t].typed = None
        \/ Return(t) /\ stored' = stored /\ request[t].typed # None
    BY <1>8 DEF StorePassword
  <2> QED
    BY <2>1, <2>2, GotoAudit, ReturnAudit
<1>9. ASSUME NEW t \in Thread, Audit(t) PROVE AuditInv'
  BY <1>9, ReturnAudit DEF Audit, CallsStored
<1>10. ASSUME NEW t \in Thread, InsertAdmin(t) PROVE AuditInv'
  <2>1. request[t].call \notin stored /\ request[t].call # 0
    BY <1>10 DEF InsertAdmin, CallsStored, CallsNumbered
  <2>2. \/ Return(t) /\ stored' = stored
        \/ Goto(t, "audit") /\ stored' = stored \cup {request[t].call}
    BY <1>10 DEF InsertAdmin
  <2>3. UNCHANGED <<audit_logs, cut>> /\ request[t].pc \notin {"idle", "audit"}
    BY <1>10 DEF InsertAdmin
  <2> QED
    BY <2>1, <2>2, <2>3, GotoAudit, ReturnAudit
<1>11. ASSUME NEW t \in Thread, UpdateRow(t) PROVE AuditInv'
  <2>1. /\ request[t].call \notin stored /\ request[t].call # 0
        /\ request[t].typed = None
    BY <1>11 DEF UpdateRow, CallsStored, CallsNumbered
  <2>2. \/ Return(t) /\ stored' = stored
        \/ /\ Goto(t, "audit") \/ Goto(t, "password")
           /\ stored' = stored \cup {request[t].call}
    BY <1>11 DEF UpdateRow
  <2>3. UNCHANGED <<audit_logs, cut>> /\ request[t].pc \notin {"idle", "audit"}
    BY <1>11 DEF UpdateRow
  <2> QED
    BY <2>1, <2>2, <2>3, GotoAudit, ReturnAudit
<1>12. ASSUME NEW t \in Thread, DeleteRow(t) PROVE AuditInv'
  <2>1. request[t].call \notin stored /\ request[t].call # 0
    BY <1>12 DEF DeleteRow, CallsStored, CallsNumbered
  <2>2. \/ Return(t) /\ stored' = stored
        \/ Goto(t, "audit") /\ stored' = stored \cup {request[t].call}
    BY <1>12 DEF DeleteRow
  <2>3. UNCHANGED <<audit_logs, cut>> /\ request[t].pc \notin {"idle", "audit"}
    BY <1>12 DEF DeleteRow
  <2> QED
    BY <2>1, <2>2, <2>3, GotoAudit, ReturnAudit
<1>13. ASSUME NEW t \in Thread, EndEarly(t) PROVE AuditInv'
  <2>1. request[t].call \notin stored \/ request[t].call \in cut'
    BY <1>13 DEF EndEarly, TypeOK
  <2> QED
    BY <1>13, <2>1, ReturnAudit DEF EndEarly
<1>14. ASSUME \/ SeedAdmin \/ \E u \in User : Logout(u)
              \/ UNCHANGED accountVars
       PROVE  AuditInv'
  BY <1>14 DEF SeedAdmin, Logout, accountVars, AuditInv, CallsApart, CallsStored,
               AuditFollows
<1> QED
  BY <1>1, <1>2, <1>3, <1>4, <1>5, <1>6, <1>7, <1>8, <1>9, <1>10, <1>11, <1>12, <1>13,
     <1>14
  DEF Next, Sessions, Passwords, Accounts

(* Audit rows are exactly those of the committed changes, but for calls still  *)
(* running or cut short.                                                      *)
THEOREM AuditHolds == Spec => []AuditFollows
<1>1. AuditInv => AuditFollows
  BY DEF AuditInv
<1> QED
  BY <1>1, InitType, NextType, InitAudit, NextAudit, PTL DEF Spec

-----------------------------------------------------------------------------
(* What the two self-checks leave to the statements after them.               *)
SelfSpared ==
    \A t \in Thread :
        /\ request[t].pc = "delete" => request[t].username # request[t].actor
        /\ (request[t].pc = "update" /\ request[t].username = request[t].actor) =>
              request[t].status = "ACTIVE"

LEMMA InitSelf == Init => SelfSpared
  BY DEF Init, SelfSpared, Idle

LEMMA NextSelf == TypeInv /\ SelfSpared /\ [Next]_accountVars => SelfSpared'
<1> SUFFICES ASSUME TypeInv, SelfSpared, [Next]_accountVars PROVE SelfSpared'
  OBVIOUS
<1>0. TypeOK
  BY DEF TypeInv
<1> USE <1>0
<1>1. ASSUME NEW t \in Thread, request'[t].pc \notin {"update", "delete"},
             \A v \in Thread : v # t => request'[v] = request[v]
      PROVE  SelfSpared'
  BY <1>1 DEF SelfSpared
<1>2. ASSUME NEW t \in Thread, NEW u \in User, NEW p \in Password, Login(t, u, p)
      PROVE  SelfSpared'
  BY <1>1, <1>2, LoginFields DEF AfterCompare
<1>3. ASSUME NEW t \in Thread, NEW a \in User, NEW old \in Password,
             NEW new \in Password, ChangePassword(t, a, old, new)
      PROVE  SelfSpared'
  BY <1>1, <1>3, ChangeFields DEF AfterCompare
<1>4. ASSUME NEW t \in Thread, NEW a \in User, NEW u \in User, NEW p \in Password,
             NEW role \in Role, NEW status \in Standing,
             AddAdmin(t, a, u, p, role, status)
      PROVE  SelfSpared'
  BY <1>1, <1>4, AddFields
<1>5. ASSUME NEW t \in Thread, NEW a \in User, NEW u \in User,
             NEW p \in Password \cup {None}, NEW role \in Role, NEW status \in Standing,
             UpdateAdmin(t, a, u, p, role, status)
      PROVE  SelfSpared'
  BY <1>5, UpdateFields DEF SelfSpared
<1>6. ASSUME NEW t \in Thread, NEW a \in User, NEW u \in User, DeleteAdmin(t, a, u)
      PROVE  SelfSpared'
  BY <1>6, DeleteFields DEF SelfSpared
<1>7. ASSUME NEW t \in Thread, NEW pc \in {"role", "password", "audit"}, Goto(t, pc)
      PROVE  SelfSpared'
  BY <1>1, <1>7, GotoFields
<1>8. ASSUME NEW t \in Thread, Return(t) PROVE SelfSpared'
  BY <1>1, <1>8, ReturnFields
<1>9. ASSUME NEW t \in Thread,
             \/ LoginRole(t) \/ Migrate(t) \/ StorePassword(t) \/ Audit(t)
             \/ InsertAdmin(t) \/ UpdateRow(t) \/ DeleteRow(t) \/ EndEarly(t)
      PROVE  SelfSpared'
  <2>1. Return(t) \/ \E pc \in {"role", "password", "audit"} : Goto(t, pc)
    BY <1>9 DEF LoginRole, Migrate, StorePassword, Audit, InsertAdmin, UpdateRow,
                DeleteRow, EndEarly
  <2> QED
    BY <1>7, <1>8, <2>1
<1>10. ASSUME SeedAdmin \/ UNCHANGED accountVars \/ \E u \in User : Logout(u)
       PROVE  SelfSpared'
  BY <1>10 DEF SeedAdmin, Logout, accountVars, SelfSpared
<1> QED
  BY <1>2, <1>3, <1>4, <1>5, <1>6, <1>9, <1>10
  DEF Next, Sessions, Passwords, Accounts

(* The step that takes away the last manager.                                 *)
LEMMA NoOtherWay ==
  ASSUME TypeInv, SelfSpared, [Next]_accountVars, Managers # {}, Managers' = {}
  PROVE  \E t \in Thread :
            /\ request[t].pc \in {"update", "delete"}
            /\ \/ request[t].actor \notin Managers
               \/ /\ request[t].pc = "update"
                  /\ request[t].username = request[t].actor
                  /\ request[t].role # "SUPER_ADMIN"
<1>0. /\ admins \in [User -> Row \cup {None}]
      /\ \A t \in Thread : request[t] \in Request
  BY DEF TypeInv, TypeOK
<1> USE AccountAssumption DEF tableVars
<1>1. ASSUME \A u \in User : \/ admins'[u] = admins[u]
                            \/ /\ admins[u] # None => admins'[u] \in Row
                                  /\ admins'[u].role = admins[u].role
                                  /\ admins'[u].status = admins[u].status
      PROVE  FALSE
  <2>1. PICK m \in User : /\ admins[m] # None /\ admins[m].role = "SUPER_ADMIN"
                          /\ admins[m].status = "ACTIVE"
    BY DEF Managers
  <2>2. m \in Managers'
    BY <1>1, <2>1 DEF Managers
  <2> QED
    BY <2>2
<1>2. ASSUME NEW t \in Thread, UpdateRow(t), request[t].actor \in Managers,
             request[t].username = request[t].actor => request[t].role = "SUPER_ADMIN"
      PROVE  FALSE
  <2> DEFINE a == request[t].actor
             u == request[t].username
  <2>1. u = a => request[t].status = "ACTIVE"
    BY <1>2 DEF SelfSpared, UpdateRow
  <2>2. a \in User /\ u \in User /\ admins[a] # None
    BY <1>0, <1>2 DEF Managers, Request
  <2>3. CASE admins[u] = None
    BY <1>1, <1>2, <2>3 DEF UpdateRow
  <2>4. CASE admins[u] # None /\ u # a
    <3>1. admins'[a] = admins[a]
      BY <1>0, <1>2, <2>2, <2>4 DEF UpdateRow
    <3> QED
      BY <1>2, <3>1 DEF Managers
  <2>5. CASE admins[u] # None /\ u = a
    <3>1. /\ admins'[a] = [admins[a] EXCEPT !.role = request[t].role,
                                            !.status = request[t].status]
          /\ admins[a] \in Row
      BY <1>0, <1>2, <2>2, <2>5 DEF UpdateRow
    <3>2. request[t].role \in Role /\ request[t].status \in Standing
      BY <1>0 DEF Request
    <3>3. admins'[a] \in Row /\ admins'[a].role = request[t].role
          /\ admins'[a].status = request[t].status
      BY <3>1, <3>2 DEF Row
    <3>4. a \in Managers'
      BY <1>2, <2>1, <2>2, <2>5, <3>3 DEF Managers
    <3> QED
      BY <3>4
  <2> QED
    BY <2>3, <2>4, <2>5
<1>3. ASSUME NEW t \in Thread, DeleteRow(t), request[t].actor \in Managers
      PROVE  FALSE
  <2> DEFINE a == request[t].actor
             u == request[t].username
  <2>1. u # a /\ a \in User
    BY <1>0, <1>3 DEF SelfSpared, DeleteRow, Request
  <2>2. admins'[a] = admins[a]
    BY <1>0, <1>3, <2>1 DEF DeleteRow
  <2> QED
    BY <1>3, <2>1, <2>2 DEF Managers
<1>4. ASSUME NEW t \in Thread, Migrate(t) \/ StorePassword(t) PROVE FALSE
  <2> DEFINE u == request[t].username
  <2>1. PICK p \in Password :
           \/ admins' = admins
           \/ /\ admins[u] # None
              /\ admins' = [admins EXCEPT ![u].password = p, ![u].legacy = FALSE]
    BY <1>4 DEF Migrate, StorePassword, SetPassword, TypeInv, TypeOK
  <2>2. CASE admins' = admins
    BY <1>1, <2>2
  <2>3. CASE admins' # admins
    <3>1. \A w \in User : w # u => admins'[w] = admins[w]
      BY <1>0, <2>1
    <3>2. u \in User => admins[u] \in Row /\ 
              admins'[u] = [admins[u] EXCEPT !.password = p, !.legacy = FALSE]
      BY <1>0, <2>1, <2>3
    <3>3. u \in User => /\ admins'[u] \in Row
                        /\ admins'[u].role = admins[u].role
                        /\ admins'[u].status = admins[u].status
      BY <3>2 DEF Row
    <3> QED
      BY <1>1, <3>1, <3>3
  <2> QED
    BY <2>2, <2>3
<1>5. ASSUME NEW t \in Thread, InsertAdmin(t) PROVE FALSE
  <2>1. \A w \in User : admins[w] # None => admins'[w] = admins[w]
    BY <1>0, <1>5 DEF InsertAdmin
  <2> QED
    BY <2>1 DEF Managers
<1>6. ASSUME SeedAdmin PROVE FALSE
  <2>1. \A w \in User : admins[w] # None => admins'[w] = admins[w]
    BY <1>0, <1>6 DEF SeedAdmin
  <2> QED
    BY <2>1 DEF Managers
<1>7. ASSUME admins' = admins PROVE FALSE
  BY <1>1, <1>7
<1>8. ASSUME (\E u \in User : Logout(u)) \/ UNCHANGED accountVars PROVE FALSE
  BY <1>7, <1>8 DEF Logout, accountVars
<1>9. ASSUME NEW t \in Thread,
              LoginRole(t) \/ Audit(t) \/ EndEarly(t)
       PROVE  FALSE
  BY <1>7, <1>9 DEF LoginRole, Audit, EndEarly
<1>10. ASSUME NEW t \in Thread, Sessions(t) \/ Passwords(t) PROVE FALSE
  <2>1. CASE Migrate(t) \/ StorePassword(t)
    BY <1>4, <2>1
  <2>2. CASE LoginRole(t)
    BY <1>9, <2>2
  <2>3. CASE \E u \in User, p \in Password : Login(t, u, p)
    BY <1>7, <2>3 DEF Login
  <2>4. CASE \E a \in User, old, new \in Password : ChangePassword(t, a, old, new)
    BY <1>7, <2>4 DEF ChangePassword, Call
  <2> QED
    BY <1>10, <2>1, <2>2, <2>3, <2>4 DEF Sessions, Passwords
<1>11. ASSUME NEW t \in Thread, Accounts(t), ~UpdateRow(t), ~DeleteRow(t) PROVE FALSE
  <2>1. CASE InsertAdmin(t)
    BY <1>5, <2>1
  <2>2. CASE \E a, u \in User, p \in Password, role \in Role, status \in Standing :
                AddAdmin(t, a, u, p, role, status)
    BY <1>7, <2>2 DEF AddAdmin, Call
  <2>3. CASE \E a, u \in User, p \in Password \cup {None}, role \in Role,
                status \in Standing : UpdateAdmin(t, a, u, p, role, status)
    BY <1>7, <2>3 DEF UpdateAdmin, Call
  <2>4. CASE \E a, u \in User : DeleteAdmin(t, a, u)
    BY <1>7, <2>4 DEF DeleteAdmin, Call
  <2> QED
    BY <1>11, <2>1, <2>2, <2>3, <2>4 DEF Accounts
<1>12. PICK t \in Thread : UpdateRow(t) \/ DeleteRow(t)
  BY <1>6, <1>8, <1>9, <1>10, <1>11 DEF Next
<1>13. request[t].pc \in {"update", "delete"} /\ (request[t].pc = "update" <=> UpdateRow(t))
  BY <1>12 DEF UpdateRow, DeleteRow
<1> QED
  BY <1>2, <1>3, <1>12, <1>13

(* The last administrator who can manage accounts is lost in two ways only.    *)
THEOREM LastManagerHolds == Spec => LastManager
<1>1. TypeInv /\ SelfSpared /\ [Next]_accountVars =>
         [(Managers # {} /\ Managers' = {}) =>
          \E t \in Thread :
             /\ request[t].pc \in {"update", "delete"}
             /\ \/ request[t].actor \notin Managers
                \/ /\ request[t].pc = "update"
                   /\ request[t].username = request[t].actor
                   /\ request[t].role # "SUPER_ADMIN"]_accountVars
  BY NoOtherWay
<1> QED
  BY <1>1, InitType, NextType, InitSelf, NextSelf, PTL DEF Spec, LastManager
=============================================================================
