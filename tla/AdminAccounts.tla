----------------------------- MODULE AdminAccounts -----------------------------
(***************************************************************************)
(* The accounts of administrators: the table admins, the sessions of the   *)
(* dashboard, and the requests that read and write them (server/routes.py, *)
(* server/database.py).  A request opens a connection for each of its       *)
(* statements and commits it before the next, so every statement is an     *)
(* action and the requests of other threads run in between.                *)
(*                                                                         *)
(* A session is a cookie: the role in it is the one of the login, and a    *)
(* request keeps the cookie it came with.  Each user has one browser.      *)
(* Passwords are compared, never derived: legacy tells whether a row holds *)
(* the SHA-256 of its password, as earlier versions stored it, or bcrypt.  *)
(* What is refused before it changes anything is no action.  Audit rows    *)
(* are named by the call they belong to.                                   *)
(***************************************************************************)
EXTENDS Naturals

CONSTANTS User,
          Password,
          OldPassword,     \* of the accounts an earlier version stored
          DefaultUser,     \* the account that seeding creates
          DefaultPassword,
          None,            \* no account, no password, no session
          Thread,
          MaxCalls,        \* bound on calls that change an account
          MaxFaults        \* bound on calls that end early

VARIABLES admins,      \* the row of each username, or None
          session,     \* the role in the cookie of each user, or None
          request,     \* what each thread is doing
          audit_logs   \* the calls that have an audit row

VARIABLES chosen,      \* history: the password last chosen for each username
          stored,      \* history: the calls whose change was committed
          cut,         \* history: the calls that ended early
          calls,       \* history: number of calls that change an account
          faults       \* history: number of calls and logins that ended early

tableVars == <<admins, chosen, stored>>
boundVars == <<calls, cut, faults>>
accountVars == <<tableVars, session, request, audit_logs, boundVars>>

Role == {"SUPER_ADMIN", "VIEWER"}
Standing == {"ACTIVE", "INACTIVE"}
Row == [password : Password, legacy : BOOLEAN, role : Role, status : Standing]

ASSUME AccountAssumption ==
    /\ None \notin Password \cup Row
    /\ OldPassword \in [User -> Password \cup {None}]
    /\ DefaultUser \in User /\ DefaultPassword \in Password
    /\ MaxCalls \in Nat /\ MaxFaults \in Nat

(* pc is the next statement, typed the password that was compared, password   *)
(* the one to be stored, after what follows the migration.                    *)
Request == [pc : {"idle", "migrate", "role", "insert", "update", "password",
                  "delete", "audit"},
            call : Nat, actor : User, username : User,
            typed : Password \cup {None}, password : Password \cup {None},
            role : Role, status : Standing]
Idle == [pc |-> "idle", call |-> 0, actor |-> DefaultUser, username |-> DefaultUser,
         typed |-> None, password |-> None, role |-> "VIEWER", status |-> "ACTIVE"]

TypeOK ==
    /\ admins \in [User -> Row \cup {None}]
    /\ session \in [User -> Role \cup {None}]
    /\ request \in [Thread -> Request]
    /\ \A t \in Thread :
        /\ request[t].pc = "migrate" => request[t].typed \in Password
        /\ request[t].pc \in {"insert", "password"} => request[t].password \in Password
        /\ request[t].call \in 0 .. calls
    /\ audit_logs \subseteq 1 .. calls
    /\ stored \subseteq 1 .. calls /\ cut \subseteq 1 .. calls
    /\ chosen \in [User -> Password \cup {None}]
    /\ calls \in Nat /\ faults \in Nat

Init ==
    /\ \E role \in [User -> Role] :
          admins = [u \in User |->
              IF OldPassword[u] = None THEN None
              ELSE [password |-> OldPassword[u], legacy |-> TRUE,
                    role |-> role[u], status |-> "ACTIVE"]]
    /\ session = [u \in User |-> None]
    /\ request = [t \in Thread |-> Idle]
    /\ audit_logs = {}
    /\ chosen = OldPassword
    /\ stored = {} /\ cut = {} /\ calls = 0 /\ faults = 0

-----------------------------------------------------------------------------
(* Steps of a request.                                                        *)

Goto(t, pc) == request' = [request EXCEPT ![t].pc = pc]
Return(t) == request' = [request EXCEPT ![t] = Idle]

(* A call that changes an account begins, on a free thread.                   *)
Call(t, r) ==
    /\ request[t].pc = "idle"
    /\ calls < MaxCalls /\ calls' = calls + 1
    /\ request' = [request EXCEPT ![t] = [r EXCEPT !.call = calls']]
    /\ UNCHANGED <<tableVars, session, audit_logs, cut, faults>>

(* require_role("SUPER_ADMIN") looks at the cookie and at nothing else.       *)
MayManage(a) == session[a] = "SUPER_ADMIN"

(* authenticate_admin: the row is read, its status and password compared.     *)
Authentic(u, p) ==
    /\ admins[u] # None
    /\ admins[u].status = "ACTIVE"
    /\ admins[u].password = p
AfterCompare(u, pc) == IF admins[u].legacy THEN "migrate" ELSE pc

(* The second half of authenticate_admin: the password that was compared is   *)
(* stored again, with bcrypt.                                                 *)
Migrate(t) ==
    LET u == request[t].username IN
    /\ request[t].pc = "migrate"
    /\ admins' = IF admins[u] = None THEN admins
                 ELSE [admins EXCEPT ![u].password = request[t].typed, ![u].legacy = FALSE]
    /\ Goto(t, IF request[t].password = None THEN "role" ELSE "password")
    /\ UNCHANGED <<chosen, stored, session, audit_logs, boundVars>>

-----------------------------------------------------------------------------
(* Sessions: api_auth_login and logout.                                       *)

Login(t, u, p) ==
    /\ request[t].pc = "idle"
    /\ Authentic(u, p)
    /\ request' = [request EXCEPT ![t] = [Idle EXCEPT
            !.pc = AfterCompare(u, "role"), !.actor = u, !.username = u, !.typed = p]]
    /\ UNCHANGED <<tableVars, session, audit_logs, boundVars>>

(* The role is read by a connection of its own: the row may be gone by then.  *)
LoginRole(t) ==
    LET u == request[t].username IN
    /\ request[t].pc = "role"
    /\ session' = [session EXCEPT ![u] = IF admins[u] = None THEN "VIEWER"
                                                             ELSE admins[u].role]
    /\ Return(t)
    /\ UNCHANGED <<tableVars, audit_logs, boundVars>>

Logout(u) ==
    /\ session[u] # None
    /\ session' = [session EXCEPT ![u] = None]
    /\ UNCHANGED <<tableVars, request, audit_logs, boundVars>>

-----------------------------------------------------------------------------
(* api_admin_change_password: whoever is logged in, for the own account.      *)
ChangePassword(t, a, old, new) ==
    /\ session[a] # None
    /\ Authentic(a, old)
    /\ Call(t, [Idle EXCEPT !.pc = AfterCompare(a, "password"), !.actor = a,
                            !.username = a, !.typed = old, !.password = new])

(* change_admin_password: an UPDATE of the row, if there is one.              *)
SetPassword(u, p) ==
    /\ admins' = [admins EXCEPT ![u].password = p, ![u].legacy = FALSE]
    /\ chosen' = [chosen EXCEPT ![u] = p]

(* Mutant: the password goes to the account of who sent the request.          *)
StoreOwnPassword(t) ==
    LET r == request[t] IN
    /\ r.pc = "password"
    /\ IF admins[r.username] # None
       THEN /\ admins' = [admins EXCEPT ![r.actor] =
                            IF @ = None THEN @ ELSE [@ EXCEPT !.password = r.password]]
            /\ chosen' = [chosen EXCEPT ![r.username] = r.password]
            /\ stored' = stored \cup {r.call}
            /\ Goto(t, "audit")
       ELSE /\ UNCHANGED tableVars
            /\ IF r.typed = None THEN Goto(t, "audit") ELSE Return(t)
    /\ UNCHANGED <<session, audit_logs, boundVars>>

(* A change of the own password is refused when the row is gone; the update   *)
(* of an account does not look at the result.                                 *)
StorePassword(t) ==
    LET r == request[t] IN
    /\ r.pc = "password"
    /\ IF admins[r.username] # None
       THEN /\ SetPassword(r.username, r.password)
            /\ stored' = stored \cup {r.call}
            /\ Goto(t, "audit")
       ELSE /\ UNCHANGED tableVars
            /\ IF r.typed = None THEN Goto(t, "audit") ELSE Return(t)
    /\ UNCHANGED <<session, audit_logs, boundVars>>

(* record_audit_log, the last statement of each of the four calls.            *)
Audit(t) ==
    /\ request[t].pc = "audit"
    /\ audit_logs' = audit_logs \cup {request[t].call}
    /\ Return(t)
    /\ UNCHANGED <<tableVars, session, boundVars>>

-----------------------------------------------------------------------------
(* api_add_admin: one connection looks for the username, another inserts it.  *)
AddAdmin(t, a, u, p, role, status) ==
    /\ MayManage(a)
    /\ admins[u] = None
    /\ Call(t, [Idle EXCEPT !.pc = "insert", !.actor = a, !.username = u,
                            !.password = p, !.role = role, !.status = status])

(* The unique key refuses a username that was added meanwhile: status 500.    *)
InsertAdmin(t) ==
    LET r == request[t] IN
    /\ r.pc = "insert"
    /\ IF admins[r.username] = None
       THEN /\ admins' = [admins EXCEPT ![r.username] =
                    [password |-> r.password, legacy |-> FALSE,
                     role |-> r.role, status |-> r.status]]
            /\ chosen' = [chosen EXCEPT ![r.username] = r.password]
            /\ stored' = stored \cup {r.call}
            /\ Goto(t, "audit")
       ELSE Return(t) /\ UNCHANGED tableVars
    /\ UNCHANGED <<session, audit_logs, boundVars>>

(* api_update_admin: nobody disables the own account.                         *)
UpdateAdmin(t, a, u, p, role, status) ==
    /\ MayManage(a)
    /\ u = a => status = "ACTIVE"
    /\ Call(t, [Idle EXCEPT !.pc = "update", !.actor = a, !.username = u,
                            !.password = p, !.role = role, !.status = status])

(* Mutant: the password is stored whether one was given or not.               *)
UpdateRowAndPassword(t) ==
    LET r == request[t] IN
    /\ r.pc = "update"
    /\ IF admins[r.username] # None
       THEN /\ admins' = [admins EXCEPT ![r.username].role = r.role,
                                        ![r.username].status = r.status]
            /\ stored' = stored \cup {r.call}
            /\ Goto(t, "password")
       ELSE Return(t) /\ UNCHANGED <<admins, stored>>
    /\ UNCHANGED <<chosen, session, audit_logs, boundVars>>

(* Mutant: the audit row is written with the password only.                   *)
UpdateRowUnaudited(t) ==
    LET r == request[t] IN
    /\ r.pc = "update"
    /\ IF admins[r.username] # None
       THEN /\ admins' = [admins EXCEPT ![r.username].role = r.role,
                                        ![r.username].status = r.status]
            /\ stored' = stored \cup {r.call}
            /\ IF r.password = None THEN Return(t) ELSE Goto(t, "password")
       ELSE Return(t) /\ UNCHANGED <<admins, stored>>
    /\ UNCHANGED <<chosen, session, audit_logs, boundVars>>

(* update_admin_role_and_status; a password follows in a transaction of its   *)
(* own.                                                                       *)
UpdateRow(t) ==
    LET r == request[t] IN
    /\ r.pc = "update"
    /\ IF admins[r.username] # None
       THEN /\ admins' = [admins EXCEPT ![r.username].role = r.role,
                                        ![r.username].status = r.status]
            /\ stored' = stored \cup {r.call}
            /\ Goto(t, IF r.password = None THEN "audit" ELSE "password")
       ELSE Return(t) /\ UNCHANGED <<admins, stored>>
    /\ UNCHANGED <<chosen, session, audit_logs, boundVars>>

(* Mutant: administrators may delete themselves.                              *)
DeleteAnyAdmin(t, a, u) ==
    /\ MayManage(a)
    /\ Call(t, [Idle EXCEPT !.pc = "delete", !.actor = a, !.username = u])

(* api_delete_admin: nobody deletes the own account.                          *)
DeleteAdmin(t, a, u) ==
    /\ MayManage(a)
    /\ u # a
    /\ Call(t, [Idle EXCEPT !.pc = "delete", !.actor = a, !.username = u])

DeleteRow(t) ==
    LET r == request[t] IN
    /\ r.pc = "delete"
    /\ IF admins[r.username] # None
       THEN /\ admins' = [admins EXCEPT ![r.username] = None]
            /\ chosen' = [chosen EXCEPT ![r.username] = None]
            /\ stored' = stored \cup {r.call}
            /\ Goto(t, "audit")
       ELSE Return(t) /\ UNCHANGED tableVars
    /\ UNCHANGED <<session, audit_logs, boundVars>>

-----------------------------------------------------------------------------
(* Seeding, at installation and in every reset: the default account is made   *)
(* again when it is missing.                                                  *)
SeedAdmin ==
    /\ admins[DefaultUser] = None
    /\ admins' = [admins EXCEPT ![DefaultUser] =
            [password |-> DefaultPassword, legacy |-> FALSE,
             role |-> "SUPER_ADMIN", status |-> "ACTIVE"]]
    /\ chosen' = [chosen EXCEPT ![DefaultUser] = DefaultPassword]
    /\ UNCHANGED <<stored, session, request, audit_logs, boundVars>>

(* A statement raises, which the handler answers with status 500, or the      *)
(* process ends: what was committed stays.                                    *)
EndEarly(t) ==
    /\ request[t].pc # "idle"
    /\ faults < MaxFaults /\ faults' = faults + 1
    /\ cut' = cut \cup ({request[t].call} \ {0})
    /\ Return(t)
    /\ UNCHANGED <<tableVars, session, audit_logs, calls>>

-----------------------------------------------------------------------------
Sessions(t) ==
    \/ \E u \in User, p \in Password : Login(t, u, p)
    \/ LoginRole(t) \/ Migrate(t)
Passwords(t) ==
    \/ \E a \in User, old, new \in Password : ChangePassword(t, a, old, new)
    \/ StorePassword(t)
Accounts(t) ==
    \/ \E a, u \in User, p \in Password, role \in Role, status \in Standing :
          AddAdmin(t, a, u, p, role, status)
    \/ \E a, u \in User, p \in Password \cup {None}, role \in Role, status \in Standing :
          UpdateAdmin(t, a, u, p, role, status)
    \/ \E a, u \in User : DeleteAdmin(t, a, u)
    \/ InsertAdmin(t) \/ UpdateRow(t) \/ DeleteRow(t)

Next ==
    \/ \E t \in Thread : \/ Sessions(t) \/ Passwords(t) \/ Accounts(t)
                         \/ Audit(t) \/ EndEarly(t)
    \/ \E u \in User : Logout(u)
    \/ SeedAdmin

Spec == Init /\ [][Next]_accountVars

-----------------------------------------------------------------------------
(* The password of an account is the one last chosen for it, or, for an        *)
(* account that an earlier version stored, the old one: a login that compared *)
(* the old password before it was changed may store it again afterwards.      *)
(* Nothing else is ever undone, and no account gets another one's password.   *)
PasswordSticks ==
    \A u \in User : admins[u] # None =>
        admins[u].password \in {chosen[u], OldPassword[u]}

(* A call has an audit row only if its change was committed, and every         *)
(* committed change has one, is about to, or belongs to a call cut short.     *)
AuditFollows ==
    /\ audit_logs \subseteq stored
    /\ \A n \in stored \ (audit_logs \cup cut) :
          \E t \in Thread : request[t].call = n /\ request[t].pc \in {"password", "audit"}

(* Those who can manage accounts when they log in.                            *)
Managers == {u \in User : /\ admins[u] # None
                          /\ admins[u].role = "SUPER_ADMIN"
                          /\ admins[u].status = "ACTIVE"}

(* The last one disappears only by giving up the role himself, or by a request *)
(* of somebody who is no manager any more and whose cookie still says so: two *)
(* who remove each other, for instance.                                       *)
LastManager ==
    [][(Managers # {} /\ Managers' = {}) =>
          \E t \in Thread :
             /\ request[t].pc \in {"update", "delete"}
             /\ \/ request[t].actor \notin Managers
                \/ /\ request[t].pc = "update"
                   /\ request[t].username = request[t].actor
                   /\ request[t].role # "SUPER_ADMIN"]_accountVars
=============================================================================
