--------------------------- MODULE MCAdminAccounts ---------------------------
(* Instances of AdminAccounts for TLC: the seeded administrator, and one whose *)
(* account an earlier version stored.                                         *)
EXTENDS AdminAccounts

CONSTANTS admin, officer, p1, p2, t1, t2

OfficerIsOld == [u \in User |-> IF u = officer THEN p1 ELSE None]
=============================================================================
