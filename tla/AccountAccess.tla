--------------------------- MODULE AccountAccess ---------------------------
(***************************************************************************)
(* What logins, sessions and the guard may assume of the User table,       *)
(* whoever writes it: whether an account is open and which password it has *)
(* are a function of its version.  Nobody opens, closes or changes the     *)
(* password of an account that exists without raising authVersion.         *)
(***************************************************************************)
EXTENDS Naturals

CONSTANT Users

VARIABLE access   \* whether each account exists and is open, its version and its passwords so far

NoAccount == [exists |-> FALSE, open |-> FALSE, version |-> 0, password |-> 0]
NewAccount(open) == [exists |-> TRUE, open |-> open, version |-> 0, password |-> 0]

Init == access \in [Users -> {NoAccount} \cup {NewAccount(open) : open \in BOOLEAN}]

Appear(u) ==
  /\ ~access[u].exists
  /\ \E open \in BOOLEAN : access' = [access EXCEPT ![u] = NewAccount(open)]

Change(u) ==
  /\ access[u].exists
  /\ \E open \in BOOLEAN : access' = [access EXCEPT ![u].open = open, ![u].version = @ + 1]

SetPassword(u) ==
  /\ access[u].exists
  /\ access' = [access EXCEPT ![u].password = @ + 1, ![u].version = @ + 1]

Next == \E u \in Users : Appear(u) \/ Change(u) \/ SetPassword(u)

Spec == Init /\ [][Next]_access
============================================================================
