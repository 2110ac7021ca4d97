-------------------------- MODULE MCUserManagement -------------------------
(* Small instances of UserManagement for TLC. *)
EXTENDS UserManagement, TLC

CONSTANTS u1, u2, q1, q2, sh1

TwoAlike == Permutations({u1, u2}) \cup Permutations({q1, q2})
============================================================================
