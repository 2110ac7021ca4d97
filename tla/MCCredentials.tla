--------------------------- MODULE MCCredentials ---------------------------
(* Small instances of Credentials for TLC. *)
EXTENDS Credentials, TLC

CONSTANTS u1, q1, q2, q3

RequestsAlike == Permutations({q1, q2, q3})
============================================================================
