---------------------------- MODULE MCSubmission ---------------------------
(* A small instance of Submission for TLC. *)
EXTENDS Submission, TLC

CONSTANTS t1, t2, c1, i1, k1, k2

Alike == Permutations({t1, t2}) \cup Permutations({k1, k2})
============================================================================
