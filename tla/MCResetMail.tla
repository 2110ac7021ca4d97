---------------------------- MODULE MCResetMail ----------------------------
(* A small instance of ResetMail for TLC. *)
EXTENDS ResetMail, TLC

CONSTANTS u1, q1, w1, w2
============================================================================
