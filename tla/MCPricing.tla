----------------------------- MODULE MCPricing -----------------------------
(* A small instance of Pricing for TLC. *)
EXTENDS Pricing, TLC

CONSTANTS r1, r2, r3

Alike == Permutations(Requests)
============================================================================
