----------------------------- MODULE MCCatalog -----------------------------
(* Small instances of Catalog for TLC. *)
EXTENDS Catalog, TLC

CONSTANTS i1, i2, i3, r1, r2, r3

Alike == Permutations({i1, i2, i3}) \cup Permutations(Requests)
============================================================================
