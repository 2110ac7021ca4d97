--------------------------- MODULE MCGeneration ----------------------------
(* Small instances of Generation for TLC. *)
EXTENDS Generation, TLC

CONSTANTS c1, c2, o1, r1, r2

OneOwner == [c \in {c1, c2} |-> o1]
OneTab == [c \in {c1} |-> o1]
OneProcess == {{r1, r2}}
TwoProcesses == {{r1}, {r2}}
SingleRun == {{r1}}

TabsAndRuns == Permutations({c1, c2}) \cup Permutations({r1, r2})
============================================================================
