---------------------------- MODULE AttemptSlot ----------------------------
(***************************************************************************)
(* The attempts of one account as its submissions meet them: there is one  *)
(* active attempt at a time, and what has settled stays settled.           *)
(* Generation implements this for every owner; KeyedSubmission, and with   *)
(* it Submission, is built on it.                                          *)
(***************************************************************************)
CONSTANT Attempts

VARIABLE slot   \* of each attempt: NONE, ACTIVE or SETTLED

Init == slot = [a \in Attempts |-> "NONE"]

Accept(a) ==
  /\ slot[a] = "NONE"
  /\ \A b \in Attempts : slot[b] # "ACTIVE"
  /\ slot' = [slot EXCEPT ![a] = "ACTIVE"]

Settle(S) ==
  /\ \A a \in S : slot[a] = "ACTIVE"
  /\ slot' = [a \in Attempts |-> IF a \in S THEN "SETTLED" ELSE slot[a]]

Next == \/ \E a \in Attempts : Accept(a)
        \/ \E S \in SUBSET Attempts : Settle(S)

Spec == Init /\ [][Next]_slot
============================================================================
