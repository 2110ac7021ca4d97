-------------------------- MODULE KeyedSubmission --------------------------
(***************************************************************************)
(* What submission promises to the tabs of one account: their attempts     *)
(* take the slot one after the other, and all requests with one key are    *)
(* answered with one attempt, which no other key is answered with.         *)
(*                                                                         *)
(* There are no drafts, requests or receipts.  An attempt may stay without *)
(* an answer, and more than one may be accepted for a key.                 *)
(***************************************************************************)
CONSTANTS Attempts, Keys

VARIABLES
  slot,      \* the attempts, as in AttemptSlot
  answers    \* the attempts answered to each key

vars == <<slot, answers>>

Slots == INSTANCE AttemptSlot

Init == Slots!Init /\ answers = [k \in Keys |-> {}]

\* The first answer to a key, or the same again.
Answer(k, a) ==
  /\ slot[a] # "NONE"
  /\ answers[k] \subseteq {a}
  /\ \A j \in Keys \ {k} : a \notin answers[j]
  /\ answers' = [answers EXCEPT ![k] = {a}]
  /\ UNCHANGED slot

Next ==
  \/ Slots!Next /\ UNCHANGED answers
  \/ \E k \in Keys, a \in Attempts : Answer(k, a)

Spec == Init /\ [][Next]_vars
============================================================================
