------------------------- MODULE AttemptLifecycle --------------------------
(***************************************************************************)
(* What generation promises to the owner of an attempt, without requests,  *)
(* jobs, leases or workers: an owner has one active attempt at a time, the *)
(* provider is called at most once for it, it succeeds only after that     *)
(* call, a failure is final, and up to the deadline so is a success.       *)
(*                                                                         *)
(* After the deadline the promise is weaker than the documents': Overwrite *)
(* lets a completed attempt become a failed one.                           *)
(***************************************************************************)
EXTENDS Naturals

CONSTANTS Attempts, Owners, NoOwner

VARIABLES
  status,   \* of each attempt
  owner,    \* of each attempt
  elapsed,  \* the attempts whose deadline has passed
  called    \* how often the provider was called for each attempt

vars == <<status, owner, elapsed, called>>

Active == {"PREPARING", "GENERATING"}

Init ==
  /\ status = [a \in Attempts |-> "NONE"]
  /\ owner = [a \in Attempts |-> NoOwner]
  /\ elapsed = {}
  /\ called = [a \in Attempts |-> 0]

Accept(a, o) ==
  /\ status[a] = "NONE"
  /\ \A b \in Attempts : owner[b] = o => status[b] \notin Active
  /\ status' = [status EXCEPT ![a] = "PREPARING"]
  /\ owner' = [owner EXCEPT ![a] = o]
  /\ UNCHANGED <<elapsed, called>>

Dispatch(a) ==
  /\ status[a] = "PREPARING"
  /\ called[a] = 0
  /\ status' = [status EXCEPT ![a] = "GENERATING"]
  /\ called' = [called EXCEPT ![a] = 1]
  /\ UNCHANGED <<owner, elapsed>>

Succeed(a) ==
  /\ status[a] = "GENERATING"
  /\ status' = [status EXCEPT ![a] = "COMPLETED"]
  /\ UNCHANGED <<owner, elapsed, called>>

\* A run gives up on one attempt, or a repair pass on every elapsed one.
GiveUp(S) ==
  /\ S # {}
  /\ \A a \in S : status[a] \in Active
  /\ status' = [a \in Attempts |-> IF a \in S THEN "FAILED" ELSE status[a]]
  /\ UNCHANGED <<owner, elapsed, called>>

Overwrite(a) ==
  /\ status[a] = "COMPLETED"
  /\ a \in elapsed
  /\ status' = [status EXCEPT ![a] = "FAILED"]
  /\ UNCHANGED <<owner, elapsed, called>>

\* Deadlines pass as time does, of active attempts and of settled ones.
Lapse(S) ==
  /\ \A a \in S : status[a] # "NONE"
  /\ elapsed' = elapsed \cup S
  /\ UNCHANGED <<status, owner, called>>

Next ==
  \/ \E a \in Attempts, o \in Owners : Accept(a, o)
  \/ \E a \in Attempts : Dispatch(a) \/ Succeed(a) \/ Overwrite(a)
  \/ \E S \in SUBSET Attempts : GiveUp(S) \/ Lapse(S)

Spec == Init /\ [][Next]_vars
============================================================================
