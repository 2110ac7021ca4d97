------------------------------- MODULE Pricing ------------------------------
(***************************************************************************)
(* The exchange rate: the settings row that names the rate in effect, the  *)
(* chain of rates that were ever set, and the administrators who set them. *)
(* The settings are updated unconditionally; what refuses a late change is *)
(* the unique index on the predecessor of a rate, and only if it has one.  *)
(***************************************************************************)
EXTENDS Integers, Sequences

CONSTANTS
  Requests,   \* administrators' requests that may be under way together
  MaxRates    \* bound: rates that may be set

ASSUME RatesAssumption == MaxRates \in Nat

VARIABLES
  settings,   \* the PricingSettings row: the current rate and the revision
  previous,   \* the ExchangeRate rows in the order of their commits: the predecessor of each
  req         \* what each request knows, and the statement it comes to next

vars == <<settings, previous, req>>

\* Rates are numbered by their commits; 0 is the null of currentRateId and previousRateId.
Settings == [current : Nat, revision : Nat]

Request == [pc : {"idle", "form", "insert"}, revision : Nat, current : Nat]
Idle == [pc |-> "idle", revision |-> 0, current |-> 0]

Init ==
  /\ settings = [current |-> 0, revision |-> 0]
  /\ previous = <<>>
  /\ req = [r \in Requests |-> Idle]

----------------------------------------------------------------------------
(* Faulty variants of the definitions below, never part of Next: put in    *)
(* place of the original, each must make TLC refute a property.            *)

SucceedsAnyway(c) == TRUE                \* no unique index on previousRateId

FirstInEffect(n) ==                      \* the settings as they are, once a rate is in effect
  [current |-> IF settings.current = 0 THEN n ELSE settings.current,
   revision |-> settings.revision + 1]

SameRevision(n) ==                       \* without the increment of the revision
  [current |-> n, revision |-> settings.revision]

----------------------------------------------------------------------------
\* The unique index on previousRateId, which lets any number of nulls pass.
MaySucceed(c) == c = 0 \/ \A n \in 1 .. Len(previous) : previous[n] # c

InEffect(n) == [current |-> n, revision |-> settings.revision + 1]

\* current: an administrator sees the rate and its revision.
Load(r) ==
  /\ req[r].pc = "idle"
  /\ req' = [req EXCEPT ![r] = [pc |-> "form", revision |-> settings.revision,
                                current |-> settings.current]]
  /\ UNCHANGED <<settings, previous>>

\* set: the settings are read and their revision is compared with the form's.
SetRead(r) ==
  /\ req[r].pc = "form"
  /\ req[r].revision = settings.revision
  /\ req' = [req EXCEPT ![r] = [pc |-> "insert", revision |-> req[r].revision,
                                current |-> settings.current]]
  /\ UNCHANGED <<settings, previous>>

\* set: the insert of the rate, and the update of the settings by their id alone.
SetCommit(r) ==
  LET n == Len(previous) + 1 IN
  /\ req[r].pc = "insert"
  /\ n <= MaxRates
  /\ MaySucceed(req[r].current)
  /\ previous' = Append(previous, req[r].current)
  /\ settings' = InEffect(n)
  /\ req' = [req EXCEPT ![r] = Idle]

\* A conflict of revisions, a rate that has a successor, a database error, or the end of the API.
RequestLost(r) ==
  /\ req[r].pc # "idle"
  /\ req' = [req EXCEPT ![r] = Idle]
  /\ UNCHANGED <<settings, previous>>

Next == \E r \in Requests : Load(r) \/ SetRead(r) \/ SetCommit(r) \/ RequestLost(r)

Spec == Init /\ [][Next]_vars

----------------------------------------------------------------------------
(* Properties.                                                             *)

TypeOK ==
  /\ settings \in Settings
  /\ previous \in Seq(Nat)
  /\ req \in [Requests -> Request]

\* No second rate was set by a request that had read that there was none.
FirstSetOnce == \A n \in 2 .. Len(previous) : previous[n] # 0

\* The inductive invariant: rates are counted by the revision, the newest is in
\* effect, each follows an earlier one or none, and they form one chain if
\* the first was set once.
Ind ==
  /\ TypeOK
  /\ settings.current = Len(previous)
  /\ settings.revision = Len(previous)
  /\ \A n \in 1 .. Len(previous) : previous[n] < n
  /\ FirstSetOnce => \A n \in 1 .. Len(previous) : previous[n] = n - 1
  /\ \A r \in Requests : req[r].current <= Len(previous)

\* spec.md, FR-015: "Concurrent rate edits MUST not silently overwrite a newer
\* saved rate."  A new rate replaces the one its request has read, although
\* nothing is compared when it is written, as long as the first was set once.
NoSilentOverwrite ==
  [][\A r \in Requests : SetCommit(r) /\ FirstSetOnce' => req[r].current = settings.current]_vars

\* The rate in effect can always be replaced: it never has a successor, which
\* the unique index would make the last one.
CanBeReplaced == MaySucceed(settings.current)
============================================================================
