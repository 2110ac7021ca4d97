---------------------------- MODULE PricingProofs ---------------------------
(***************************************************************************)
(* Proofs about Pricing, for any number of administrators and rates.       *)
(***************************************************************************)
EXTENDS Pricing, TLAPS

LEMMA InitInd == Init => Ind
  BY DEF Init, Ind, TypeOK, Settings, Request, Idle, FirstSetOnce

\* What a new rate does to the chain: it is the last, and keeps the chain if it
\* replaces the rate in effect.
LEMMA Committed ==
  ASSUME Ind, NEW r \in Requests, SetCommit(r)
  PROVE  /\ Len(previous') = Len(previous) + 1
         /\ previous' \in Seq(Nat)
         /\ previous'[Len(previous) + 1] = req[r].current
         /\ \A n \in 1 .. Len(previous) : previous'[n] = previous[n]
         /\ MaySucceed(req[r].current)
  BY DEF Ind, TypeOK, Request, SetCommit

\* With one first rate, a request whose rate was replaced cannot commit: the
\* rate that replaced it took its place in the index.
LEMMA ReplacesWhatItRead ==
  ASSUME Ind, NEW r \in Requests, SetCommit(r), FirstSetOnce'
  PROVE  req[r].current = Len(previous)
<1> DEFINE c == req[r].current
           m == Len(previous)
<1>1. m \in Nat /\ c \in Nat /\ c <= m /\ previous \in Seq(Nat) BY DEF Ind, TypeOK, Request
<1>2. FirstSetOnce
  BY <1>1, Committed DEF FirstSetOnce
<1>3. \A n \in 1 .. m : previous[n] = n - 1 BY <1>2 DEF Ind
<1>4. SUFFICES ASSUME c < m PROVE FALSE BY <1>1
<1>5. CASE c = 0
  <2>1. previous'[m + 1] = 0 /\ m + 1 \in 2 .. Len(previous') BY <1>1, <1>4, <1>5, Committed
  <2>2. QED BY <2>1 DEF FirstSetOnce
<1>6. CASE c # 0
  <2>1. c + 1 \in 1 .. m /\ previous[c + 1] = c BY <1>1, <1>3, <1>4
  <2>2. QED BY <1>6, <2>1, Committed DEF MaySucceed
<1>7. QED BY <1>5, <1>6

LEMMA CommitStep == ASSUME Ind, NEW r \in Requests, SetCommit(r) PROVE Ind'
<1> DEFINE c == req[r].current
           m == Len(previous)
<1>1. /\ m \in Nat /\ c \in Nat /\ c <= m /\ previous \in Seq(Nat)
      /\ settings \in Settings /\ settings.revision = m
      /\ req \in [Requests -> Request]
  BY DEF Ind, TypeOK, Request
<1>2. /\ settings' = [current |-> m + 1, revision |-> m + 1]
      /\ req' = [req EXCEPT ![r] = Idle]
  BY <1>1 DEF SetCommit, InEffect
<1>3. TypeOK' BY <1>1, <1>2, Committed DEF TypeOK, Settings, Request, Idle
<1>4. \A n \in 1 .. Len(previous') : previous'[n] < n
  <2>1. \A n \in 1 .. m : previous[n] < n BY DEF Ind
  <2>2. QED BY <1>1, <2>1, Committed
<1>5. ASSUME FirstSetOnce' PROVE \A n \in 1 .. Len(previous') : previous'[n] = n - 1
  <2>1. c = m BY <1>5, ReplacesWhatItRead
  <2>2. FirstSetOnce
    <3> SUFFICES ASSUME NEW n \in 2 .. m PROVE previous[n] # 0 BY DEF FirstSetOnce
    <3>1. n \in 1 .. m /\ n \in 2 .. Len(previous') BY <1>1, Committed
    <3>2. previous'[n] # 0 BY <1>5, <3>1 DEF FirstSetOnce
    <3>3. QED BY <3>1, <3>2, Committed
  <2>3. \A n \in 1 .. m : previous[n] = n - 1 BY <2>2 DEF Ind
  <2>4. QED BY <1>1, <2>1, <2>3, Committed
<1>6. \A s \in Requests : req'[s].current <= Len(previous')
  <2> SUFFICES ASSUME NEW s \in Requests PROVE req'[s].current <= m + 1
    BY <1>1, Committed
  <2>1. req[s].current \in Nat /\ req[s].current <= m BY <1>1 DEF Ind, Request
  <2>2. QED BY <1>1, <1>2, <2>1 DEF Idle
<1>7. settings'.current = Len(previous') /\ settings'.revision = Len(previous')
  BY <1>1, <1>2, Committed
<1>8. QED BY <1>3, <1>4, <1>5, <1>6, <1>7 DEF Ind

LEMMA OtherSteps ==
  ASSUME Ind, NEW r \in Requests, Load(r) \/ SetRead(r) \/ RequestLost(r) PROVE Ind'
<1> DEFINE m == Len(previous)
<1>1. /\ settings \in Settings /\ settings.current = m /\ settings.revision = m
      /\ m \in Nat /\ req \in [Requests -> Request]
  BY DEF Ind, TypeOK
<1>2. UNCHANGED <<settings, previous>> BY DEF Load, SetRead, RequestLost
<1>3. PICK q \in Request : req' = [req EXCEPT ![r] = q] /\ q.current <= m
  <2>1. CASE Load(r)
    <3> DEFINE q == [pc |-> "form", revision |-> settings.revision, current |-> settings.current]
    <3>1. q \in Request /\ q.current <= m BY <1>1 DEF Request
    <3>2. QED BY <2>1, <3>1 DEF Load
  <2>2. CASE SetRead(r)
    <3> DEFINE q == [pc |-> "insert", revision |-> req[r].revision, current |-> settings.current]
    <3>1. q \in Request /\ q.current <= m BY <1>1 DEF Request
    <3>2. QED BY <2>2, <3>1 DEF SetRead
  <2>3. CASE RequestLost(r)
    <3>1. Idle \in Request /\ Idle.current <= m BY <1>1 DEF Idle, Request
    <3>2. QED BY <2>3, <3>1 DEF RequestLost
  <2>4. QED BY <2>1, <2>2, <2>3
<1>4. \A s \in Requests : req'[s].current <= m BY <1>1, <1>3 DEF Ind
<1>5. req' \in [Requests -> Request] BY <1>1, <1>3
<1>6. QED BY <1>2, <1>4, <1>5 DEF Ind, TypeOK, FirstSetOnce

LEMMA NextInd == Ind /\ [Next]_vars => Ind'
<1> SUFFICES ASSUME Ind, [Next]_vars PROVE Ind' OBVIOUS
<1>1. CASE Next BY <1>1, CommitStep, OtherSteps DEF Next
<1>2. CASE UNCHANGED vars BY <1>2 DEF vars, Ind, TypeOK, FirstSetOnce
<1>3. QED BY <1>1, <1>2

\* Ind is an invariant: the revision counts the rates, the newest is in effect,
\* and they form one chain if the first was set once.
THEOREM PricingInvariant == Spec => []Ind
<1>1. QED BY InitInd, NextInd, PTL DEF Spec

\* The rate in effect never has a successor, so it can be replaced.
THEOREM RateReplaceable == Spec => []CanBeReplaced
<1>1. ASSUME Ind PROVE CanBeReplaced
  <2>1. settings.current = Len(previous) /\ Len(previous) \in Nat BY <1>1 DEF Ind, TypeOK
  <2>2. \A n \in 1 .. Len(previous) : previous[n] < n /\ previous[n] \in Nat
    BY <1>1 DEF Ind, TypeOK
  <2>3. QED BY <2>1, <2>2 DEF CanBeReplaced, MaySucceed
<1>2. QED BY <1>1, PricingInvariant, PTL

\* A new rate replaces the rate its request has read, as long as no two were
\* set as the first.
THEOREM NothingOverwrittenUnseen == Spec => NoSilentOverwrite
<1>1. ASSUME Ind, NEW r \in Requests, SetCommit(r), FirstSetOnce'
      PROVE  req[r].current = settings.current
  BY <1>1, ReplacesWhatItRead DEF Ind
<1>2. Ind => [\A r \in Requests :
                SetCommit(r) /\ FirstSetOnce' => req[r].current = settings.current]_vars
  BY <1>1
<1>3. QED BY <1>2, PricingInvariant, PTL DEF NoSilentOverwrite

=============================================================================
