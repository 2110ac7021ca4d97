---------------------------- MODULE OutcomeProofs ---------------------------
(***************************************************************************)
(* What becomes of attempts and jobs: further theorems about Generation    *)
(* for every value of its constants.  Three lemmas say which steps touch   *)
(* an attempt row, a job row and what a run carries, and what these steps  *)
(* know; the properties and the refinements of AttemptLifecycle and        *)
(* AttemptSlot follow from them and from the inductive invariant.          *)
(***************************************************************************)
EXTENDS GenerationProofs

\* An attempt is failed, by a statement that knows why it may be.
Fails(a, code) ==
  /\ attempt[a].status # "NONE"
  /\ IsActive(a) \/ Elapsed(a)
  /\ code = "GENERATION_TIMEOUT" => Elapsed(a)
  /\ Fail(a, code)

AttemptFailed == \E a \in Attempts, code \in Errors : Fails(a, code)
Marked == \E r \in Runs : MarkGenerating(r)
Committed == \E r \in Runs : Commit(r)

RowsStay == attempt' = attempt /\ dispatched' = dispatched

\* The steps that change attempt rows or call the provider.
AttemptStep ==
  \/ RowsStay
  \/ Inserts
  \/ Marked
  \/ Committed
  \/ (AttemptFailed \/ FailElapsed) /\ UNCHANGED <<now, dispatched>>

\* Every step is one of them.
LEMMA AttemptChange == ASSUME Ind, [Next]_vars PROVE AttemptStep
<1>1. ASSUME NEW c \in Clients, ClientStep(c) PROVE AttemptStep
  <2>1. CASE SubmitInsert(c)
    BY <2>1 DEF AttemptStep, Inserts
  <2>2. CASE PollWrite(c)
    <3>1. /\ Fail(client[c].att, "GENERATION_TIMEOUT") /\ client[c].pc = "expiring"
          /\ now' = now /\ dispatched' = dispatched
      BY <2>2 DEF PollWrite
    <3>2. client[c].att \in Attempts /\ attempt[client[c].att].status # "NONE" /\ Elapsed(client[c].att)
      BY <3>1 DEF Ind, RequestsAgree, RequestAgrees
    <3>3. Fails(client[c].att, "GENERATION_TIMEOUT")
      BY <3>1, <3>2 DEF Fails
    <3> QED
      BY <3>1, <3>2, <3>3 DEF AttemptStep, AttemptFailed, Errors
  <2>3. CASE \/ SubmitCheck(c) \/ RequestLost(c) \/ DeleteSession(c)
             \/ \E b \in Attempts : PollRead(c, b) \/ DeleteCheck(c, b)
    BY <2>3 DEF SubmitCheck, RequestLost, PollRead, DeleteCheck, DeleteSession, AttemptStep, RowsStay
  <2> QED
    BY <1>1, <2>1, <2>2, <2>3 DEF ClientStep
<1>2. ASSUME NEW r \in Runs, RunStep(r) PROVE AttemptStep
  <2>1. CASE MarkGenerating(r) \/ Commit(r)
    BY <2>1 DEF AttemptStep, Marked, Committed
  <2>2. CASE ExpireBeforeDispatch(r)
    <3>1. /\ Fail(run[r].att, "GENERATION_TIMEOUT") /\ run[r].pc = "expire"
          /\ now' = now /\ dispatched' = dispatched
      BY <2>2 DEF ExpireBeforeDispatch
    <3>2. run[r].att \in Attempts /\ attempt[run[r].att].status # "NONE" /\ Elapsed(run[r].att)
      BY <3>1 DEF Ind, RunsAgree, RunAgrees
    <3>3. Fails(run[r].att, "GENERATION_TIMEOUT")
      BY <3>1, <3>2 DEF Fails
    <3> QED
      BY <3>1, <3>2, <3>3 DEF AttemptStep, AttemptFailed, Errors
  <2>3. CASE CatchFailure(r)
    <3>1. /\ IF IsActive(run[r].att) THEN Fail(run[r].att, run[r].code) ELSE UNCHANGED attempt
          /\ run[r].pc = "catch" /\ now' = now /\ dispatched' = dispatched
      BY <2>3 DEF CatchFailure
    <3>2. CASE ~IsActive(run[r].att)
      BY <3>1, <3>2 DEF AttemptStep, RowsStay
    <3>3. CASE IsActive(run[r].att)
      <4>1. /\ run[r].att \in Attempts /\ attempt[run[r].att].status # "NONE" /\ run[r].code \in Errors
            /\ run[r].code = "GENERATION_TIMEOUT" => Elapsed(run[r].att)
        BY <3>1, <3>3 DEF Ind, TypeOK, RunState, RunsAgree, RunAgrees
      <4>2. Fails(run[r].att, run[r].code)
        BY <3>1, <3>3, <4>1 DEF Fails
      <4> QED
        BY <3>1, <4>1, <4>2 DEF AttemptStep, AttemptFailed
    <3> QED
      BY <3>2, <3>3
  <2>4. CASE ~(MarkGenerating(r) \/ Commit(r) \/ ExpireBeforeDispatch(r) \/ CatchFailure(r))
    BY <1>2, <2>4 DEF RunStep, Claim, LoadInputs, CheckFence, MarkRejected, ProviderReturns, ProviderFails,
       PutResult, CommitRefused, CompleteJob, CompleteRejected, AttemptStep, RowsStay
  <2> QED
    BY <2>1, <2>2, <2>3, <2>4
<1>3. CASE Reconcile \/ RecoverAttempts
  BY <1>3 DEF Reconcile, RecoverAttempts, AttemptStep
<1>4. CASE UNCHANGED vars \/ ~(Reconcile \/ RecoverAttempts)
  BY <1>1, <1>2, <1>4 DEF Next, Heartbeat, DatabaseError, Crash, RecoverLeases, Tick, vars,
     AttemptStep, RowsStay
<1> QED
  BY <1>1, <1>2, <1>3, <1>4

\* What the insertion writes.
LEMMA InsertEffect ==
  ASSUME Ind, Inserts
  PROVE  \E c \in Clients, n \in Attempts :
           /\ attempt[n].status = "NONE" /\ ~HasActive(OwnerOf[c])
           /\ \A a \in Attempts \ {n} : attempt'[a] = attempt[a]
           /\ attempt'[n].status = "PREPARING" /\ attempt'[n].owner = OwnerOf[c]
           /\ attempt'[n].deadline = now + DeadlineTime
           /\ attempt'[n].error = "NONE" /\ ~attempt'[n].result
           /\ \A a \in Attempts \ {n} : job'[a] = job[a]
           /\ job'[n].status = "QUEUED"
           /\ UNCHANGED <<now, stored, run, dispatched>>
<1>1. PICK c \in Clients : SubmitInsert(c)
  BY DEF Inserts
<1>2. PICK n \in Attempts :
        /\ NextId(n)
        /\ attempt' = [attempt EXCEPT ![n] = [NoAttemptRow EXCEPT !.status = "PREPARING",
                                  !.owner = OwnerOf[c], !.deadline = now + DeadlineTime]]
        /\ job' = [job EXCEPT ![n] = [NoJobRow EXCEPT !.status = "QUEUED"]]
  BY <1>1 DEF SubmitInsert
<1>3. /\ \A a \in Attempts \ {n} : attempt'[a] = attempt[a]
      /\ attempt'[n] = [NoAttemptRow EXCEPT !.status = "PREPARING", !.owner = OwnerOf[c],
                                            !.deadline = now + DeadlineTime]
      /\ \A a \in Attempts \ {n} : job'[a] = job[a]
      /\ job'[n] = [NoJobRow EXCEPT !.status = "QUEUED"]
  BY <1>2 DEF Ind, TypeOK
<1>4. attempt[n].status = "NONE" /\ ~HasActive(OwnerOf[c]) /\ UNCHANGED <<now, stored, run, dispatched>>
  BY <1>1, <1>2 DEF SubmitInsert, NextId, SlotFree
<1> QED
  BY <1>3, <1>4 DEF NoAttemptRow, NoJobRow

\* What MarkGenerating writes.
LEMMA MarkEffect ==
  ASSUME Ind, Marked
  PROVE  \E m \in Attempts :
           /\ attempt[m].status = "PREPARING" /\ dispatched[m] = 0
           /\ \A a \in Attempts \ {m} : attempt'[a] = attempt[a]
           /\ attempt'[m].status = "GENERATING" /\ attempt'[m].owner = attempt[m].owner
           /\ attempt'[m].deadline = attempt[m].deadline /\ attempt'[m].error = attempt[m].error
           /\ dispatched' = [dispatched EXCEPT ![m] = 1]
           /\ now' = now
<1>1. PICK r \in Runs : MarkGenerating(r)
  BY DEF Marked
<1> DEFINE m == run[r].att
<1>2. m \in Attempts /\ attempt[m].status = "PREPARING" /\ dispatched[m] = 0
  BY <1>1 DEF MarkGenerating, Ind, RowsAgree, RunsAgree, RunAgrees
<1>3. /\ attempt' = [attempt EXCEPT ![m].status = "GENERATING"]
      /\ dispatched' = [dispatched EXCEPT ![m] = @ + 1] /\ now' = now
  BY <1>1 DEF MarkGenerating
<1>4. dispatched' = [dispatched EXCEPT ![m] = 1]
  BY <1>2, <1>3 DEF Ind, TypeOK
<1>5. attempt[m] \in AttemptRow
  BY <1>2 DEF Ind, TypeOK
<1>6. \A a \in Attempts \ {m} : attempt'[a] = attempt[a]
  BY <1>3 DEF Ind, TypeOK
<1>7. attempt'[m] = [attempt[m] EXCEPT !.status = "GENERATING"]
  BY <1>2, <1>3 DEF Ind, TypeOK
<1>8. /\ attempt'[m].status = "GENERATING" /\ attempt'[m].owner = attempt[m].owner
      /\ attempt'[m].deadline = attempt[m].deadline /\ attempt'[m].error = attempt[m].error
  BY <1>5, <1>7 DEF AttemptRow
<1> HIDE DEF m
<1> QED
  BY <1>2, <1>3, <1>4, <1>6, <1>8

\* What Commit writes, and that the object is stored by then.
LEMMA CommitEffect ==
  ASSUME Ind, Committed
  PROVE  \E m \in Attempts :
           /\ attempt[m].status = "GENERATING" /\ m \in stored
           /\ \A a \in Attempts \ {m} : attempt'[a] = attempt[a]
           /\ attempt'[m].status = "COMPLETED" /\ attempt'[m].result
           /\ attempt'[m].owner = attempt[m].owner
           /\ attempt'[m].deadline = attempt[m].deadline /\ attempt'[m].error = attempt[m].error
           /\ UNCHANGED <<now, stored, dispatched>>
<1>1. PICK r \in Runs : Commit(r)
  BY DEF Committed
<1> DEFINE m == run[r].att
<1>2. m \in Attempts /\ attempt[m].status = "GENERATING" /\ m \in stored
  BY <1>1 DEF Commit, CommitMatches, Ind, RunsAgree, RunAgrees
<1>3. /\ attempt' = [attempt EXCEPT ![m].status = "COMPLETED", ![m].result = TRUE]
      /\ UNCHANGED <<now, stored, dispatched>>
  BY <1>1 DEF Commit
<1>4. attempt[m] \in AttemptRow
  BY <1>2 DEF Ind, TypeOK
<1>5. \A a \in Attempts \ {m} : attempt'[a] = attempt[a]
  BY <1>3 DEF Ind, TypeOK
<1>6. attempt'[m] = [attempt[m] EXCEPT !.status = "COMPLETED", !.result = TRUE]
  BY <1>2, <1>3 DEF Ind, TypeOK
<1>7. /\ attempt'[m].status = "COMPLETED" /\ attempt'[m].result
      /\ attempt'[m].owner = attempt[m].owner
      /\ attempt'[m].deadline = attempt[m].deadline /\ attempt'[m].error = attempt[m].error
  BY <1>4, <1>6 DEF AttemptRow
<1> HIDE DEF m
<1> QED
  BY <1>2, <1>3, <1>5, <1>7

\* What a failing step leaves of the rows.
LEMMA FailureEffect ==
  ASSUME Ind, AttemptFailed \/ FailElapsed, NEW a \in Attempts
  PROVE  /\ attempt'[a].owner = attempt[a].owner /\ attempt'[a].deadline = attempt[a].deadline
         /\ \/ attempt'[a] = attempt[a]
            \/ /\ attempt[a].status # "NONE" /\ attempt'[a].status = "FAILED"
               /\ IsActive(a) \/ Elapsed(a)
               /\ attempt'[a].error = "GENERATION_TIMEOUT" => Elapsed(a)
<1>1. attempt \in [Attempts -> AttemptRow]
  BY DEF Ind, TypeOK
<1>2. CASE AttemptFailed
  <2>1. PICK b \in Attempts, code \in Errors : Fails(b, code)
    BY <1>2 DEF AttemptFailed
  <2>2. /\ attempt[b].status # "NONE" /\ (IsActive(b) \/ Elapsed(b))
        /\ code = "GENERATION_TIMEOUT" => Elapsed(b)
        /\ attempt'[b].status = "FAILED" /\ attempt'[b].error = code
        /\ attempt'[b].owner = attempt[b].owner /\ attempt'[b].deadline = attempt[b].deadline
        /\ \A d \in Attempts \ {b} : attempt'[d] = attempt[d]
    BY <1>1, <2>1, FailEffect DEF Fails
  <2>3. CASE a # b
    BY <2>2, <2>3
  <2>4. CASE a = b
    BY <2>2, <2>4
  <2> QED
    BY <2>3, <2>4
<1>3. CASE FailElapsed
  <2>1. /\ attempt'[a].owner = attempt[a].owner /\ attempt'[a].deadline = attempt[a].deadline
        /\ IF IsActive(a) /\ Elapsed(a)
           THEN attempt'[a].status = "FAILED" /\ attempt'[a].error = "GENERATION_TIMEOUT"
           ELSE attempt'[a] = attempt[a]
    BY <1>1, <1>3, FailElapsedEffect
  <2>2. IsActive(a) => attempt[a].status # "NONE"
    BY DEF IsActive, Active
  <2> QED
    BY <2>1, <2>2
<1> QED
  BY <1>2, <1>3

\* An outcome is final: a failure for good, a success up to the deadline.
THEOREM NeverResurrected == Spec => NoResurrection
<1>1. ASSUME Ind, [Next]_vars, NEW a \in Attempts, attempt[a].status \in Terminal
      PROVE  /\ attempt'[a].status \in Terminal
             /\ attempt[a].status = "FAILED" => attempt'[a].status = "FAILED"
             /\ attempt[a].status = "COMPLETED" /\ ~Elapsed(a) => attempt'[a].status = "COMPLETED"
  <2>1. ~IsActive(a) /\ attempt[a].status # "NONE"
    BY <1>1 DEF IsActive, Active, Terminal
  <2>2. CASE attempt'[a] = attempt[a]
    BY <1>1, <2>2
  <2>3. CASE Inserts \/ Marked \/ Committed
    <3>1. attempt'[a] = attempt[a]
      BY <1>1, <2>1, <2>3, InsertEffect, MarkEffect, CommitEffect DEF IsActive, Active
    <3> QED
      BY <2>2, <3>1
  <2>4. CASE AttemptFailed \/ FailElapsed
    <3>1. attempt'[a] = attempt[a] \/ (attempt'[a].status = "FAILED" /\ Elapsed(a))
      BY <1>1, <2>1, <2>4, FailureEffect
    <3> QED
      BY <1>1, <3>1 DEF Terminal
  <2> QED
    BY <1>1, <2>2, <2>3, <2>4, AttemptChange DEF AttemptStep, RowsStay
<1>2. Ind /\ [Next]_vars => [\A a \in Attempts :
         /\ attempt[a].status \in Terminal => attempt'[a].status \in Terminal
         /\ attempt[a].status = "FAILED" => attempt'[a].status = "FAILED"
         /\ attempt[a].status = "COMPLETED" /\ ~Elapsed(a) => attempt'[a].status = "COMPLETED"]_vars
  BY <1>1 DEF Terminal
<1> QED
  BY <1>2, IndInvariant, PTL DEF Spec, NoResurrection

\* An attempt is completed only by Commit, and its result and object are there.
THEOREM ResultsBehindSuccess == Spec => []CompletedHasResult
<1>1. Init => CompletedHasResult
  BY DEF Init, CompletedHasResult, NoAttemptRow
<1>2. Ind /\ CompletedHasResult /\ [Next]_vars => CompletedHasResult'
  <2> SUFFICES ASSUME Ind, CompletedHasResult, [Next]_vars, NEW a \in Attempts, attempt'[a].status = "COMPLETED"
               PROVE  attempt'[a].result /\ a \in stored'
    BY DEF CompletedHasResult
  <2>1. stored \subseteq stored'
    BY StepLemma, InsertEffect DEF Kept
  <2>2. CASE attempt'[a] = attempt[a]
    BY <2>1, <2>2 DEF CompletedHasResult
  <2>3. CASE Committed
    BY <2>1, <2>2, <2>3, CommitEffect
  <2>4. CASE Inserts \/ Marked
    BY <2>2, <2>4, InsertEffect, MarkEffect
  <2>5. CASE AttemptFailed \/ FailElapsed
    BY <2>2, <2>5, FailureEffect
  <2> QED
    BY <2>2, <2>3, <2>4, <2>5, AttemptChange DEF AttemptStep, RowsStay
<1> QED
  BY <1>1, <1>2, IndInvariant, PTL DEF Spec

\* An attempt is recorded as timed out only by a statement that knows its deadline has passed.
THEOREM TimeoutsAreTrue == Spec => []TimeoutMeansElapsed
<1>1. Init => TimeoutMeansElapsed
  BY DEF Init, TimeoutMeansElapsed, NoAttemptRow
<1>2. Ind /\ TimeoutMeansElapsed /\ [Next]_vars => TimeoutMeansElapsed'
  <2> SUFFICES ASSUME Ind, TimeoutMeansElapsed, [Next]_vars, NEW a \in Attempts,
                      attempt'[a].error = "GENERATION_TIMEOUT"
               PROVE  attempt'[a].deadline <= now'
    BY DEF TimeoutMeansElapsed, Elapsed
  <2>1. now \in Int /\ now' \in Int /\ attempt[a].deadline \in Int /\ now <= now'
    BY StepLemma, InsertEffect, TimeAssumption DEF Kept, Ind, TypeOK, AttemptRow
  <2>2. CASE attempt'[a].deadline = attempt[a].deadline /\ attempt'[a].error = attempt[a].error
    BY <2>1, <2>2 DEF TimeoutMeansElapsed, Elapsed
  <2>3. CASE Inserts
    BY <2>2, <2>3, InsertEffect
  <2>4. CASE Marked \/ Committed
    BY <2>2, <2>4, MarkEffect, CommitEffect
  <2>5. CASE AttemptFailed \/ FailElapsed
    BY <2>1, <2>2, <2>5, FailureEffect DEF Elapsed
  <2> QED
    BY <2>2, <2>3, <2>4, <2>5, AttemptChange DEF AttemptStep, RowsStay
<1> QED
  BY <1>1, <1>2, IndInvariant, PTL DEF Spec

\* A step leaves a job alone, or the job is not settled and is settled as
\* succeeded only with a result.
LEMMA JobChange ==
  ASSUME Ind, [Next]_vars, NEW a \in Attempts
  PROVE  \/ job'[a] = job[a]
         \/ /\ job[a].status \notin {"SUCCEEDED", "FAILED"}
            /\ job'[a].status = "SUCCEEDED" => attempt[a].status # "NONE" /\ attempt[a].result
<1> DEFINE Goal == \/ job'[a] = job[a]
                   \/ /\ job[a].status \notin {"SUCCEEDED", "FAILED"}
                      /\ job'[a].status = "SUCCEEDED" => attempt[a].status # "NONE" /\ attempt[a].result
<1>1. job \in [Attempts -> JobRow] /\ job[a] \in JobRow
  BY DEF Ind, TypeOK
<1>2. ASSUME NEW c \in Clients, ClientStep(c) PROVE Goal
  <2>1. CASE Inserts
    BY <2>1, InsertEffect DEF Ind, RowsAgree
  <2>2. CASE ~Inserts
    BY <1>2, <2>2 DEF ClientStep, Inserts, SubmitCheck, RequestLost, PollRead, PollWrite, DeleteCheck, DeleteSession
  <2> QED
    BY <2>1, <2>2
<1>3. ASSUME NEW r \in Runs, RunStep(r) PROVE Goal
  <2>1. CASE Claim(r)
    BY <1>1, <2>1 DEF Claim, Claimable
  <2>2. CASE CompleteJob(r)
    <3>1. /\ run[r].pc \in Settling /\ job[run[r].att].status = "RUNNING"
          /\ job' = [job EXCEPT ![run[r].att].status = IF run[r].pc = "succeed" THEN "SUCCEEDED" ELSE "FAILED",
                                ![run[r].att].lease = NoTime]
      BY <2>2 DEF CompleteJob, HoldsFence
    <3>2. CASE a # run[r].att
      BY <1>1, <3>1, <3>2
    <3>3. CASE a = run[r].att /\ run[r].pc = "succeed"
      BY <1>1, <3>1, <3>3 DEF Ind, RunsAgree, RunAgrees
    <3>4. CASE a = run[r].att /\ run[r].pc # "succeed"
      BY <1>1, <3>1, <3>4 DEF JobRow
    <3> QED
      BY <3>2, <3>3, <3>4
  <2>3. CASE ~(Claim(r) \/ CompleteJob(r))
    BY <1>3, <2>3 DEF RunStep, LoadInputs, CheckFence, ExpireBeforeDispatch, MarkGenerating, MarkRejected,
       ProviderReturns, ProviderFails, PutResult, Commit, CommitRefused, CatchFailure, CompleteRejected
  <2> QED
    BY <2>1, <2>2, <2>3
<1>4. ASSUME NEW r \in Runs, Heartbeat(r) PROVE Goal
  BY <1>1, <1>4 DEF Heartbeat, HoldsFence, JobRow
<1>5. CASE RecoverLeases
  BY <1>1, <1>5 DEF RecoverLeases, JobRow
<1>6. CASE UNCHANGED vars \/ ~RecoverLeases
  BY <1>2, <1>3, <1>4, <1>6 DEF Next, DatabaseError, Crash, Reconcile, RecoverAttempts, Tick, vars
<1> QED
  BY <1>5, <1>6

\* A settled job is left alone by every step.
THEOREM SettledJobsStay == Spec => SettledJobIsFinal
<1>1. Ind /\ [Next]_vars => [\A a \in Attempts :
           job[a].status \in {"SUCCEEDED", "FAILED"} => job'[a] = job[a]]_vars
  BY JobChange
<1> QED
  BY <1>1, IndInvariant, PTL DEF Spec, SettledJobIsFinal

\* A job is reported as succeeded only by a run that has committed, and a result is never taken back.
THEOREM ResultsBehindJobs == Spec => []SucceededJobHasResult
<1>1. Init => SucceededJobHasResult
  BY DEF Init, SucceededJobHasResult, NoJobRow
<1>2. Ind /\ SucceededJobHasResult /\ [Next]_vars => SucceededJobHasResult'
  <2> SUFFICES ASSUME Ind, SucceededJobHasResult, [Next]_vars, NEW a \in Attempts, job'[a].status = "SUCCEEDED"
               PROVE  attempt'[a].result
    BY DEF SucceededJobHasResult
  <2>1. attempt[a].status # "NONE" /\ attempt[a].result
    BY JobChange DEF SucceededJobHasResult, Ind, RowsAgree
  <2>2. CASE Kept
    BY <2>1, <2>2 DEF Kept
  <2>3. CASE Inserts
    BY <2>1, <2>3, InsertEffect
  <2> QED
    BY <2>2, <2>3, StepLemma
<1> QED
  BY <1>1, <1>2, IndInvariant, PTL DEF Spec

\* Wherever a run continues, it keeps its attempt and token.
Continues(r) == (\E pc \in Steps : GoTo(r, pc)) \/ \E code \in Errors : Throw(r, code)

\* A run stays as it is or empties its slot, or goes on with its attempt and token.
RunGoesOn(s) ==
  \/ run'[s] = run[s]
  \/ run'[s] = IdleRun
  \/ /\ run[s].pc # "idle" /\ run'[s].pc # "idle"
     /\ run'[s].att = run[s].att /\ run'[s].token = run[s].token

LEMMA GoesOn ==
  ASSUME Ind, NEW r \in Runs, NEW s \in Runs, run[r].pc # "idle", Continues(r)
  PROVE  RunGoesOn(s)
<1>1. run \in [Runs -> RunState]
  BY DEF Ind, TypeOK
<1>2. "idle" \notin Steps
  BY DEF Steps, InHandler, Settling
<1>3. ASSUME NEW pc \in Steps, GoTo(r, pc) PROVE RunGoesOn(s)
  BY <1>1, <1>2, <1>3, GoToEffect DEF RunGoesOn
<1>4. ASSUME NEW code \in Errors, Throw(r, code) PROVE RunGoesOn(s)
  BY <1>1, <1>4, ThrowEffect DEF RunGoesOn
<1> QED
  BY <1>3, <1>4 DEF Continues

\* No step but its claim gives a run another attempt or token.
LEMMA RunChange ==
  ASSUME Ind, [Next]_vars, NEW s \in Runs
  PROVE  RunGoesOn(s) \/ Claim(s)
<1>1. run \in [Runs -> RunState] /\ run[s] \in RunState
  BY DEF Ind, TypeOK
<1>2. CASE run' = run
  BY <1>2 DEF RunGoesOn
<1>3. ASSUME NEW p \in Processes, RunsEnd(p) PROVE RunGoesOn(s)
  BY <1>1, <1>3 DEF RunsEnd, RunGoesOn
<1>4. ASSUME NEW r \in Runs, RunStep(r) PROVE RunGoesOn(s) \/ Claim(s)
  <2>1. CASE Claim(r)
    <3>1. r # s => run'[s] = run[s]
      BY <1>1, <2>1 DEF Claim
    <3> QED
      BY <2>1, <3>1 DEF RunGoesOn
  <2>2. CASE CompleteJob(r)
    BY <1>1, <2>2 DEF CompleteJob, RunGoesOn
  <2>3. CASE CompleteRejected(r)
    <3>1. run[r].pc # "idle" /\ (Continues(r) \/ \E p \in Processes : RunsEnd(p))
      BY <2>3 DEF CompleteRejected, Settling, Continues, Steps
    <3> QED
      BY <1>3, <3>1, GoesOn
  <2>4. CASE PutResult(r)
    <3>1. run[r].pc # "idle"
      BY <2>4 DEF PutResult
    <3>2. CASE Continues(r)
      BY <3>1, <3>2, GoesOn
    <3>3. CASE run' = [run EXCEPT ![r].pc = "commit", ![r].early = ~Elapsed(run[r].att)]
      BY <1>1, <3>1, <3>3 DEF RunGoesOn, RunState
    <3> QED
      BY <2>4, <3>2, <3>3 DEF PutResult, Continues, Errors
  <2>5. CASE ~(Claim(r) \/ CompleteJob(r) \/ CompleteRejected(r) \/ PutResult(r))
    <3>1. run[r].pc # "idle" /\ Continues(r)
      BY <1>4, <2>5 DEF RunStep, LoadInputs, CheckFence, ExpireBeforeDispatch, MarkGenerating, MarkRejected,
         ProviderReturns, ProviderFails, Commit, CommitRefused, CatchFailure, Continues, Steps, InHandler,
         Settling, Errors
    <3> QED
      BY <3>1, GoesOn
  <2> QED
    BY <2>1, <2>2, <2>3, <2>4, <2>5
<1>5. ASSUME NEW r \in Runs, DatabaseError(r) PROVE RunGoesOn(s)
  <2>1. run[r].pc # "idle" /\ Continues(r)
    BY <1>5 DEF DatabaseError, Continues, Steps, Settling, Errors
  <2> QED
    BY <2>1, GoesOn
<1>6. ASSUME NEW p \in Processes, Crash(p) PROVE RunGoesOn(s)
  BY <1>3, <1>6 DEF Crash
<1>7. CASE \E c \in Clients : ClientStep(c)
  BY <1>2, <1>7 DEF ClientStep, SubmitCheck, SubmitInsert, RequestLost, PollRead, PollWrite, DeleteCheck, DeleteSession
<1> QED
  BY <1>2, <1>4, <1>5, <1>6, <1>7 DEF Next, Heartbeat, Reconcile, RecoverAttempts, RecoverLeases,
     Tick, vars

\* A claim gives its run a token above every token given out for the job.
LEMMA ClaimedToken ==
  ASSUME Ind, NEW r \in Runs, Claim(r), NEW s \in Runs \ {r}, run[s].pc # "idle", run'[s].att = run'[r].att
  PROVE  run'[s].token < run'[r].token
<1>1. PICK a \in Attempts :
        run' = [run EXCEPT ![r] = [IdleRun EXCEPT !.pc = "load", !.att = a, !.token = job[a].token + 1]]
  BY DEF Claim
<1>2. run'[r].att = a /\ run'[r].token = job[a].token + 1 /\ run'[s] = run[s]
  BY <1>1 DEF Ind, TypeOK, IdleRun
<1>3. run[s].token <= job[a].token /\ run[s].token \in Int /\ job[a].token \in Int
  BY <1>2 DEF Ind, TypeOK, RunState, JobRow, RunsAgree, RunAgrees
<1> QED
  BY <1>2, <1>3

\* An empty slot names no attempt.
IdleNamesNone == \A r \in Runs : run[r].pc = "idle" => run[r].att = NoAttempt

\* However a job is delivered again, two runs of it carry different tokens.
THEOREM TokensAreUnique == Spec => []TokensDiffer
<1>1. Init => TokensDiffer /\ IdleNamesNone
  BY DEF Init, TokensDiffer, IdleNamesNone, IdleRun
<1>2. Ind /\ TokensDiffer /\ IdleNamesNone /\ [Next]_vars => TokensDiffer' /\ IdleNamesNone'
  <2> SUFFICES ASSUME Ind, TokensDiffer, IdleNamesNone, [Next]_vars PROVE TokensDiffer' /\ IdleNamesNone'
    OBVIOUS
  <2>1. ASSUME NEW r \in Runs, Claim(r)
        PROVE  /\ run'[r].pc # "idle" /\ run'[r].att \in Attempts
               /\ \A s \in Runs \ {r} : run'[s] = run[s]
    BY <2>1 DEF Claim, Ind, TypeOK, IdleRun
  <2>2. IdleNamesNone'
    BY <2>1, RunChange DEF IdleNamesNone, RunGoesOn, IdleRun
  <2>3. \A r \in Runs : run'[r].pc # "idle" => run'[r].att # NoAttempt
    BY StepLemma DEF Ind, RunsAgree, RunAgrees, Attempts, NoAttempt
  <2>4. ASSUME NEW r \in Runs, NEW s \in Runs \ {r}, Claim(r), run'[s].att = run'[r].att
        PROVE  run'[r].token # run'[s].token
    <3>1. run[s].pc # "idle" /\ run'[s] = run[s]
      BY <2>1, <2>3, <2>4 DEF IdleNamesNone
    <3>2. run'[s].token < run'[r].token
      BY <2>4, <3>1, ClaimedToken
    <3>3. run'[r].token \in Int /\ run'[s].token \in Int
      BY StepLemma DEF Ind, TypeOK, RunState
    <3> QED
      BY <3>2, <3>3
  <2>5. ASSUME NEW r \in Runs, NEW s \in Runs \ {r}, run'[r].pc # "idle", run'[r].att = run'[s].att
        PROVE  run'[r].token # run'[s].token
    <3>1. CASE Claim(r) \/ Claim(s)
      BY <2>4, <2>5, <3>1
    <3>2. CASE ~Claim(r) /\ ~Claim(s)
      <4>1. run'[s].pc # "idle"
        BY <2>2, <2>3, <2>5 DEF IdleNamesNone
      <4>2. RunGoesOn(r) /\ RunGoesOn(s)
        BY <3>2, RunChange
      <4>3. /\ run[r].pc # "idle" /\ run'[r].att = run[r].att /\ run'[r].token = run[r].token
            /\ run[s].pc # "idle" /\ run'[s].att = run[s].att /\ run'[s].token = run[s].token
        BY <2>5, <4>1, <4>2 DEF RunGoesOn, IdleRun
      <4> QED
        BY <2>5, <4>3 DEF TokensDiffer
    <3> QED
      BY <3>1, <3>2
  <2> QED
    BY <2>2, <2>5 DEF TokensDiffer
<1> QED
  BY <1>1, <1>2, IndInvariant, PTL DEF Spec

----------------------------------------------------------------------------
(* The refinement.  What the lifecycle sees of the rows:                   *)

StatusOf == [a \in Attempts |-> attempt[a].status]
OwnerSeen == [a \in Attempts |-> attempt[a].owner]
ElapsedOnes == {a \in Attempts : attempt[a].status # "NONE" /\ Elapsed(a)}

\* An insertion is an acceptance: the index has admitted it, and its deadline lies ahead.
LEMMA InsertAccepts ==
  ASSUME Ind, Inserts
  PROVE  Lifecycle!Next
<1>1. PICK c \in Clients, n \in Attempts :
        /\ attempt[n].status = "NONE" /\ ~HasActive(OwnerOf[c])
        /\ \A a \in Attempts \ {n} : attempt'[a] = attempt[a]
        /\ attempt'[n].status = "PREPARING" /\ attempt'[n].owner = OwnerOf[c]
        /\ attempt'[n].deadline = now + DeadlineTime
        /\ UNCHANGED <<now, dispatched>>
  BY InsertEffect
<1>2. OwnerOf[c] \in Owners
  BY OwnerAssumption
<1>3. \A b \in Attempts : OwnerSeen[b] = OwnerOf[c] => StatusOf[b] \notin Active
  BY <1>1 DEF HasActive, IsActive, OwnerSeen, StatusOf
<1>4. StatusOf' = [StatusOf EXCEPT ![n] = "PREPARING"] /\ OwnerSeen' = [OwnerSeen EXCEPT ![n] = OwnerOf[c]]
  BY <1>1 DEF StatusOf, OwnerSeen
<1>5. ElapsedOnes' = ElapsedOnes
  <2>1. ~(now + DeadlineTime <= now)
    BY TimeAssumption DEF Ind, TypeOK
  <2> QED
    BY <1>1, <2>1 DEF ElapsedOnes, Elapsed
<1>6. Lifecycle!Accept(n, OwnerOf[c])
  BY <1>1, <1>3, <1>4, <1>5 DEF Lifecycle!Accept, Lifecycle!Active, Active, StatusOf, OwnerSeen, ElapsedOnes
<1> QED
  BY <1>2, <1>6 DEF Lifecycle!Next

\* A step that keeps clock, owners, deadlines and the existence of rows changes at most their status.
LEMMA OnlyStatus ==
  ASSUME now' = now, \A a \in Attempts : /\ attempt'[a].owner = attempt[a].owner
                                         /\ attempt'[a].deadline = attempt[a].deadline
                                         /\ attempt[a].status = "NONE" <=> attempt'[a].status = "NONE"
  PROVE  OwnerSeen' = OwnerSeen /\ ElapsedOnes' = ElapsedOnes
  BY DEF OwnerSeen, ElapsedOnes, Elapsed

\* MarkGenerating is a dispatch, the first one.
LEMMA MarkDispatches ==
  ASSUME Ind, Marked
  PROVE  Lifecycle!Next
<1>1. PICK m \in Attempts :
        /\ attempt[m].status = "PREPARING" /\ dispatched[m] = 0
        /\ \A a \in Attempts \ {m} : attempt'[a] = attempt[a]
        /\ attempt'[m].status = "GENERATING" /\ attempt'[m].owner = attempt[m].owner
        /\ attempt'[m].deadline = attempt[m].deadline
        /\ dispatched' = [dispatched EXCEPT ![m] = 1]
        /\ now' = now
  BY MarkEffect
<1>2. OwnerSeen' = OwnerSeen /\ ElapsedOnes' = ElapsedOnes
  BY <1>1, OnlyStatus
<1>3. StatusOf' = [StatusOf EXCEPT ![m] = "GENERATING"]
  BY <1>1 DEF StatusOf
<1>4. Lifecycle!Dispatch(m)
  BY <1>1, <1>2, <1>3 DEF Lifecycle!Dispatch, StatusOf, OwnerSeen, ElapsedOnes
<1> QED
  BY <1>4 DEF Lifecycle!Next

\* Commit is a success of a dispatched attempt.
LEMMA CommitSucceeds ==
  ASSUME Ind, Committed
  PROVE  Lifecycle!Next
<1>1. PICK m \in Attempts :
        /\ attempt[m].status = "GENERATING"
        /\ \A a \in Attempts \ {m} : attempt'[a] = attempt[a]
        /\ attempt'[m].status = "COMPLETED" /\ attempt'[m].owner = attempt[m].owner
        /\ attempt'[m].deadline = attempt[m].deadline
        /\ UNCHANGED <<now, dispatched>>
  BY CommitEffect
<1>2. OwnerSeen' = OwnerSeen /\ ElapsedOnes' = ElapsedOnes
  BY <1>1, OnlyStatus
<1>3. StatusOf' = [StatusOf EXCEPT ![m] = "COMPLETED"]
  BY <1>1 DEF StatusOf
<1>4. Lifecycle!Succeed(m)
  BY <1>1, <1>2, <1>3 DEF Lifecycle!Succeed, StatusOf, OwnerSeen, ElapsedOnes
<1> QED
  BY <1>4 DEF Lifecycle!Next

\* Failing active attempts gives them up.
LEMMA FailingActive ==
  ASSUME NEW S \in SUBSET Attempts, \A a \in S : IsActive(a),
         StatusOf' = [a \in Attempts |-> IF a \in S THEN "FAILED" ELSE attempt[a].status],
         OwnerSeen' = OwnerSeen, ElapsedOnes' = ElapsedOnes, dispatched' = dispatched
  PROVE  Lifecycle!Next \/ StatusOf' = StatusOf
<1>1. CASE S = {}
  BY <1>1 DEF StatusOf
<1>2. CASE S # {}
  <2>1. Lifecycle!GiveUp(S)
    BY <1>2 DEF Lifecycle!GiveUp, Lifecycle!Active, IsActive, Active, StatusOf, OwnerSeen, ElapsedOnes
  <2> QED
    BY <2>1 DEF Lifecycle!Next
<1> QED
  BY <1>1, <1>2

\* What the lifecycle sees of a failure: nothing, a giving up, or a late one overwriting a success.
LEMMA FailureIsSeen ==
  ASSUME Ind, Ind', AttemptFailed \/ FailElapsed, UNCHANGED <<now, dispatched>>
  PROVE  [Lifecycle!Next]_(Lifecycle!vars)
<1>1. \A a \in Attempts : /\ attempt'[a].owner = attempt[a].owner /\ attempt'[a].deadline = attempt[a].deadline
                          /\ attempt[a].status = "NONE" <=> attempt'[a].status = "NONE"
  BY FailureEffect
<1>2. OwnerSeen' = OwnerSeen /\ ElapsedOnes' = ElapsedOnes
  BY <1>1, OnlyStatus
<1>3. StatusOf' = StatusOf => UNCHANGED Lifecycle!vars
  BY <1>2 DEF Lifecycle!vars, StatusOf, OwnerSeen, ElapsedOnes
<1>4. CASE AttemptFailed
  <2>1. PICK b \in Attempts, code \in Errors : Fails(b, code)
    BY <1>4 DEF AttemptFailed
  <2>2. /\ attempt'[b].status = "FAILED" /\ \A d \in Attempts \ {b} : attempt'[d] = attempt[d]
    BY <2>1, FailEffect DEF Fails, Ind, TypeOK
  <2>3. StatusOf' = [a \in Attempts |-> IF a \in {b} THEN "FAILED" ELSE attempt[a].status]
    BY <2>2 DEF StatusOf
  <2>4. CASE IsActive(b)
    BY <1>2, <1>3, <2>3, <2>4, FailingActive
  <2>5. CASE attempt[b].status = "COMPLETED"
    <3>1. b \in ElapsedOnes
      BY <2>1, <2>5 DEF Fails, IsActive, Active, ElapsedOnes
    <3>2. StatusOf' = [StatusOf EXCEPT ![b] = "FAILED"]
      BY <2>3 DEF StatusOf
    <3>3. Lifecycle!Overwrite(b)
      BY <1>2, <2>5, <3>1, <3>2 DEF Lifecycle!Overwrite, StatusOf, OwnerSeen, ElapsedOnes
    <3> QED
      BY <3>3 DEF Lifecycle!Next
  <2>6. CASE attempt[b].status = "FAILED"
    <3>1. StatusOf' = StatusOf
      BY <2>3, <2>6 DEF StatusOf
    <3> QED
      BY <1>3, <3>1
  <2>7. attempt[b].status # "NONE" /\ attempt[b].status \in {"NONE"} \cup Active \cup Terminal
    BY <2>1 DEF Fails, Ind, TypeOK, AttemptRow
  <2>8. IsActive(b) \/ attempt[b].status = "COMPLETED" \/ attempt[b].status = "FAILED"
    BY <2>7 DEF IsActive, Terminal
  <2> QED
    BY <2>4, <2>5, <2>6, <2>8
<1>5. CASE FailElapsed
  <2> DEFINE S == {a \in Attempts : IsActive(a) /\ Elapsed(a)}
  <2>1. StatusOf' = [a \in Attempts |-> IF a \in S THEN "FAILED" ELSE attempt[a].status]
    BY <1>5, FailElapsedEffect DEF StatusOf, Ind, TypeOK
  <2>2. \A a \in S : IsActive(a)
    OBVIOUS
  <2> HIDE DEF S
  <2>3. S \in SUBSET Attempts
    BY DEF S
  <2> QED
    BY <1>2, <1>3, <2>1, <2>2, <2>3, FailingActive
<1> QED
  BY <1>4, <1>5

\* Every behaviour, seen from the attempt rows, is one of the abstract lifecycle.
THEOREM GenerationImplementsLifecycle == Spec => ImplementsLifecycle
<1>1. Init => Lifecycle!Init
  BY DEF Init, Lifecycle!Init, NoAttemptRow
<1>2. Ind /\ [Next]_vars => [Lifecycle!Next]_(Lifecycle!vars)
  <2> SUFFICES ASSUME Ind, [Next]_vars PROVE [Lifecycle!Next]_(Lifecycle!vars)
    OBVIOUS
  <2>1. CASE RowsStay
    <3>1. now \in Int /\ now' \in Int /\ now <= now' /\ \A a \in Attempts : attempt[a].deadline \in Int
      BY StepLemma, InsertEffect, TimeAssumption DEF Kept, Ind, TypeOK, AttemptRow
    <3>2. PICK S : S = ElapsedOnes'
      OBVIOUS
    <3>3. /\ \A a \in S : StatusOf[a] # "NONE"
          /\ ElapsedOnes' = ElapsedOnes \cup S
          /\ S \in SUBSET Attempts
      BY <2>1, <3>1, <3>2 DEF RowsStay, ElapsedOnes, Elapsed, StatusOf
    <3>4. Lifecycle!Lapse(S)
      BY <2>1, <3>3 DEF RowsStay, Lifecycle!Lapse, StatusOf, ElapsedOnes
    <3> QED
      BY <3>3, <3>4 DEF Lifecycle!Next
  <2>2. CASE (AttemptFailed \/ FailElapsed) /\ UNCHANGED <<now, dispatched>>
    BY <2>2, FailureIsSeen, StepLemma
  <2> QED
    BY <2>1, <2>2, AttemptChange, InsertAccepts, MarkDispatches, CommitSucceeds DEF AttemptStep
<1> QED
  BY <1>1, <1>2, IndInvariant, PTL DEF Spec, ImplementsLifecycle, Lifecycle!Spec

----------------------------------------------------------------------------
(* The lifecycle of all attempts is, to each owner, one slot.              *)

SlotStates(o) ==
  [a \in Attempts |-> IF OwnerSeen[a] # o \/ StatusOf[a] = "NONE" THEN "NONE"
                      ELSE IF StatusOf[a] \in Active THEN "ACTIVE" ELSE "SETTLED"]

LEMMA SlotsAsSeen == \A o : SlotsOf(o) = SlotStates(o) /\ SlotsOf(o)' = SlotStates(o)'
  BY DEF SlotsOf, SlotStates, OwnerSeen, StatusOf, IsActive

\* An acceptance takes the slot of its owner and nobody else's.
LEMMA AcceptTakesSlot ==
  ASSUME NEW o \in Owners, NEW n \in Attempts, NEW p \in Owners, Lifecycle!Accept(n, p)
  PROVE  Slot(o)!Next \/ SlotStates(o)' = SlotStates(o)
<1>1. /\ StatusOf[n] = "NONE" /\ \A b \in Attempts : OwnerSeen[b] = p => StatusOf[b] \notin Active
      /\ StatusOf' = [StatusOf EXCEPT ![n] = "PREPARING"] /\ OwnerSeen' = [OwnerSeen EXCEPT ![n] = p]
  BY DEF Lifecycle!Accept, Lifecycle!Active, Active, StatusOf, OwnerSeen
<1>2. /\ StatusOf'[n] = "PREPARING" /\ OwnerSeen'[n] = p
      /\ \A a \in Attempts \ {n} : StatusOf'[a] = StatusOf[a] /\ OwnerSeen'[a] = OwnerSeen[a]
  BY <1>1 DEF StatusOf, OwnerSeen
<1>3. CASE p = o
  <2>1. SlotStates(o)' = [SlotStates(o) EXCEPT ![n] = "ACTIVE"]
    BY <1>2, <1>3 DEF SlotStates, Active
  <2>2. SlotStates(o)[n] = "NONE" /\ \A b \in Attempts : SlotStates(o)[b] # "ACTIVE"
    BY <1>1, <1>3 DEF SlotStates
  <2> QED
    BY <2>1, <2>2, SlotsAsSeen DEF Slot!Next, Slot!Accept
<1>4. CASE p # o
  BY <1>1, <1>2, <1>4 DEF SlotStates
<1> QED
  BY <1>3, <1>4

\* Giving up or succeeding settles it.
LEMMA EndSettlesSlot ==
  ASSUME NEW o \in Owners, NEW S \in SUBSET Attempts, \A a \in S : StatusOf[a] \in Active,
         OwnerSeen' = OwnerSeen, \A a \in S : StatusOf'[a] \in Terminal,
         \A a \in Attempts \ S : StatusOf'[a] = StatusOf[a]
  PROVE  Slot(o)!Next
<1> DEFINE Mine == {a \in S : OwnerSeen[a] = o}
<1>1. Mine \in SUBSET Attempts /\ \A a \in Mine : SlotStates(o)[a] = "ACTIVE"
  BY DEF SlotStates, Active
<1>2. SlotStates(o)' = [a \in Attempts |-> IF a \in Mine THEN "SETTLED" ELSE SlotStates(o)[a]]
  BY DEF SlotStates, Active, Terminal
<1> HIDE DEF Mine
<1> QED
  BY <1>1, <1>2, SlotsAsSeen DEF Slot!Next, Slot!Settle

\* A step that leaves owners, and which attempts are there, active and settled, leaves the slot.
LEMMA SlotStays ==
  ASSUME NEW o \in Owners, OwnerSeen' = OwnerSeen,
         \A a \in Attempts : /\ StatusOf'[a] = "NONE" <=> StatusOf[a] = "NONE"
                             /\ StatusOf'[a] \in Active <=> StatusOf[a] \in Active
  PROVE  SlotStates(o)' = SlotStates(o)
  BY DEF SlotStates

LEMMA LifecycleKeepsSlot ==
  ASSUME [Lifecycle!Next]_(Lifecycle!vars), NEW o \in Owners
  PROVE  [Slot(o)!Next]_(SlotsOf(o))
<1> SUFFICES Slot(o)!Next \/ SlotStates(o)' = SlotStates(o)
  BY SlotsAsSeen
<1> DEFINE Goal == Slot(o)!Next \/ SlotStates(o)' = SlotStates(o)
<1>1. ASSUME NEW m \in Attempts, Lifecycle!Dispatch(m) PROVE Goal
  <2>1. StatusOf[m] = "PREPARING" /\ StatusOf' = [StatusOf EXCEPT ![m] = "GENERATING"] /\ OwnerSeen' = OwnerSeen
    BY <1>1 DEF Lifecycle!Dispatch, StatusOf, OwnerSeen
  <2>2. StatusOf'[m] = "GENERATING" /\ \A a \in Attempts \ {m} : StatusOf'[a] = StatusOf[a]
    BY <2>1 DEF StatusOf
  <2> QED
    BY <2>1, <2>2, SlotStays DEF Active
<1>2. ASSUME NEW m \in Attempts, Lifecycle!Succeed(m) PROVE Goal
  <2>1. StatusOf[m] = "GENERATING" /\ StatusOf' = [StatusOf EXCEPT ![m] = "COMPLETED"] /\ OwnerSeen' = OwnerSeen
    BY <1>2 DEF Lifecycle!Succeed, StatusOf, OwnerSeen
  <2>2. PICK S : S = {m}
    OBVIOUS
  <2>3. /\ S \in SUBSET Attempts /\ \A a \in S : StatusOf[a] \in Active /\ StatusOf'[a] \in Terminal
        /\ \A a \in Attempts \ S : StatusOf'[a] = StatusOf[a]
    BY <2>1, <2>2 DEF StatusOf, Active, Terminal
  <2> QED
    BY <2>1, <2>3, EndSettlesSlot
<1>3. ASSUME NEW m \in Attempts, Lifecycle!Overwrite(m) PROVE Goal
  <2>1. StatusOf[m] = "COMPLETED" /\ StatusOf' = [StatusOf EXCEPT ![m] = "FAILED"] /\ OwnerSeen' = OwnerSeen
    BY <1>3 DEF Lifecycle!Overwrite, StatusOf, OwnerSeen
  <2>2. StatusOf'[m] = "FAILED" /\ \A a \in Attempts \ {m} : StatusOf'[a] = StatusOf[a]
    BY <2>1 DEF StatusOf
  <2> QED
    BY <2>1, <2>2, SlotStays DEF Active
<1>4. ASSUME NEW S \in SUBSET Attempts, Lifecycle!GiveUp(S) PROVE Goal
  <2>1. /\ \A a \in S : StatusOf[a] \in Active /\ OwnerSeen' = OwnerSeen
        /\ StatusOf' = [a \in Attempts |-> IF a \in S THEN "FAILED" ELSE StatusOf[a]]
    BY <1>4 DEF Lifecycle!GiveUp, Lifecycle!Active, Active, StatusOf, OwnerSeen
  <2>2. /\ \A a \in S : StatusOf'[a] \in Terminal
        /\ \A a \in Attempts \ S : StatusOf'[a] = StatusOf[a]
    BY <2>1 DEF Terminal
  <2>3. OwnerSeen' = OwnerSeen
    BY <1>4 DEF Lifecycle!GiveUp, OwnerSeen
  <2> QED
    BY <2>1, <2>2, <2>3, EndSettlesSlot
<1>5. ASSUME NEW S \in SUBSET Attempts, Lifecycle!Lapse(S) PROVE Goal
  <2>1. StatusOf' = StatusOf /\ OwnerSeen' = OwnerSeen
    BY <1>5 DEF Lifecycle!Lapse, StatusOf, OwnerSeen
  <2> QED
    BY <2>1, SlotStays
<1>6. CASE UNCHANGED Lifecycle!vars
  <2>1. StatusOf' = StatusOf /\ OwnerSeen' = OwnerSeen
    BY <1>6 DEF Lifecycle!vars, StatusOf, OwnerSeen
  <2> QED
    BY <2>1, SlotStays
<1> QED
  BY <1>1, <1>2, <1>3, <1>4, <1>5, <1>6, AcceptTakesSlot DEF Lifecycle!Next

\* Every owner's attempts, whoever else generates, take one slot in turn.
THEOREM EveryOwnerHasASlot ==
  ASSUME NEW o \in Owners
  PROVE  Spec => ImplementsSlot(o)
<1>1. Init => Slot(o)!Init
  BY DEF Init, NoAttemptRow, SlotsOf, Slot!Init
<1>2. [Lifecycle!Next]_(Lifecycle!vars) => [Slot(o)!Next]_(SlotsOf(o))
  BY LifecycleKeepsSlot
<1> QED
  BY <1>1, <1>2, GenerationImplementsLifecycle, PTL DEF Spec, ImplementsLifecycle, Lifecycle!Spec, ImplementsSlot, Slot!Spec
============================================================================
