---------------------------- MODULE Generation -----------------------------
(***************************************************************************)
(* Durable image generation: the API accepts an attempt and enqueues its   *)
(* job, worker runs claim the job under a 60s lease with a fencing token,  *)
(* call the paid provider, store the result and settle the attempt, and    *)
(* status reads fail attempts whose ten-minute deadline has passed.        *)
(*                                                                         *)
(* A row of GenerationAttempt is attempt[a], its BackgroundJob row is      *)
(* job[a] (attemptId is unique), a call of processImages() is run[r] and   *)
(* an HTTP request is client[c].  Each database statement, provider call   *)
(* and storage call is a step of its own; READ COMMITTED lets any other    *)
(* step happen in between.                                                 *)
(***************************************************************************)
EXTENDS Integers, FiniteSets

CONSTANTS
  Clients,       \* browser tabs; each has one request to the API in flight
  Owners,        \* accounts
  OwnerOf,       \* the account a tab is signed in as
  Runs,          \* slots for concurrent processImages() calls
  Processes,     \* the worker processes: a partition of Runs
  MaxAttempts,   \* bound: attempt rows that may be created
  MaxClaims,     \* claims a job may use (3 in the code)
  DeadlineTime,  \* from acceptance to deadlineAt (600s in the code)
  LeaseTime,     \* length of a lease (60s in the code)
  Horizon,       \* bound: the last instant of the clock
  Watchdog,      \* whether a caller of the two repair services is deployed
  NoOwner        \* owner of a row that does not exist

ASSUME OwnerAssumption == OwnerOf \in [Clients -> Owners] /\ NoOwner \notin Owners
ASSUME ProcessAssumption ==
  /\ Processes \subseteq SUBSET Runs
  /\ \A r \in Runs : \E p \in Processes : r \in p
  /\ \A p, q \in Processes : p # q => p \cap q = {}
ASSUME TimeAssumption == DeadlineTime \in Nat \ {0} /\ LeaseTime \in Nat \ {0} /\ Horizon \in Nat
ASSUME BoundAssumption == MaxAttempts \in Nat \ {0} /\ MaxClaims \in Nat \ {0} /\ Watchdog \in BOOLEAN

VARIABLES
  now,         \* the clock every process reads
  attempt,     \* GenerationAttempt rows
  job,         \* BackgroundJob rows, by attempt
  stored,      \* attempts whose result object is in the object store
  deleted,     \* attempts whose VisualizationSession is tombstoned
  client,      \* requests in flight
  run,         \* worker runs in flight
  repair,      \* the instant a recovery pass works with, or NoTime
  dispatched   \* history: calls of the provider adapter for each attempt

vars == <<now, attempt, job, stored, deleted, client, run, repair, dispatched>>

Attempts == 1 .. MaxAttempts
NoAttempt == 0
NoTime == -1

Active == {"PREPARING", "GENERATING"}
Terminal == {"COMPLETED", "FAILED"}
Errors == {"NONE", "GENERATION_TIMEOUT", "GENERATION_FAILED"}

\* The pc of a run names the statement it is about to execute.
InHandler == {"load", "check", "expire", "mark", "generate", "put", "commit", "catch"}
Settling == {"succeed", "fail"}
Dispatching == {"generate", "put", "commit"}

AttemptRow == [status : {"NONE"} \cup Active \cup Terminal, owner : Owners \cup {NoOwner},
               deadline : Nat, error : Errors, result : BOOLEAN]
JobRow == [status : {"NONE", "QUEUED", "RUNNING", "SUCCEEDED", "FAILED"},
           lease : Nat \cup {NoTime}, token : Nat, claims : 0 .. MaxClaims]
Request == [pc : {"idle", "creating", "expiring", "deleting"}, att : Attempts \cup {NoAttempt}]
RunState == [pc : {"idle"} \cup InHandler \cup Settling, att : Attempts \cup {NoAttempt},
             token : Nat, code : Errors, early : BOOLEAN]

NoAttemptRow == [status |-> "NONE", owner |-> NoOwner, deadline |-> 0, error |-> "NONE", result |-> FALSE]
NoJobRow == [status |-> "NONE", lease |-> NoTime, token |-> 0, claims |-> 0]
IdleRequest == [pc |-> "idle", att |-> NoAttempt]
IdleRun == [pc |-> "idle", att |-> NoAttempt, token |-> 0, code |-> "NONE", early |-> FALSE]

TypeOK ==
  /\ now \in 0 .. Horizon
  /\ attempt \in [Attempts -> AttemptRow]
  /\ job \in [Attempts -> JobRow]
  /\ stored \subseteq Attempts
  /\ deleted \subseteq Attempts
  /\ client \in [Clients -> Request]
  /\ run \in [Runs -> RunState]
  /\ repair \in Nat \cup {NoTime}
  /\ dispatched \in [Attempts -> Nat]

Init ==
  /\ now = 0
  /\ attempt = [a \in Attempts |-> NoAttemptRow]
  /\ job = [a \in Attempts |-> NoJobRow]
  /\ stored = {}
  /\ deleted = {}
  /\ client = [c \in Clients |-> IdleRequest]
  /\ run = [r \in Runs |-> IdleRun]
  /\ repair = NoTime
  /\ dispatched = [a \in Attempts |-> 0]

IsActive(a) == attempt[a].status \in Active
Elapsed(a) == attempt[a].deadline <= now
HasActive(o) == \E a \in Attempts : IsActive(a) /\ attempt[a].owner = o

\* Every statement that fails an attempt writes status, error code and finishedAt together.
Fail(a, code) == attempt' = [attempt EXCEPT ![a].status = "FAILED", ![a].error = code]

\* Where a run goes on, and where an exception inside the handler's try block leads.
GoTo(r, pc) == run' = [run EXCEPT ![r].pc = pc, ![r].code = "NONE", ![r].early = FALSE]
Throw(r, code) == run' = [run EXCEPT ![r].pc = "catch", ![r].code = code, ![r].early = FALSE]

----------------------------------------------------------------------------
(* Faulty variants of the definitions below: each drops or misplaces one   *)
(* check.  They are never part of Next; put in place of the original, each *)
(* must make TLC refute the property it is paired with.                    *)

SlotFreeUnindexed(o) == TRUE    \* no partial unique index

PollReadPreparing(c, a) ==      \* a read that overlooks GENERATING
  /\ client[c].pc = "idle"
  /\ attempt[a].owner = OwnerOf[c]
  /\ Elapsed(a) /\ attempt[a].status = "PREPARING"
  /\ client' = [client EXCEPT ![c] = [pc |-> "expiring", att |-> a]]
  /\ UNCHANGED <<now, attempt, job, stored, deleted, run, repair, dispatched>>

DeleteCheckAnytime(c, a) ==     \* no SESSION_ACTIVE check
  /\ client[c].pc = "idle"
  /\ attempt[a].status # "NONE" /\ a \notin deleted
  /\ client' = [client EXCEPT ![c] = [pc |-> "deleting", att |-> a]]
  /\ UNCHANGED <<now, attempt, job, stored, deleted, run, repair, dispatched>>

ClaimSameToken(r) ==            \* the token is not advanced
  /\ run[r].pc = "idle"
  /\ \E a \in Attempts :
       /\ job[a].claims < MaxClaims
       /\ job[a].status = "QUEUED" \/ (job[a].status = "RUNNING" /\ job[a].lease < now)
       /\ job' = [job EXCEPT ![a] = [@ EXCEPT !.status = "RUNNING", !.lease = now + LeaseTime,
                                            !.claims = @ + 1]]
       /\ run' = [run EXCEPT ![r] = [IdleRun EXCEPT !.pc = "load", !.att = a, !.token = job[a].token]]
  /\ UNCHANGED <<now, attempt, stored, deleted, client, repair, dispatched>>

HoldsAnyToken(r) == job[run[r].att].token = run[r].token    \* status not checked

MarkFrom(r, S) ==
  /\ run[r].pc = "mark" /\ attempt[run[r].att].status \in S
  /\ attempt' = [attempt EXCEPT ![run[r].att].status = "GENERATING"]
  /\ dispatched' = [dispatched EXCEPT ![run[r].att] = @ + 1]
  /\ GoTo(r, "generate")
  /\ UNCHANGED <<now, job, stored, deleted, client, repair>>

MarkActive(r) == MarkFrom(r, Active)                  \* dispatch again when GENERATING
MarkTerminal(r) == MarkFrom(r, {"PREPARING", "FAILED"})  \* dispatch a failed attempt

ProviderFailsTimedOut(r) ==     \* any failure of the provider is taken for the deadline
  /\ run[r].pc = "generate"
  /\ Throw(r, "GENERATION_TIMEOUT")
  /\ UNCHANGED <<now, attempt, job, stored, deleted, client, repair, dispatched>>

PutIgnored(r) ==                \* a storage failure goes unnoticed
  /\ run[r].pc = "put"
  /\ \/ stored' = stored \cup {run[r].att}
     \/ stored' = stored
  /\ run' = [run EXCEPT ![r].pc = "commit", ![r].early = ~Elapsed(run[r].att)]
  /\ UNCHANGED <<now, attempt, job, deleted, client, repair, dispatched>>

CatchSwallowed(r) ==            \* the FAILED outcome is not turned into an exception
  /\ run[r].pc = "catch"
  /\ IF IsActive(run[r].att) THEN Fail(run[r].att, run[r].code) ELSE UNCHANGED attempt
  /\ GoTo(r, "succeed")
  /\ UNCHANGED <<now, job, stored, deleted, client, repair, dispatched>>

----------------------------------------------------------------------------
(* The API: submission.  The transaction first looks for an active attempt *)
(* and then inserts; the partial unique index on ownerId decides between   *)
(* transactions that both looked before either inserted.                   *)

SubmitCheck(c) ==
  /\ client[c].pc = "idle"
  /\ ~HasActive(OwnerOf[c])
  /\ client' = [client EXCEPT ![c].pc = "creating"]
  /\ UNCHANGED <<now, attempt, job, stored, deleted, run, repair, dispatched>>

NextId(a) == attempt[a].status = "NONE" /\ \A b \in Attempts : b < a => attempt[b].status # "NONE"

SlotFree(o) == ~HasActive(o)    \* GenerationAttempt_one_active_owner

SubmitInsert(c) ==
  /\ client[c].pc = "creating"
  /\ SlotFree(OwnerOf[c])
  /\ now + DeadlineTime <= Horizon
  /\ \E a \in Attempts :
       /\ NextId(a)
       /\ attempt' = [attempt EXCEPT ![a] = [NoAttemptRow EXCEPT !.status = "PREPARING",
                                  !.owner = OwnerOf[c], !.deadline = now + DeadlineTime]]
       /\ job' = [job EXCEPT ![a] = [NoJobRow EXCEPT !.status = "QUEUED"]]
  /\ client' = [client EXCEPT ![c] = IdleRequest]
  /\ UNCHANGED <<now, stored, deleted, run, repair, dispatched>>

\* The transaction rolls back (index violation, no usable product reference,
\* no room image), or the request or the API process dies before its write.
RequestLost(c) ==
  /\ client[c].pc # "idle"
  /\ client' = [client EXCEPT ![c] = IdleRequest]
  /\ UNCHANGED <<now, attempt, job, stored, deleted, run, repair, dispatched>>

----------------------------------------------------------------------------
(* The API: a status read.  An elapsed active attempt is failed by a       *)
(* second statement that names only the id.                                *)

PollRead(c, a) ==
  /\ client[c].pc = "idle"
  /\ attempt[a].owner = OwnerOf[c]
  /\ Elapsed(a) /\ IsActive(a)
  /\ client' = [client EXCEPT ![c] = [pc |-> "expiring", att |-> a]]
  /\ UNCHANGED <<now, attempt, job, stored, deleted, run, repair, dispatched>>

PollWrite(c) ==
  /\ client[c].pc = "expiring"
  /\ Fail(client[c].att, "GENERATION_TIMEOUT")
  /\ client' = [client EXCEPT ![c] = IdleRequest]
  /\ UNCHANGED <<now, job, stored, deleted, run, repair, dispatched>>

\* A SUPER_ADMIN tombstones the session of an attempt (submission creates one
\* session per attempt): a read that looks at its attempts, then an update by id.
DeleteCheck(c, a) ==
  /\ client[c].pc = "idle"
  /\ attempt[a].status # "NONE"
  /\ a \notin deleted
  /\ ~IsActive(a)
  /\ client' = [client EXCEPT ![c] = [pc |-> "deleting", att |-> a]]
  /\ UNCHANGED <<now, attempt, job, stored, deleted, run, repair, dispatched>>

DeleteSession(c) ==
  /\ client[c].pc = "deleting"
  /\ deleted' = deleted \cup {client[c].att}
  /\ client' = [client EXCEPT ![c] = IdleRequest]
  /\ UNCHANGED <<now, attempt, job, stored, run, repair, dispatched>>

----------------------------------------------------------------------------
(* The worker: JobRunner.runOnce around the generation handler.            *)

\* The condition of heartbeat and complete, and the check before dispatch.
HoldsFence(r) == LET j == job[run[r].att] IN j.status = "RUNNING" /\ j.token = run[r].token

Claimable(a) ==
  /\ job[a].claims < MaxClaims
  /\ \/ job[a].status = "QUEUED"
     \/ job[a].status = "RUNNING" /\ job[a].lease < now

\* The oldest claimable job; the conditional update makes the transaction one step.
Claim(r) ==
  /\ run[r].pc = "idle"
  /\ \E a \in Attempts :
       /\ Claimable(a)
       /\ \A b \in Attempts : b < a => ~Claimable(b)
       /\ job' = [job EXCEPT ![a] = [status |-> "RUNNING", lease |-> now + LeaseTime,
                                     token |-> job[a].token + 1, claims |-> job[a].claims + 1]]
       /\ run' = [run EXCEPT ![r] = [IdleRun EXCEPT !.pc = "load", !.att = a, !.token = job[a].token + 1]]
  /\ UNCHANGED <<now, attempt, stored, deleted, client, repair, dispatched>>

\* persistStoredGeneration reads the room and product images from storage, which may fail.
LoadInputs(r) ==
  /\ run[r].pc = "load"
  /\ \/ GoTo(r, "check")
     \/ GoTo(r, "fail")
  /\ UNCHANGED <<now, attempt, job, stored, deleted, client, repair, dispatched>>

\* One read of job and attempt decides between JOB_FENCE_LOST, the deadline and dispatch.
CheckFence(r) ==
  /\ run[r].pc = "check"
  /\ \/ ~HoldsFence(r) /\ GoTo(r, "fail")
     \/ HoldsFence(r) /\ Elapsed(run[r].att) /\ GoTo(r, "expire")
     \/ HoldsFence(r) /\ ~Elapsed(run[r].att) /\ GoTo(r, "mark")
  /\ UNCHANGED <<now, attempt, job, stored, deleted, client, repair, dispatched>>

ExpireBeforeDispatch(r) ==
  /\ run[r].pc = "expire"
  /\ Fail(run[r].att, "GENERATION_TIMEOUT")
  /\ GoTo(r, "fail")
  /\ UNCHANGED <<now, job, stored, deleted, client, repair, dispatched>>

\* The row moves to GENERATING only from PREPARING; the provider is called next.
MarkGenerating(r) ==
  LET a == run[r].att IN
  /\ run[r].pc = "mark"
  /\ attempt[a].status = "PREPARING"
  /\ attempt' = [attempt EXCEPT ![a].status = "GENERATING"]
  /\ dispatched' = [dispatched EXCEPT ![a] = @ + 1]
  /\ GoTo(r, "generate")
  /\ UNCHANGED <<now, job, stored, deleted, client, repair>>

\* No row matches and the update throws, outside the handler's try block.
MarkRejected(r) ==
  /\ run[r].pc = "mark"
  /\ attempt[run[r].att].status # "PREPARING"
  /\ GoTo(r, "fail")
  /\ UNCHANGED <<now, attempt, job, stored, deleted, client, repair, dispatched>>

\* The timer of the handler; it need not fire in time, nor the statement arrive.
Heartbeat(r) ==
  /\ run[r].pc \in Dispatching \cup {"catch"}
  /\ HoldsFence(r)
  /\ job' = [job EXCEPT ![run[r].att].lease = now + LeaseTime]
  /\ UNCHANGED <<now, attempt, stored, deleted, client, run, repair, dispatched>>

\* The answer to a call that began in time; the adapter does not look again.
ProviderReturns(r) ==
  /\ run[r].pc = "generate"
  /\ GoTo(r, "put")
  /\ UNCHANGED <<now, attempt, job, stored, deleted, client, repair, dispatched>>

\* An error of the provider, a result above 25 MiB, or the adapter's own look at
\* the clock: begun at the deadline, the call throws before it is made.
ProviderFails(r) ==
  /\ run[r].pc = "generate"
  /\ \/ Throw(r, "GENERATION_FAILED")
     \/ Elapsed(run[r].att) /\ Throw(r, "GENERATION_TIMEOUT")
  /\ UNCHANGED <<now, attempt, job, stored, deleted, client, repair, dispatched>>

\* Once the object is stored the clock is read for the commit's condition; the
\* statement itself reaches the database later.
PutResult(r) ==
  /\ run[r].pc = "put"
  /\ \/ /\ stored' = stored \cup {run[r].att}
        /\ run' = [run EXCEPT ![r].pc = "commit", ![r].early = ~Elapsed(run[r].att)]
     \/ /\ stored' = stored
        /\ Throw(r, "GENERATION_FAILED")
  /\ UNCHANGED <<now, attempt, job, deleted, client, repair, dispatched>>

CommitMatches(r) == attempt[run[r].att].status = "GENERATING" /\ run[r].early

\* Conditional on the attempt only: the statement does not look at the job.
Commit(r) ==
  LET a == run[r].att IN
  /\ run[r].pc = "commit"
  /\ CommitMatches(r)
  /\ attempt' = [attempt EXCEPT ![a].status = "COMPLETED", ![a].result = TRUE]
  /\ GoTo(r, "succeed")
  /\ UNCHANGED <<now, job, stored, deleted, client, repair, dispatched>>

CommitRefused(r) ==
  /\ run[r].pc = "commit"
  /\ ~CommitMatches(r)
  /\ Throw(r, "GENERATION_TIMEOUT")
  /\ UNCHANGED <<now, attempt, job, stored, deleted, client, repair, dispatched>>

CatchFailure(r) ==
  /\ run[r].pc = "catch"
  /\ IF IsActive(run[r].att) THEN Fail(run[r].att, run[r].code) ELSE UNCHANGED attempt
  /\ GoTo(r, "fail")
  /\ UNCHANGED <<now, job, stored, deleted, client, repair, dispatched>>

\* PrismaJobPort.complete while the token is still current.
CompleteJob(r) ==
  /\ run[r].pc \in Settling
  /\ HoldsFence(r)
  /\ job' = [job EXCEPT ![run[r].att].status = IF run[r].pc = "succeed" THEN "SUCCEEDED" ELSE "FAILED",
                        ![run[r].att].lease = NoTime]
  /\ run' = [run EXCEPT ![r] = IdleRun]
  /\ UNCHANGED <<now, attempt, stored, deleted, client, repair, dispatched>>

----------------------------------------------------------------------------
(* Partial failures.                                                       *)

RunsEnd(p) == run' = [r \in Runs |-> IF r \in p THEN IdleRun ELSE run[r]]

\* complete() throws JOB_FENCE_LOST: runOnce first tries to complete as FAILED,
\* then the rejection is unhandled and takes the whole worker process down.
CompleteRejected(r) ==
  /\ run[r].pc \in Settling
  /\ ~HoldsFence(r)
  /\ IF run[r].pc = "succeed" THEN GoTo(r, "fail")
     ELSE \E p \in Processes : r \in p /\ RunsEnd(p)
  /\ UNCHANGED <<now, attempt, job, stored, deleted, client, repair, dispatched>>

\* A database statement of the run throws without taking effect.
DatabaseError(r) ==
  /\ \/ run[r].pc \in {"check", "expire", "mark", "catch", "succeed"} /\ GoTo(r, "fail")
     \/ run[r].pc = "commit" /\ Throw(r, "GENERATION_FAILED")
  /\ UNCHANGED <<now, attempt, job, stored, deleted, client, repair, dispatched>>

\* A worker process stops, at any statement: SIGTERM, an unhandled rejection, a kill.
Crash(p) ==
  /\ \E r \in p : run[r].pc # "idle"
  /\ RunsEnd(p)
  /\ UNCHANGED <<now, attempt, job, stored, deleted, client, repair, dispatched>>

----------------------------------------------------------------------------
(* The repair services.  Neither the API nor the worker calls them.        *)

FailElapsed ==
  attempt' = [a \in Attempts |-> IF IsActive(a) /\ Elapsed(a)
                THEN [attempt[a] EXCEPT !.status = "FAILED", !.error = "GENERATION_TIMEOUT"]
                ELSE attempt[a]]

\* PersistentDeadlineService.reconcile
Reconcile ==
  /\ Watchdog
  /\ \E a \in Attempts : IsActive(a) /\ Elapsed(a)
  /\ FailElapsed
  /\ UNCHANGED <<now, job, stored, deleted, client, run, repair, dispatched>>

\* GenerationRecoveryService.recover: two updates that share one reading of the clock.
RecoverAttempts ==
  /\ Watchdog
  /\ repair = NoTime
  /\ FailElapsed
  /\ repair' = now
  /\ UNCHANGED <<now, job, stored, deleted, client, run, dispatched>>

RecoverLeases ==
  /\ repair # NoTime
  /\ job' = [a \in Attempts |-> IF job[a].status = "RUNNING" /\ job[a].lease <= repair
                THEN [job[a] EXCEPT !.status = "FAILED", !.lease = NoTime] ELSE job[a]]
  /\ repair' = NoTime
  /\ UNCHANGED <<now, attempt, stored, deleted, client, run, dispatched>>

----------------------------------------------------------------------------

Tick ==
  /\ now < Horizon
  /\ now' = now + 1
  /\ UNCHANGED <<attempt, job, stored, deleted, client, run, repair, dispatched>>

ClientStep(c) ==
  \/ SubmitCheck(c) \/ SubmitInsert(c) \/ RequestLost(c) \/ PollWrite(c)
  \/ DeleteSession(c)
  \/ \E a \in Attempts : PollRead(c, a) \/ DeleteCheck(c, a)

\* The statements of a run in the order of the code, apart from the ones that go wrong.
RunStep(r) ==
  \/ Claim(r) \/ LoadInputs(r) \/ CheckFence(r) \/ ExpireBeforeDispatch(r)
  \/ MarkGenerating(r) \/ MarkRejected(r) \/ ProviderReturns(r) \/ ProviderFails(r)
  \/ PutResult(r) \/ Commit(r) \/ CommitRefused(r) \/ CatchFailure(r)
  \/ CompleteJob(r) \/ CompleteRejected(r)

Next ==
  \/ \E c \in Clients : ClientStep(c)
  \/ \E r \in Runs : RunStep(r) \/ Heartbeat(r) \/ DatabaseError(r)
  \/ \E p \in Processes : Crash(p)
  \/ Reconcile \/ RecoverAttempts \/ RecoverLeases
  \/ Tick

Spec == Init /\ [][Next]_vars
----------------------------------------------------------------------------
(* Safety.                                                                 *)

\* An owner never has two active attempts, however its tabs' submissions
\* interleave: the look before the insert does not see the other transaction.
OneActivePerOwner ==
  \A a, b \in Attempts :
    IsActive(a) /\ IsActive(b) /\ attempt[a].owner = attempt[b].owner => a = b

\* The paid provider is called at most once for an attempt, although its job
\* is delivered up to MaxClaims times and runs overlap when a lease runs out.
AtMostOneDispatch == \A a \in Attempts : dispatched[a] <= 1

\* A completed attempt has a result key and the object behind it exists.
CompletedHasResult ==
  \A a \in Attempts : attempt[a].status = "COMPLETED" => attempt[a].result /\ a \in stored

\* A job reported as SUCCEEDED did commit a result for its attempt.
SucceededJobHasResult == \A a \in Attempts : job[a].status = "SUCCEEDED" => attempt[a].result

\* Two runs of the same job never carry the same fencing token, so at most one
\* of them can complete it or renew its lease.
TokensDiffer ==
  \A r, s \in Runs :
    r # s /\ run[r].pc # "idle" /\ run[r].att = run[s].att => run[r].token # run[s].token

\* An attempt is recorded as timed out only once its deadline has passed, also
\* when the adapter's refusal to call or a refused commit leads to the failure.
TimeoutMeansElapsed ==
  \A a \in Attempts : attempt[a].error = "GENERATION_TIMEOUT" => Elapsed(a)

\* No work goes on for an attempt whose session was deleted, whatever its runs,
\* reads and repairs did between the look at the attempt and the tombstone.
DeletedIsQuiet == \A a \in deleted : attempt[a].status \in Terminal

\* A terminal attempt never becomes active again, late output never turns a
\* failure into a success, and up to the deadline no late statement turns a
\* success into a failure.
NoResurrection ==
  [][\A a \in Attempts :
       /\ attempt[a].status \in Terminal => attempt'[a].status \in Terminal
       /\ attempt[a].status = "FAILED" => attempt'[a].status = "FAILED"
       /\ attempt[a].status = "COMPLETED" /\ ~Elapsed(a) => attempt'[a].status = "COMPLETED"]_vars

\* A settled job stays as it is, whoever still holds a token for it.
SettledJobIsFinal ==
  [][\A a \in Attempts : job[a].status \in {"SUCCEEDED", "FAILED"} => job'[a] = job[a]]_vars

(* What the documents promise and the code does not keep.                  *)

\* "Terminal outcomes MUST remain stable" (specs/001-industrial-dashboard/spec.md:460).
TerminalIsStable ==
  [][\A a \in Attempts : attempt[a].status \in Terminal => attempt'[a].status = attempt[a].status]_vars

----------------------------------------------------------------------------
(* Liveness.  Time passes.                                                 *)

\* Every active attempt reaches a terminal status.
ActiveSettles == \A a \in Attempts : IsActive(a) ~> ~IsActive(a)

\* The owner's tab keeps asking for the attempt (attempt-progress polls every
\* two seconds) and infinitely many of its requests reach their write.
PollFairness ==
  /\ \A c \in Clients, a \in Attempts : SF_vars(PollRead(c, a))
  /\ \A c \in Clients : SF_vars(PollWrite(c))

SpecPolled == Spec /\ WF_vars(Tick) /\ PollFairness

\* The same system without status reads.
NextUnpolled ==
  Next /\ \A c \in Clients : client'[c].pc # "expiring"

SpecUnpolled == Init /\ [][NextUnpolled]_vars

\* What is deployed when no tab is open: workers that keep taking steps.
SpecUnwatched == SpecUnpolled /\ WF_vars(Tick) /\ \A r \in Runs : WF_vars(RunStep(r))
----------------------------------------------------------------------------
(* The inductive invariant: how requests and runs relate to the rows.      *)

\* A job row exists exactly with its attempt row, and the provider has not
\* been called before the row says GENERATING.
RowsAgree ==
  \A a \in Attempts :
    /\ attempt[a].status = "NONE" <=> job[a].status = "NONE"
    /\ attempt[a].status = "NONE" => attempt[a].owner = NoOwner /\ a \notin deleted
    /\ attempt[a].status \in {"NONE", "PREPARING"} => dispatched[a] = 0

\* A request about to fail an attempt has seen its deadline pass, one about to
\* delete a session has seen its attempt end.
RequestAgrees(c) ==
  LET a == client[c].att IN
  client[c].pc \in {"expiring", "deleting"} =>
    /\ a \in Attempts
    /\ attempt[a].status # "NONE"
    /\ IF client[c].pc = "expiring" THEN Elapsed(a) ELSE ~IsActive(a)

RequestsAgree == \A c \in Clients : RequestAgrees(c)

\* What a run knows of its attempt when it is about to execute each statement.
RunAgrees(r) ==
  LET a == run[r].att
      pc == run[r].pc IN
  pc # "idle" =>
    /\ a \in Attempts
    /\ attempt[a].status # "NONE"
    /\ run[r].token <= job[a].token
    /\ pc = "expire" => Elapsed(a)
    /\ pc \in Dispatching \cup {"catch", "succeed"} => attempt[a].status # "PREPARING"
    /\ pc = "commit" => a \in stored /\ (run[r].early \/ Elapsed(a))
    /\ pc = "catch" /\ run[r].code = "GENERATION_TIMEOUT" => Elapsed(a) \/ ~IsActive(a)
    /\ pc = "succeed" => attempt[a].result

RunsAgree == \A r \in Runs : RunAgrees(r)

Ind == TypeOK /\ RowsAgree /\ RequestsAgree /\ RunsAgree

----------------------------------------------------------------------------
(* Generation implements the promise of AttemptLifecycle.                  *)

Lifecycle == INSTANCE AttemptLifecycle WITH
  status <- [a \in Attempts |-> attempt[a].status],
  owner <- [a \in Attempts |-> attempt[a].owner],
  elapsed <- {a \in Attempts : attempt[a].status # "NONE" /\ Elapsed(a)},
  called <- dispatched

\* Every behaviour of requests, workers, crashes and repairs is, seen from the
\* attempt rows, a behaviour of the lifecycle: outcomes are final up to the deadline.
ImplementsLifecycle == Lifecycle!Spec

\* The attempts of owner o as AttemptSlot has them.
SlotsOf(o) ==
  [a \in Attempts |-> IF attempt[a].owner # o \/ attempt[a].status = "NONE" THEN "NONE"
                      ELSE IF IsActive(a) THEN "ACTIVE" ELSE "SETTLED"]

Slot(o) == INSTANCE AttemptSlot WITH slot <- SlotsOf(o)

\* To owner o generation is the one slot that Submission takes it for.
ImplementsSlot(o) == Slot(o)!Spec
============================================================================
