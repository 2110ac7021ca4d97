------------------------- MODULE GenerationProofs --------------------------
(***************************************************************************)
(* Theorems about Generation for every value of its constants.             *)
(*                                                                         *)
(* Ind (module Generation) is inductive: one lemma per action shows that   *)
(* it keeps Ind and, except for an insertion, that it keeps the rows in    *)
(* the sense of Kept.  The safety theorems then look only at the few       *)
(* actions that touch what they speak of.                                  *)
(***************************************************************************)
EXTENDS Generation, TLAPS

\* Everything a run can be doing.
Steps == InHandler \cup Settling

\* Continuing at another statement keeps the run's attempt and token.
LEMMA GoToEffect ==
  ASSUME run \in [Runs -> RunState], NEW r \in Runs, NEW pc \in {"idle"} \cup Steps, GoTo(r, pc)
  PROVE  /\ run' \in [Runs -> RunState]
         /\ \A s \in Runs \ {r} : run'[s] = run[s]
         /\ run'[r].pc = pc /\ run'[r].att = run[r].att /\ run'[r].token = run[r].token
         /\ run'[r].code = "NONE" /\ run'[r].early = FALSE
<1>1. run[r] \in RunState
  OBVIOUS
<1>2. run' = [run EXCEPT ![r] = [run[r] EXCEPT !.pc = pc, !.code = "NONE", !.early = FALSE]]
  BY DEF GoTo
<1>3. [run[r] EXCEPT !.pc = pc, !.code = "NONE", !.early = FALSE] \in RunState
  BY <1>1 DEF RunState, Errors, Steps
<1> QED
  BY <1>1, <1>2, <1>3 DEF RunState

\* An exception keeps the run's attempt and token and records its code.
LEMMA ThrowEffect ==
  ASSUME run \in [Runs -> RunState], NEW r \in Runs, NEW code \in Errors, Throw(r, code)
  PROVE  /\ run' \in [Runs -> RunState]
         /\ \A s \in Runs \ {r} : run'[s] = run[s]
         /\ run'[r].pc = "catch" /\ run'[r].att = run[r].att /\ run'[r].token = run[r].token
         /\ run'[r].code = code /\ run'[r].early = FALSE
<1>1. run[r] \in RunState
  OBVIOUS
<1>2. run' = [run EXCEPT ![r] = [run[r] EXCEPT !.pc = "catch", !.code = code, !.early = FALSE]]
  BY DEF Throw
<1>3. [run[r] EXCEPT !.pc = "catch", !.code = code, !.early = FALSE] \in RunState
  BY <1>1 DEF RunState, InHandler
<1> QED
  BY <1>1, <1>2, <1>3 DEF RunState

\* Failing an attempt changes its status and error only.
LEMMA FailEffect ==
  ASSUME attempt \in [Attempts -> AttemptRow], NEW a \in Attempts, NEW code \in Errors, Fail(a, code)
  PROVE  /\ attempt' \in [Attempts -> AttemptRow]
         /\ \A b \in Attempts \ {a} : attempt'[b] = attempt[b]
         /\ attempt'[a] = [attempt[a] EXCEPT !.status = "FAILED", !.error = code]
         /\ attempt'[a].status = "FAILED" /\ attempt'[a].error = code
         /\ attempt'[a].owner = attempt[a].owner /\ attempt'[a].deadline = attempt[a].deadline
         /\ attempt'[a].result = attempt[a].result
<1>1. attempt[a] \in AttemptRow
  OBVIOUS
<1>2. attempt' = [attempt EXCEPT ![a] = [attempt[a] EXCEPT !.status = "FAILED", !.error = code]]
  BY DEF Fail
<1>3. [attempt[a] EXCEPT !.status = "FAILED", !.error = code] \in AttemptRow
  BY <1>1 DEF AttemptRow, Terminal
<1> QED
  BY <1>1, <1>2, <1>3 DEF AttemptRow

\* The bulk update fails the elapsed active attempts and leaves the others alone.
LEMMA FailElapsedEffect ==
  ASSUME attempt \in [Attempts -> AttemptRow], FailElapsed
  PROVE  /\ attempt' \in [Attempts -> AttemptRow]
         /\ \A a \in Attempts :
              /\ attempt'[a].owner = attempt[a].owner /\ attempt'[a].deadline = attempt[a].deadline
              /\ attempt'[a].result = attempt[a].result
              /\ IF IsActive(a) /\ Elapsed(a) THEN attempt'[a].status = "FAILED" /\ attempt'[a].error = "GENERATION_TIMEOUT"
                                 ELSE attempt'[a] = attempt[a]
<1> SUFFICES ASSUME NEW a \in Attempts
             PROVE  /\ attempt'[a] \in AttemptRow
                    /\ attempt'[a].owner = attempt[a].owner /\ attempt'[a].deadline = attempt[a].deadline
                    /\ attempt'[a].result = attempt[a].result
                    /\ IF IsActive(a) /\ Elapsed(a) THEN attempt'[a].status = "FAILED" /\ attempt'[a].error = "GENERATION_TIMEOUT"
                                 ELSE attempt'[a] = attempt[a]
  BY DEF FailElapsed
<1>1. attempt[a] \in AttemptRow
  OBVIOUS
<1>2. attempt'[a] = IF IsActive(a) /\ Elapsed(a)
                    THEN [attempt[a] EXCEPT !.status = "FAILED", !.error = "GENERATION_TIMEOUT"]
                    ELSE attempt[a]
  BY DEF FailElapsed
<1> QED
  BY <1>1, <1>2 DEF AttemptRow, Terminal, Errors

\* What a step preserves of the rows, the clock and the object store.
Kept ==
  /\ now <= now'
  /\ stored \subseteq stored'
  /\ \A a \in Attempts :
       /\ job[a].token <= job'[a].token
       /\ attempt[a].status = "NONE" => attempt'[a].status = "NONE"
       /\ attempt[a].status # "NONE" =>
            /\ attempt'[a].status # "NONE"
            /\ attempt'[a].owner = attempt[a].owner
            /\ attempt'[a].deadline = attempt[a].deadline
            /\ attempt[a].result => attempt'[a].result
            /\ attempt[a].status # "PREPARING" => attempt'[a].status # "PREPARING"
            /\ attempt[a].status \notin Active => attempt'[a].status \notin Active

\* What a run knows stays true under the steps of others that keep the rows.
LEMMA RunKept ==
  ASSUME TypeOK, TypeOK', Kept, NEW r \in Runs, RunAgrees(r), run'[r] = run[r]
  PROVE  RunAgrees(r)'
<1>1. CASE run[r].pc = "idle"
  BY <1>1 DEF RunAgrees
<1>2. CASE run[r].pc # "idle"
  <2> DEFINE a == run[r].att
  <2>1. a \in Attempts
    BY <1>2 DEF RunAgrees
  <2>2. now \in Int /\ now' \in Int /\ attempt[a].deadline \in Int /\ attempt'[a].deadline \in Int
        /\ job[a].token \in Int /\ job'[a].token \in Int /\ run[r].token \in Int
    BY <2>1, TimeAssumption DEF TypeOK, AttemptRow, JobRow, RunState
  <2> QED
    BY <1>2, <2>1, <2>2 DEF RunAgrees, Kept, Elapsed, IsActive
<1> QED
  BY <1>1, <1>2

\* What a request knows stays true under the steps of others that keep the rows.
LEMMA RequestKept ==
  ASSUME TypeOK, TypeOK', Kept, NEW c \in Clients, RequestAgrees(c), client'[c] = client[c]
  PROVE  RequestAgrees(c)'
<1>1. CASE client[c].pc \notin {"expiring", "deleting"}
  BY <1>1 DEF RequestAgrees
<1>2. CASE client[c].pc \in {"expiring", "deleting"}
  <2> DEFINE a == client[c].att
  <2>1. /\ a \in Attempts /\ attempt[a].status # "NONE"
        /\ IF client[c].pc = "expiring" THEN Elapsed(a) ELSE ~IsActive(a)
    BY <1>2 DEF RequestAgrees
  <2>2. now \in Int /\ now' \in Int /\ attempt[a].deadline \in Int /\ attempt'[a].deadline \in Int
    BY <2>1, TimeAssumption DEF TypeOK, AttemptRow
  <2>3. Elapsed(a) => Elapsed(a)'
    BY <2>1, <2>2 DEF Kept, Elapsed
  <2>4. ~IsActive(a) => ~IsActive(a)'
    BY <2>1 DEF Kept, IsActive
  <2> QED
    BY <1>2, <2>1, <2>3, <2>4 DEF RequestAgrees, Kept, Elapsed, IsActive
<1> QED
  BY <1>1, <1>2

\* What remains to be shown of an action once the rows are known to be kept:
\* the rows agree, and so does every request and run that it changes.
LEMMA IndFromKept ==
  ASSUME Ind, TypeOK', Kept, RowsAgree',
         \A c \in Clients : client'[c] = client[c] \/ RequestAgrees(c)',
         \A r \in Runs : run'[r] = run[r] \/ RunAgrees(r)'
  PROVE  Ind'
<1>1. RequestsAgree'
  BY RequestKept DEF RequestsAgree, Ind
<1>2. RunsAgree'
  BY RunKept DEF RunsAgree, Ind
<1> QED
  BY <1>1, <1>2 DEF Ind

\* Nothing but requests and runs changes.
RowsSame == UNCHANGED <<now, attempt, job, stored, deleted, repair, dispatched>>

\* Steps of requests and runs alone keep the rows.
LEMMA SameKept ==
  ASSUME Ind, RowsSame, client' \in [Clients -> Request], run' \in [Runs -> RunState]
  PROVE  TypeOK' /\ Kept /\ RowsAgree'
<1>1. TypeOK'
  BY DEF Ind, TypeOK, RowsSame
<1>2. \A a \in Attempts : job[a].token \in Int
  BY DEF Ind, TypeOK, JobRow
<1>3. now \in Int
  BY TimeAssumption DEF Ind, TypeOK
<1>4. Kept
  BY <1>2, <1>3 DEF RowsSame, Kept
<1>5. RowsAgree'
  BY DEF RowsSame, RowsAgree, Ind
<1> QED
  BY <1>1, <1>4, <1>5

\* A step that fails one attempt and touches no other row.
LEMMA FailKept ==
  ASSUME Ind, NEW a \in Attempts, attempt[a].status # "NONE", NEW code \in Errors, Fail(a, code),
         UNCHANGED <<now, job, stored, deleted, repair, dispatched>>,
         client' \in [Clients -> Request], run' \in [Runs -> RunState]
  PROVE  TypeOK' /\ Kept /\ RowsAgree'
<1>1. /\ attempt' \in [Attempts -> AttemptRow]
      /\ \A b \in Attempts \ {a} : attempt'[b] = attempt[b]
      /\ attempt'[a].status = "FAILED" /\ attempt'[a].owner = attempt[a].owner
      /\ attempt'[a].deadline = attempt[a].deadline /\ attempt'[a].result = attempt[a].result
  BY FailEffect DEF Ind, TypeOK
<1>2. TypeOK'
  BY <1>1 DEF Ind, TypeOK
<1>3. now \in Int /\ \A b \in Attempts : job[b].token \in Int
  BY TimeAssumption DEF Ind, TypeOK, JobRow
<1>4. Kept
  BY <1>1, <1>3 DEF Kept, Active
<1>5. RowsAgree'
  BY <1>1 DEF Ind, RowsAgree
<1> QED
  BY <1>2, <1>4, <1>5

\* A step that changes jobs and runs but no attempt: tokens never go back and no job row comes or goes.
LEMMA JobKept ==
  ASSUME Ind, UNCHANGED <<now, attempt, stored, deleted, client, dispatched>>,
         job' \in [Attempts -> JobRow], run' \in [Runs -> RunState], repair' \in Nat \cup {NoTime},
         \A a \in Attempts : /\ job[a].token <= job'[a].token
                             /\ job[a].status = "NONE" <=> job'[a].status = "NONE"
  PROVE  TypeOK' /\ Kept /\ RowsAgree'
<1>1. TypeOK'
  BY DEF Ind, TypeOK
<1>2. now \in Int
  BY TimeAssumption DEF Ind, TypeOK
<1>3. Kept
  BY <1>2 DEF Kept
<1>4. RowsAgree'
  BY DEF Ind, RowsAgree
<1> QED
  BY <1>1, <1>3, <1>4

\* A slot without a run has the type of a run.
LEMMA IdleRunTyped == IdleRun \in RunState
  BY DEF IdleRun, RunState, Errors

\* SubmitCheck keeps the inductive invariant and the rows.
LEMMA SubmitCheckStep ==
  ASSUME Ind, NEW c \in Clients, SubmitCheck(c)
  PROVE  Ind' /\ Kept
<1>1. client' \in [Clients -> Request]
  BY DEF Ind, TypeOK, Request, SubmitCheck
<1>2. RowsSame /\ run' = run /\ \A d \in Clients \ {c} : client'[d] = client[d]
  BY DEF Ind, TypeOK, RowsSame, SubmitCheck
<1>3. RequestAgrees(c)'
  BY DEF Ind, TypeOK, Request, RequestAgrees, SubmitCheck
<1>4. TypeOK' /\ Kept /\ RowsAgree'
  BY <1>1, <1>2, SameKept DEF Ind, TypeOK
<1> QED
  BY <1>2, <1>3, <1>4, IndFromKept

\* PollRead keeps the inductive invariant and the rows.
LEMMA PollReadStep ==
  ASSUME Ind, NEW c \in Clients, NEW a \in Attempts, PollRead(c, a)
  PROVE  Ind' /\ Kept
<1>1. client' \in [Clients -> Request]
  BY DEF Ind, TypeOK, Request, PollRead
<1>2. RowsSame /\ run' = run /\ \A d \in Clients \ {c} : client'[d] = client[d]
  BY DEF Ind, TypeOK, RowsSame, PollRead
<1>3. RequestAgrees(c)'
  <2>1. client'[c] = [pc |-> "expiring", att |-> a]
    BY DEF Ind, TypeOK, PollRead
  <2>2. attempt'[a].status # "NONE" /\ Elapsed(a)'
    BY <1>2 DEF PollRead, RowsSame, Elapsed, IsActive, Active
  <2> QED
    BY <2>1, <2>2 DEF RequestAgrees, Elapsed
<1>4. TypeOK' /\ Kept /\ RowsAgree'
  BY <1>1, <1>2, SameKept DEF Ind, TypeOK
<1> QED
  BY <1>2, <1>3, <1>4, IndFromKept

\* RequestLost keeps the inductive invariant and the rows.
LEMMA RequestLostStep ==
  ASSUME Ind, NEW c \in Clients, RequestLost(c)
  PROVE  Ind' /\ Kept
<1>1. client' \in [Clients -> Request]
  BY DEF Ind, TypeOK, Request, RequestLost, IdleRequest
<1>2. RowsSame /\ run' = run /\ \A d \in Clients \ {c} : client'[d] = client[d]
  BY DEF Ind, TypeOK, RowsSame, RequestLost
<1>3. RequestAgrees(c)'
  BY DEF Ind, TypeOK, Request, RequestAgrees, RequestLost, IdleRequest
<1>4. TypeOK' /\ Kept /\ RowsAgree'
  BY <1>1, <1>2, SameKept DEF Ind, TypeOK
<1> QED
  BY <1>2, <1>3, <1>4, IndFromKept

\* LoadInputs keeps the inductive invariant and the rows.
LEMMA LoadInputsStep ==
  ASSUME Ind, NEW r \in Runs, LoadInputs(r)
  PROVE  Ind' /\ Kept
<1>1. /\ run' \in [Runs -> RunState] /\ \A s \in Runs \ {r} : run'[s] = run[s]
      /\ run'[r].att = run[r].att /\ run'[r].token = run[r].token
      /\ run[r].pc = "load" /\ run'[r].pc \in {"check", "fail"}
  BY GoToEffect DEF Ind, TypeOK, Steps, InHandler, Settling, Errors, LoadInputs
<1>2. RowsSame /\ client' = client
  BY DEF RowsSame, LoadInputs
<1>3. RunAgrees(r)'
  BY <1>1, <1>2 DEF Ind, RunsAgree, RunAgrees, RowsSame, Dispatching, Elapsed, IsActive
<1>4. TypeOK' /\ Kept /\ RowsAgree'
  BY <1>1, <1>2, SameKept DEF Ind, TypeOK
<1> QED
  BY <1>1, <1>2, <1>3, <1>4, IndFromKept

\* CheckFence keeps the inductive invariant and the rows.
LEMMA CheckFenceStep ==
  ASSUME Ind, NEW r \in Runs, CheckFence(r)
  PROVE  Ind' /\ Kept
<1>1. PICK pc \in {"fail", "expire", "mark"} : GoTo(r, pc) /\ (pc = "expire" => Elapsed(run[r].att))
  BY DEF CheckFence
<1>2. /\ run' \in [Runs -> RunState] /\ \A s \in Runs \ {r} : run'[s] = run[s]
      /\ run'[r].att = run[r].att /\ run'[r].token = run[r].token /\ run'[r].pc = pc
  BY <1>1, GoToEffect DEF Ind, TypeOK, Steps, InHandler, Settling
<1>3. RowsSame /\ client' = client
  BY DEF RowsSame, CheckFence
<1>4. RunAgrees(r)'
  BY <1>1, <1>2, <1>3 DEF Ind, RunsAgree, RunAgrees, RowsSame, Dispatching, Elapsed, IsActive, CheckFence
<1>5. TypeOK' /\ Kept /\ RowsAgree'
  BY <1>2, <1>3, SameKept DEF Ind, TypeOK
<1> QED
  BY <1>2, <1>3, <1>4, <1>5, IndFromKept

\* MarkRejected keeps the inductive invariant and the rows.
LEMMA MarkRejectedStep ==
  ASSUME Ind, NEW r \in Runs, MarkRejected(r)
  PROVE  Ind' /\ Kept
<1>1. /\ run' \in [Runs -> RunState] /\ \A s \in Runs \ {r} : run'[s] = run[s]
      /\ run'[r].att = run[r].att /\ run'[r].token = run[r].token
      /\ run[r].pc = "mark" /\ run'[r].pc = "fail"
  BY GoToEffect DEF Ind, TypeOK, Steps, InHandler, Settling, Errors, MarkRejected
<1>2. RowsSame /\ client' = client
  BY DEF RowsSame, MarkRejected
<1>3. RunAgrees(r)'
  BY <1>1, <1>2 DEF Ind, RunsAgree, RunAgrees, RowsSame, Dispatching, Elapsed, IsActive
<1>4. TypeOK' /\ Kept /\ RowsAgree'
  BY <1>1, <1>2, SameKept DEF Ind, TypeOK
<1> QED
  BY <1>1, <1>2, <1>3, <1>4, IndFromKept

\* ProviderReturns keeps the inductive invariant and the rows.
LEMMA ProviderReturnsStep ==
  ASSUME Ind, NEW r \in Runs, ProviderReturns(r)
  PROVE  Ind' /\ Kept
<1>1. /\ run' \in [Runs -> RunState] /\ \A s \in Runs \ {r} : run'[s] = run[s]
      /\ run'[r].att = run[r].att /\ run'[r].token = run[r].token
      /\ run[r].pc = "generate" /\ run'[r].pc = "put"
  BY GoToEffect DEF Ind, TypeOK, Steps, InHandler, Settling, Errors, ProviderReturns
<1>2. RowsSame /\ client' = client
  BY DEF RowsSame, ProviderReturns
<1>3. RunAgrees(r)'
  BY <1>1, <1>2 DEF Ind, RunsAgree, RunAgrees, RowsSame, Dispatching, Elapsed, IsActive
<1>4. TypeOK' /\ Kept /\ RowsAgree'
  BY <1>1, <1>2, SameKept DEF Ind, TypeOK
<1> QED
  BY <1>1, <1>2, <1>3, <1>4, IndFromKept

\* ProviderFails keeps the inductive invariant and the rows.
LEMMA ProviderFailsStep ==
  ASSUME Ind, NEW r \in Runs, ProviderFails(r)
  PROVE  Ind' /\ Kept
<1>1. /\ run' \in [Runs -> RunState] /\ \A s \in Runs \ {r} : run'[s] = run[s]
      /\ run'[r].att = run[r].att /\ run'[r].token = run[r].token
      /\ run[r].pc = "generate" /\ run'[r].pc = "catch"
      /\ run'[r].code = "GENERATION_TIMEOUT" => Elapsed(run[r].att)
  BY ThrowEffect DEF Ind, TypeOK, Errors, ProviderFails
<1>2. RowsSame /\ client' = client
  BY DEF RowsSame, ProviderFails
<1>3. RunAgrees(r)'
  BY <1>1, <1>2 DEF Ind, RunsAgree, RunAgrees, RowsSame, Dispatching, Elapsed, IsActive
<1>4. TypeOK' /\ Kept /\ RowsAgree'
  BY <1>1, <1>2, SameKept DEF Ind, TypeOK
<1> QED
  BY <1>1, <1>2, <1>3, <1>4, IndFromKept

\* CommitRefused keeps the inductive invariant and the rows.
LEMMA CommitRefusedStep ==
  ASSUME Ind, NEW r \in Runs, CommitRefused(r)
  PROVE  Ind' /\ Kept
<1>1. /\ run' \in [Runs -> RunState] /\ \A s \in Runs \ {r} : run'[s] = run[s]
      /\ run'[r].att = run[r].att /\ run'[r].token = run[r].token
      /\ run[r].pc = "commit" /\ run'[r].pc = "catch"
  BY ThrowEffect DEF Ind, TypeOK, Errors, CommitRefused
<1>2. RowsSame /\ client' = client
  BY DEF RowsSame, CommitRefused
<1>3. Elapsed(run[r].att) \/ ~IsActive(run[r].att)
  BY <1>1 DEF Ind, TypeOK, RunsAgree, RunAgrees, CommitRefused, CommitMatches, Dispatching, IsActive, Active
<1>4. RunAgrees(r)'
  BY <1>1, <1>2, <1>3 DEF Ind, RunsAgree, RunAgrees, RowsSame, Dispatching, Elapsed, IsActive
<1>5. TypeOK' /\ Kept /\ RowsAgree'
  BY <1>1, <1>2, SameKept DEF Ind, TypeOK
<1> QED
  BY <1>1, <1>2, <1>4, <1>5, IndFromKept

\* DatabaseError keeps the inductive invariant and the rows.
LEMMA DatabaseErrorStep ==
  ASSUME Ind, NEW r \in Runs, DatabaseError(r)
  PROVE  Ind' /\ Kept
<1>1. /\ run' \in [Runs -> RunState] /\ \A s \in Runs \ {r} : run'[s] = run[s]
      /\ run'[r].att = run[r].att /\ run'[r].token = run[r].token
      /\ \/ run[r].pc # "idle" /\ run'[r].pc = "fail"
         \/ run[r].pc = "commit" /\ run'[r].pc = "catch" /\ run'[r].code = "GENERATION_FAILED"
  BY GoToEffect, ThrowEffect DEF Ind, TypeOK, Steps, InHandler, Settling, Errors, DatabaseError
<1>2. RowsSame /\ client' = client
  BY DEF RowsSame, DatabaseError
<1>3. RunAgrees(r)'
  BY <1>1, <1>2 DEF Ind, RunsAgree, RunAgrees, RowsSame, Dispatching, Elapsed, IsActive
<1>4. TypeOK' /\ Kept /\ RowsAgree'
  BY <1>1, <1>2, SameKept DEF Ind, TypeOK
<1> QED
  BY <1>1, <1>2, <1>3, <1>4, IndFromKept

\* Crash keeps the inductive invariant and the rows.
LEMMA CrashStep ==
  ASSUME Ind, NEW p \in Processes, Crash(p)
  PROVE  Ind' /\ Kept
<1>1. /\ run' \in [Runs -> RunState]
      /\ \A s \in Runs : run'[s] = run[s] \/ run'[s].pc = "idle"
  BY IdleRunTyped DEF Ind, TypeOK, RunsEnd, IdleRun, Crash
<1>2. RowsSame /\ client' = client
  BY DEF RowsSame, Crash
<1>3. TypeOK' /\ Kept /\ RowsAgree'
  BY <1>1, <1>2, SameKept DEF Ind, TypeOK
<1> QED
  BY <1>1, <1>2, <1>3, IndFromKept DEF RunAgrees

\* CompleteRejected keeps the inductive invariant and the rows.
LEMMA CompleteRejectedStep ==
  ASSUME Ind, NEW r \in Runs, CompleteRejected(r)
  PROVE  Ind' /\ Kept
<1>1. /\ run' \in [Runs -> RunState]
      /\ \A s \in Runs : run'[s] = run[s] \/ run'[s].pc = "idle"
                         \/ (s = r /\ run'[s].pc = "fail" /\ run'[s].att = run[s].att /\ run'[s].token = run[s].token)
  <2>1. CASE run[r].pc = "succeed"
    <3>1. GoTo(r, "fail") /\ run \in [Runs -> RunState]
      BY <2>1 DEF CompleteRejected, Ind, TypeOK
    <3> QED
      BY <3>1, GoToEffect DEF Steps, Settling, InHandler
  <2>2. CASE run[r].pc # "succeed"
    <3>1. PICK p \in Processes : RunsEnd(p)
      BY <2>2 DEF CompleteRejected
    <3>2. run' = [s \in Runs |-> IF s \in p THEN IdleRun ELSE run[s]]
      BY <3>1 DEF RunsEnd
    <3>3. IdleRun.pc = "idle"
      BY DEF IdleRun
    <3> QED
      BY <3>2, <3>3, IdleRunTyped DEF Ind, TypeOK
  <2> QED
    BY <2>1, <2>2
<1>2. RowsSame /\ client' = client
  BY DEF RowsSame, CompleteRejected
<1>3. TypeOK' /\ Kept /\ RowsAgree'
  BY <1>1, <1>2, SameKept DEF Ind, TypeOK
<1>4. \A s \in Runs : run'[s] = run[s] \/ RunAgrees(s)'
  BY <1>1, <1>2 DEF Ind, RunsAgree, RunAgrees, RowsSame, CompleteRejected, Settling, Dispatching
<1> QED
  BY <1>2, <1>3, <1>4, IndFromKept

\* SubmitInsert keeps the inductive invariant.
LEMMA SubmitInsertStep ==
  ASSUME Ind, NEW c \in Clients, SubmitInsert(c)
  PROVE  Ind'
<1>1. PICK a \in Attempts :
        /\ attempt[a].status = "NONE"
        /\ attempt' = [attempt EXCEPT ![a] = [NoAttemptRow EXCEPT !.status = "PREPARING",
                                  !.owner = OwnerOf[c], !.deadline = now + DeadlineTime]]
        /\ job' = [job EXCEPT ![a] = [NoJobRow EXCEPT !.status = "QUEUED"]]
  BY DEF SubmitInsert, NextId
<1>2. client' = [client EXCEPT ![c] = IdleRequest]
      /\ UNCHANGED <<now, stored, deleted, run, repair, dispatched>>
  BY DEF SubmitInsert
<1>3. attempt'[a] = [status |-> "PREPARING", owner |-> OwnerOf[c], deadline |-> now + DeadlineTime,
                     error |-> "NONE", result |-> FALSE]
  BY <1>1 DEF Ind, TypeOK, NoAttemptRow
<1>4. job'[a] = [status |-> "QUEUED", lease |-> NoTime, token |-> 0, claims |-> 0]
  BY <1>1 DEF Ind, TypeOK, NoJobRow
<1>5. attempt'[a] \in AttemptRow
  BY <1>3, OwnerAssumption, TimeAssumption DEF Ind, TypeOK, AttemptRow, Active, Errors
<1>6. job'[a] \in JobRow
  BY <1>4, BoundAssumption DEF JobRow, NoTime
<1>7. client' \in [Clients -> Request]
  BY <1>2 DEF Ind, TypeOK, IdleRequest, Request
<1>8. \A b \in Attempts \ {a} : attempt'[b] = attempt[b] /\ job'[b] = job[b]
  BY <1>1 DEF Ind, TypeOK
<1>9. TypeOK'
  BY <1>1, <1>2, <1>5, <1>6, <1>7 DEF Ind, TypeOK
<1>10. RowsAgree'
  BY <1>1, <1>2, <1>3, <1>4, <1>8 DEF Ind, RowsAgree
<1>11. \A r \in Runs : run[r].pc = "idle" \/ run[r].att \in Attempts \ {a}
  BY <1>1 DEF Ind, RunsAgree, RunAgrees
<1>12. \A r \in Runs : RunAgrees(r)'
  BY <1>2, <1>8, <1>11 DEF Ind, RunsAgree, RunAgrees, Elapsed, IsActive
<1>13. \A d \in Clients : RequestAgrees(d)'
  <2> SUFFICES ASSUME NEW d \in Clients PROVE RequestAgrees(d)'
    OBVIOUS
  <2>1. CASE d = c
    BY <1>2, <2>1 DEF Ind, TypeOK, RequestAgrees, IdleRequest
  <2>2. CASE d # c
    BY <1>1, <1>2, <1>8, <2>2 DEF Ind, TypeOK, RequestsAgree, RequestAgrees, Elapsed, IsActive
  <2> QED
    BY <2>1, <2>2
<1> QED
  BY <1>9, <1>10, <1>12, <1>13 DEF Ind, RequestsAgree, RunsAgree

\* PollWrite keeps the inductive invariant and the rows.
LEMMA PollWriteStep ==
  ASSUME Ind, NEW c \in Clients, PollWrite(c)
  PROVE  Ind' /\ Kept
<1> DEFINE a == client[c].att
<1>1. a \in Attempts /\ attempt[a].status # "NONE" /\ Elapsed(a) /\ Fail(a, "GENERATION_TIMEOUT")
  BY DEF Ind, RequestsAgree, RequestAgrees, PollWrite
<1>2. client' \in [Clients -> Request] /\ client'[c].pc = "idle" /\ \A d \in Clients \ {c} : client'[d] = client[d]
  BY DEF PollWrite, Ind, TypeOK, IdleRequest, Request
<1>3. run' = run /\ UNCHANGED <<now, job, stored, deleted, repair, dispatched>>
  BY DEF PollWrite
<1>4. TypeOK' /\ Kept /\ RowsAgree'
  <2>1. "GENERATION_TIMEOUT" \in Errors /\ run' \in [Runs -> RunState]
    BY <1>3 DEF Errors, Ind, TypeOK
  <2> QED
    BY <1>1, <1>2, <1>3, <2>1, FailKept
<1> QED
  BY <1>2, <1>3, <1>4, IndFromKept DEF RequestAgrees

\* DeleteCheck keeps the inductive invariant and the rows.
LEMMA DeleteCheckStep ==
  ASSUME Ind, NEW c \in Clients, NEW a \in Attempts, DeleteCheck(c, a)
  PROVE  Ind' /\ Kept
<1>1. client' \in [Clients -> Request]
  BY DEF Ind, TypeOK, Request, DeleteCheck
<1>2. RowsSame /\ run' = run /\ \A d \in Clients \ {c} : client'[d] = client[d]
  BY DEF Ind, TypeOK, RowsSame, DeleteCheck
<1>3. RequestAgrees(c)'
  <2>1. client'[c] = [pc |-> "deleting", att |-> a]
    BY DEF Ind, TypeOK, DeleteCheck
  <2>2. attempt'[a].status # "NONE" /\ ~IsActive(a)'
    BY <1>2 DEF DeleteCheck, RowsSame, IsActive
  <2> QED
    BY <2>1, <2>2 DEF RequestAgrees, IsActive
<1>4. TypeOK' /\ Kept /\ RowsAgree'
  BY <1>1, <1>2, SameKept DEF Ind, TypeOK
<1> QED
  BY <1>2, <1>3, <1>4, IndFromKept

\* DeleteSession keeps the inductive invariant and the rows.
LEMMA DeleteSessionStep ==
  ASSUME Ind, NEW c \in Clients, DeleteSession(c)
  PROVE  Ind' /\ Kept
<1> DEFINE a == client[c].att
<1>1. /\ UNCHANGED <<now, attempt, job, stored, run, repair, dispatched>>
      /\ deleted' = deleted \cup {a} /\ client' = [client EXCEPT ![c] = IdleRequest]
  BY DEF DeleteSession
<1>2. a \in Attempts /\ attempt[a].status # "NONE"
  BY DEF DeleteSession, Ind, RequestsAgree, RequestAgrees
<1>3. /\ client' \in [Clients -> Request] /\ client'[c] = IdleRequest
      /\ \A d \in Clients \ {c} : client'[d] = client[d]
  BY <1>1 DEF Ind, TypeOK, IdleRequest, Request
<1> HIDE DEF a
<1>4. TypeOK'
  BY <1>1, <1>2, <1>3 DEF Ind, TypeOK
<1>5. now \in Int /\ \A b \in Attempts : job[b].token \in Int
  BY TimeAssumption DEF Ind, TypeOK, JobRow
<1>6. Kept
  BY <1>1, <1>5 DEF Kept
<1>7. RowsAgree'
  BY <1>1, <1>2 DEF Ind, RowsAgree
<1>8. RequestAgrees(c)'
  BY <1>3 DEF RequestAgrees, IdleRequest
<1> QED
  BY <1>1, <1>3, <1>4, <1>6, <1>7, <1>8, IndFromKept

\* Claim keeps the inductive invariant and the rows.
LEMMA ClaimStep ==
  ASSUME Ind, NEW r \in Runs, Claim(r)
  PROVE  Ind' /\ Kept
<1>1. PICK a \in Attempts :
        /\ Claimable(a)
        /\ job' = [job EXCEPT ![a] = [status |-> "RUNNING", lease |-> now + LeaseTime,
                                     token |-> job[a].token + 1, claims |-> job[a].claims + 1]]
        /\ run' = [run EXCEPT ![r] = [IdleRun EXCEPT !.pc = "load", !.att = a, !.token = job[a].token + 1]]
  BY DEF Claim
<1>2. UNCHANGED <<now, attempt, stored, deleted, client, repair, dispatched>>
  BY DEF Claim
<1>3. job[a] \in JobRow /\ job[a].token \in Nat /\ job[a].status # "NONE" /\ job[a].claims < MaxClaims
      /\ job[a].claims \in 0 .. MaxClaims
  BY <1>1 DEF Ind, TypeOK, Claimable, JobRow
<1>4. [status |-> "RUNNING", lease |-> now + LeaseTime,
       token |-> job[a].token + 1, claims |-> job[a].claims + 1] \in JobRow
  <2>1. job[a].claims + 1 \in 0 .. MaxClaims
    BY <1>3, BoundAssumption
  <2>2. now + LeaseTime \in Nat
    BY TimeAssumption DEF Ind, TypeOK
  <2> QED
    BY <1>3, <2>1, <2>2 DEF JobRow
<1>5. [IdleRun EXCEPT !.pc = "load", !.att = a, !.token = job[a].token + 1] \in RunState
  <2>1. job[a].token + 1 \in Nat
    BY <1>3
  <2> QED
    BY <2>1 DEF IdleRun, RunState, InHandler, Errors
<1>6. job' \in [Attempts -> JobRow] /\ run' \in [Runs -> RunState]
  BY <1>1, <1>4, <1>5 DEF Ind, TypeOK
<1>7. \A b \in Attempts : job[b].token <= job'[b].token /\ (job[b].status = "NONE" <=> job'[b].status = "NONE")
  <2>1. \A b \in Attempts : job[b].token \in Nat
    BY DEF Ind, TypeOK, JobRow
  <2> QED
    BY <1>1, <1>3, <2>1 DEF Ind, TypeOK
<1>8. run'[r].pc = "load" /\ run'[r].att = a /\ run'[r].token = job'[a].token /\ job'[a].token \in Nat
      /\ \A s \in Runs \ {r} : run'[s] = run[s]
  BY <1>1, <1>3 DEF Ind, TypeOK, IdleRun
<1>9. TypeOK' /\ Kept /\ RowsAgree'
  BY <1>2, <1>6, <1>7, JobKept DEF Ind, TypeOK
<1>10. RunAgrees(r)'
  BY <1>2, <1>3, <1>8 DEF Ind, RowsAgree, RunAgrees, Dispatching
<1> QED
  BY <1>2, <1>8, <1>9, <1>10, IndFromKept

\* ExpireBeforeDispatch keeps the inductive invariant and the rows.
LEMMA ExpireBeforeDispatchStep ==
  ASSUME Ind, NEW r \in Runs, ExpireBeforeDispatch(r)
  PROVE  Ind' /\ Kept
<1> DEFINE a == run[r].att
<1>1. run[r].pc = "expire" /\ Fail(a, "GENERATION_TIMEOUT") /\ GoTo(r, "fail")
  BY DEF ExpireBeforeDispatch
<1>2. a \in Attempts /\ attempt[a].status # "NONE" /\ run[r].token <= job[a].token
  BY <1>1 DEF Ind, RunsAgree, RunAgrees
<1>3. /\ run' \in [Runs -> RunState] /\ \A s \in Runs \ {r} : run'[s] = run[s]
      /\ run'[r].att = a /\ run'[r].token = run[r].token /\ run'[r].pc = "fail"
  BY <1>1, GoToEffect DEF Ind, TypeOK, Steps, Settling
<1>4. client' = client /\ UNCHANGED <<now, job, stored, deleted, repair, dispatched>>
  BY DEF ExpireBeforeDispatch
<1>5. TypeOK' /\ Kept /\ RowsAgree'
  <2>1. "GENERATION_TIMEOUT" \in Errors /\ client' \in [Clients -> Request]
    BY <1>4 DEF Errors, Ind, TypeOK
  <2> QED
    BY <1>1, <1>2, <1>3, <1>4, <2>1, FailKept
<1>6. RunAgrees(r)'
  BY <1>2, <1>3, <1>4, <1>5 DEF RunAgrees, Kept, Dispatching
<1> QED
  BY <1>3, <1>4, <1>5, <1>6, IndFromKept

\* MarkGenerating keeps the inductive invariant and the rows.
LEMMA MarkGeneratingStep ==
  ASSUME Ind, NEW r \in Runs, MarkGenerating(r)
  PROVE  Ind' /\ Kept
<1> DEFINE a == run[r].att
<1>1. /\ run[r].pc = "mark" /\ attempt[a].status = "PREPARING" /\ GoTo(r, "generate")
      /\ attempt' = [attempt EXCEPT ![a].status = "GENERATING"]
      /\ dispatched' = [dispatched EXCEPT ![a] = @ + 1]
      /\ UNCHANGED <<now, job, stored, deleted, client, repair>>
  BY DEF MarkGenerating
<1>2. a \in Attempts /\ run[r].token <= job[a].token
  BY <1>1 DEF Ind, RunsAgree, RunAgrees
<1>3. /\ run' \in [Runs -> RunState] /\ \A s \in Runs \ {r} : run'[s] = run[s]
      /\ run'[r].att = a /\ run'[r].token = run[r].token /\ run'[r].pc = "generate"
  BY <1>1, GoToEffect DEF Ind, TypeOK, Steps, InHandler
<1>4. /\ attempt' \in [Attempts -> AttemptRow]
      /\ \A b \in Attempts \ {a} : attempt'[b] = attempt[b] /\ dispatched'[b] = dispatched[b]
      /\ attempt'[a].status = "GENERATING" /\ attempt'[a].owner = attempt[a].owner
      /\ attempt'[a].deadline = attempt[a].deadline /\ attempt'[a].result = attempt[a].result
  <2>1. attempt[a] \in AttemptRow
    BY <1>2 DEF Ind, TypeOK
  <2>2. [attempt[a] EXCEPT !.status = "GENERATING"] \in AttemptRow
    BY <2>1 DEF AttemptRow, Active
  <2> QED
    BY <1>1, <1>2, <2>1, <2>2 DEF Ind, TypeOK, AttemptRow
<1>5. dispatched' \in [Attempts -> Nat]
  BY <1>1, <1>2 DEF Ind, TypeOK
<1>6. TypeOK'
  BY <1>1, <1>3, <1>4, <1>5 DEF Ind, TypeOK
<1>7. now \in Int /\ \A b \in Attempts : job[b].token \in Int
  BY TimeAssumption DEF Ind, TypeOK, JobRow
<1>8. Kept
  BY <1>1, <1>4, <1>7 DEF Kept, Active
<1>9. RowsAgree'
  BY <1>1, <1>2, <1>4 DEF Ind, RowsAgree
<1>10. RunAgrees(r)'
  BY <1>1, <1>2, <1>3, <1>4 DEF RunAgrees
<1> QED
  BY <1>1, <1>3, <1>6, <1>8, <1>9, <1>10, IndFromKept

\* PutResult keeps the inductive invariant and the rows.
LEMMA PutResultStep ==
  ASSUME Ind, NEW r \in Runs, PutResult(r)
  PROVE  Ind' /\ Kept
<1> DEFINE a == run[r].att
<1>1. run[r].pc = "put" /\ UNCHANGED <<now, attempt, job, deleted, client, repair, dispatched>>
  BY DEF PutResult
<1>2. a \in Attempts /\ run[r] \in RunState /\ attempt[a].status \notin {"NONE", "PREPARING"} /\ run[r].token <= job[a].token
  BY <1>1 DEF Ind, TypeOK, RunsAgree, RunAgrees, Dispatching
<1>3. /\ run' \in [Runs -> RunState] /\ \A s \in Runs \ {r} : run'[s] = run[s]
      /\ run'[r].att = a /\ run'[r].token = run[r].token
      /\ stored \subseteq stored' /\ stored' \subseteq Attempts
      /\ \/ run'[r].pc = "commit" /\ a \in stored' /\ (run'[r].early \/ Elapsed(a))
         \/ run'[r].pc = "catch" /\ run'[r].code = "GENERATION_FAILED"
  <2>1. CASE /\ stored' = stored \cup {a}
             /\ run' = [run EXCEPT ![r].pc = "commit", ![r].early = ~Elapsed(a)]
    <3>1. (~Elapsed(a)) \in BOOLEAN
      BY DEF Elapsed
    <3>2. [run[r] EXCEPT !.pc = "commit", !.early = ~Elapsed(a)] \in RunState
      BY <1>2, <3>1 DEF RunState, InHandler
    <3> QED
      BY <1>2, <2>1, <3>2 DEF Ind, TypeOK, RunState
  <2>2. CASE stored' = stored /\ Throw(r, "GENERATION_FAILED")
    BY <2>2, ThrowEffect DEF Ind, TypeOK, Errors
  <2> QED
    BY <2>1, <2>2 DEF PutResult
<1>4. TypeOK'
  BY <1>1, <1>3 DEF Ind, TypeOK
<1>5. now \in Int /\ \A b \in Attempts : job[b].token \in Int
  BY TimeAssumption DEF Ind, TypeOK, JobRow
<1>6. Kept
  BY <1>1, <1>3, <1>5 DEF Kept
<1>7. RowsAgree'
  BY <1>1 DEF Ind, RowsAgree
<1>8. RunAgrees(r)'
  BY <1>1, <1>2, <1>3 DEF RunAgrees, Elapsed
<1> QED
  BY <1>1, <1>3, <1>4, <1>6, <1>7, <1>8, IndFromKept

\* Commit keeps the inductive invariant and the rows.
LEMMA CommitStep ==
  ASSUME Ind, NEW r \in Runs, Commit(r)
  PROVE  Ind' /\ Kept
<1> DEFINE a == run[r].att
<1>1. /\ run[r].pc = "commit" /\ attempt[a].status = "GENERATING" /\ GoTo(r, "succeed")
      /\ attempt' = [attempt EXCEPT ![a].status = "COMPLETED", ![a].result = TRUE]
      /\ UNCHANGED <<now, job, stored, deleted, client, repair, dispatched>>
  BY DEF Commit, CommitMatches
<1>2. a \in Attempts /\ run[r].token <= job[a].token
  BY <1>1 DEF Ind, RunsAgree, RunAgrees
<1>3. /\ run' \in [Runs -> RunState] /\ \A s \in Runs \ {r} : run'[s] = run[s]
      /\ run'[r].att = a /\ run'[r].token = run[r].token /\ run'[r].pc = "succeed"
  BY <1>1, GoToEffect DEF Ind, TypeOK, Steps, Settling
<1>4. /\ attempt' \in [Attempts -> AttemptRow]
      /\ \A b \in Attempts \ {a} : attempt'[b] = attempt[b]
      /\ attempt'[a].status = "COMPLETED" /\ attempt'[a].owner = attempt[a].owner
      /\ attempt'[a].deadline = attempt[a].deadline /\ attempt'[a].result
  <2>1. attempt[a] \in AttemptRow
    BY <1>2 DEF Ind, TypeOK
  <2>2. [attempt[a] EXCEPT !.status = "COMPLETED", !.result = TRUE] \in AttemptRow
    BY <2>1 DEF AttemptRow, Terminal
  <2>3. attempt' = [attempt EXCEPT ![a] = [attempt[a] EXCEPT !.status = "COMPLETED", !.result = TRUE]]
    BY <1>1
  <2> QED
    BY <1>2, <2>1, <2>2, <2>3 DEF Ind, TypeOK, AttemptRow
<1>5. TypeOK'
  BY <1>1, <1>3, <1>4 DEF Ind, TypeOK
<1>6. now \in Int /\ \A b \in Attempts : job[b].token \in Int
  BY TimeAssumption DEF Ind, TypeOK, JobRow
<1>7. Kept
  BY <1>1, <1>4, <1>6 DEF Kept, Active
<1>8. RowsAgree'
  BY <1>1, <1>4 DEF Ind, RowsAgree
<1>9. RunAgrees(r)'
  BY <1>1, <1>2, <1>3, <1>4 DEF RunAgrees
<1> QED
  BY <1>1, <1>3, <1>5, <1>7, <1>8, <1>9, IndFromKept

\* CatchFailure keeps the inductive invariant and the rows.
LEMMA CatchFailureStep ==
  ASSUME Ind, NEW r \in Runs, CatchFailure(r)
  PROVE  Ind' /\ Kept
<1> DEFINE a == run[r].att
<1>1. /\ run[r].pc = "catch" /\ GoTo(r, "fail")
      /\ UNCHANGED <<now, job, stored, deleted, client, repair, dispatched>>
      /\ IF IsActive(a) THEN Fail(a, run[r].code) ELSE UNCHANGED attempt
  BY DEF CatchFailure
<1>2. a \in Attempts /\ attempt[a].status # "NONE" /\ run[r].token <= job[a].token /\ run[r].code \in Errors
  BY <1>1 DEF Ind, TypeOK, RunsAgree, RunAgrees, RunState
<1>3. /\ run' \in [Runs -> RunState] /\ \A s \in Runs \ {r} : run'[s] = run[s]
      /\ run'[r].att = a /\ run'[r].token = run[r].token /\ run'[r].pc = "fail"
  BY <1>1, GoToEffect DEF Ind, TypeOK, Steps, Settling
<1>4. client' \in [Clients -> Request]
  BY <1>1 DEF Ind, TypeOK
<1>5. TypeOK' /\ Kept /\ RowsAgree'
  <2>1. CASE IsActive(a)
    BY <1>1, <1>2, <1>3, <1>4, <2>1, FailKept
  <2>2. CASE ~IsActive(a)
    BY <1>1, <1>3, <1>4, <2>2, SameKept DEF RowsSame
  <2> QED
    BY <2>1, <2>2
<1>6. RunAgrees(r)'
  BY <1>1, <1>2, <1>3, <1>5 DEF RunAgrees, Kept, Dispatching
<1> QED
  BY <1>1, <1>3, <1>5, <1>6, IndFromKept

\* CompleteJob keeps the inductive invariant and the rows.
LEMMA CompleteJobStep ==
  ASSUME Ind, NEW r \in Runs, CompleteJob(r)
  PROVE  Ind' /\ Kept
<1> DEFINE a == run[r].att
<1> DEFINE end == IF run[r].pc = "succeed" THEN "SUCCEEDED" ELSE "FAILED"
<1>1. /\ HoldsFence(r)
      /\ job' = [job EXCEPT ![a].status = end, ![a].lease = NoTime]
      /\ run' = [run EXCEPT ![r] = IdleRun]
      /\ UNCHANGED <<now, attempt, stored, deleted, client, repair, dispatched>>
      /\ run[r].pc # "idle"
  BY DEF CompleteJob, Settling
<1>2. a \in Attempts /\ job[a] \in JobRow /\ job[a].status # "NONE"
  BY <1>1 DEF Ind, TypeOK, RunsAgree, RunAgrees, HoldsFence
<1>3. [job[a] EXCEPT !.status = end, !.lease = NoTime] \in JobRow
  BY <1>2 DEF JobRow
<1>4. job' = [job EXCEPT ![a] = [job[a] EXCEPT !.status = end, !.lease = NoTime]]
  BY <1>1
<1>5. job' \in [Attempts -> JobRow]
  BY <1>3, <1>4 DEF Ind, TypeOK
<1>6. \A b \in Attempts : job[b].token <= job'[b].token /\ (job[b].status = "NONE" <=> job'[b].status = "NONE")
  <2>1. \A b \in Attempts : job[b] \in JobRow /\ job[b].token \in Int
    BY DEF Ind, TypeOK, JobRow
  <2>2. job'[a].token = job[a].token /\ job'[a].status = end
    BY <1>2, <1>4 DEF Ind, TypeOK, JobRow
  <2>3. \A b \in Attempts \ {a} : job'[b] = job[b]
    BY <1>2, <1>4 DEF Ind, TypeOK
  <2> QED
    BY <1>2, <2>1, <2>2, <2>3
<1>7. run' \in [Runs -> RunState] /\ run'[r].pc = "idle" /\ \A s \in Runs \ {r} : run'[s] = run[s]
  BY <1>1, IdleRunTyped DEF Ind, TypeOK, IdleRun
<1>8. TypeOK' /\ Kept /\ RowsAgree'
  BY <1>1, <1>5, <1>6, <1>7, JobKept DEF Ind, TypeOK
<1> QED
  BY <1>1, <1>7, <1>8, IndFromKept DEF RunAgrees

\* Heartbeat keeps the inductive invariant and the rows.
LEMMA HeartbeatStep ==
  ASSUME Ind, NEW r \in Runs, Heartbeat(r)
  PROVE  Ind' /\ Kept
<1> DEFINE a == run[r].att
<1>1. /\ job' = [job EXCEPT ![a].lease = now + LeaseTime]
      /\ UNCHANGED <<now, attempt, stored, deleted, client, run, repair, dispatched>>
      /\ run[r].pc # "idle"
  BY DEF Heartbeat, Dispatching
<1>2. a \in Attempts /\ job[a] \in JobRow
  BY <1>1 DEF Ind, TypeOK, RunsAgree, RunAgrees
<1>3. now + LeaseTime \in Nat
  BY TimeAssumption DEF Ind, TypeOK
<1>4. [job[a] EXCEPT !.lease = now + LeaseTime] \in JobRow
  BY <1>2, <1>3 DEF JobRow
<1>5. job' \in [Attempts -> JobRow]
  BY <1>1, <1>4 DEF Ind, TypeOK
<1>6. \A b \in Attempts : job[b].token <= job'[b].token /\ (job[b].status = "NONE" <=> job'[b].status = "NONE")
  <2>1. \A b \in Attempts : job[b] \in JobRow /\ job[b].token \in Int
    BY DEF Ind, TypeOK, JobRow
  <2>2. job'[a].token = job[a].token /\ job'[a].status = job[a].status
    BY <1>1, <1>2 DEF Ind, TypeOK, JobRow
  <2>3. \A b \in Attempts \ {a} : job'[b] = job[b]
    BY <1>1, <1>2 DEF Ind, TypeOK
  <2> QED
    BY <1>2, <2>1, <2>2, <2>3
<1>7. TypeOK' /\ Kept /\ RowsAgree'
  BY <1>1, <1>5, <1>6, JobKept DEF Ind, TypeOK
<1> QED
  BY <1>1, <1>7, IndFromKept

\* Reconcile keeps the inductive invariant and the rows.
LEMMA ReconcileStep ==
  ASSUME Ind, Reconcile
  PROVE  Ind' /\ Kept
<1>1. FailElapsed /\ repair' = repair /\ UNCHANGED <<now, job, stored, deleted, client, run, dispatched>>
  BY DEF Reconcile
<1>2. attempt \in [Attempts -> AttemptRow] /\ now \in Nat /\ \A b \in Attempts : job[b].token \in Int
  BY TimeAssumption DEF Ind, TypeOK, JobRow
<1>3. TypeOK'
  BY <1>1, <1>2, FailElapsedEffect DEF Ind, TypeOK
<1>4. Kept
  BY <1>1, <1>2, FailElapsedEffect DEF Kept, Active, IsActive
<1>5. RowsAgree'
  BY <1>1, <1>2, FailElapsedEffect DEF Ind, RowsAgree, IsActive, Active
<1> QED
  BY <1>1, <1>3, <1>4, <1>5, IndFromKept

\* RecoverAttempts keeps the inductive invariant and the rows.
LEMMA RecoverAttemptsStep ==
  ASSUME Ind, RecoverAttempts
  PROVE  Ind' /\ Kept
<1>1. FailElapsed /\ repair' = now /\ UNCHANGED <<now, job, stored, deleted, client, run, dispatched>>
  BY DEF RecoverAttempts
<1>2. attempt \in [Attempts -> AttemptRow] /\ now \in Nat /\ \A b \in Attempts : job[b].token \in Int
  BY TimeAssumption DEF Ind, TypeOK, JobRow
<1>3. TypeOK'
  BY <1>1, <1>2, FailElapsedEffect DEF Ind, TypeOK
<1>4. Kept
  BY <1>1, <1>2, FailElapsedEffect DEF Kept, Active, IsActive
<1>5. RowsAgree'
  BY <1>1, <1>2, FailElapsedEffect DEF Ind, RowsAgree, IsActive, Active
<1> QED
  BY <1>1, <1>3, <1>4, <1>5, IndFromKept

\* RecoverLeases keeps the inductive invariant and the rows.
LEMMA RecoverLeasesStep ==
  ASSUME Ind, RecoverLeases
  PROVE  Ind' /\ Kept
<1> DEFINE hit(b) == job[b].status = "RUNNING" /\ job[b].lease <= repair
<1>1. /\ job' = [b \in Attempts |-> IF hit(b) THEN [job[b] EXCEPT !.status = "FAILED", !.lease = NoTime] ELSE job[b]]
      /\ repair' = NoTime
      /\ UNCHANGED <<now, attempt, stored, deleted, client, run, dispatched>>
  BY DEF RecoverLeases
<1>2. \A b \in Attempts : job[b] \in JobRow /\ job[b].token \in Int
  BY DEF Ind, TypeOK, JobRow
<1>3. \A b \in Attempts : /\ job'[b] \in JobRow /\ job'[b].token = job[b].token
                          /\ job[b].status = "NONE" <=> job'[b].status = "NONE"
  <2> SUFFICES ASSUME NEW b \in Attempts
               PROVE  /\ job'[b] \in JobRow /\ job'[b].token = job[b].token
                      /\ job[b].status = "NONE" <=> job'[b].status = "NONE"
    OBVIOUS
  <2>1. CASE hit(b)
    <3>1. job'[b] = [job[b] EXCEPT !.status = "FAILED", !.lease = NoTime]
      BY <1>1, <2>1
    <3> QED
      BY <1>2, <2>1, <3>1 DEF JobRow
  <2>2. CASE ~hit(b)
    BY <1>1, <1>2, <2>2
  <2> QED
    BY <2>1, <2>2
<1>4. job' \in [Attempts -> JobRow]
  BY <1>1, <1>3
<1>5. \A b \in Attempts : job[b].token <= job'[b].token
  BY <1>2, <1>3
<1>6. TypeOK' /\ Kept /\ RowsAgree'
  BY <1>1, <1>3, <1>4, <1>5, JobKept DEF Ind, TypeOK
<1> QED
  BY <1>1, <1>6, IndFromKept

\* Tick keeps the inductive invariant and the rows.
LEMMA TickStep ==
  ASSUME Ind, Tick
  PROVE  Ind' /\ Kept
<1>1. now' = now + 1 /\ now < Horizon /\ UNCHANGED <<attempt, job, stored, deleted, client, run, repair, dispatched>>
  BY DEF Tick
<1>2. now \in 0 .. Horizon /\ now' \in 0 .. Horizon /\ now <= now'
  BY <1>1, TimeAssumption DEF Ind, TypeOK
<1>3. TypeOK'
  BY <1>1, <1>2 DEF Ind, TypeOK
<1>4. \A b \in Attempts : job[b].token \in Int
  BY DEF Ind, TypeOK, JobRow
<1>5. Kept
  BY <1>1, <1>2, <1>4 DEF Kept
<1>6. RowsAgree'
  BY <1>1 DEF Ind, RowsAgree
<1> QED
  BY <1>1, <1>3, <1>5, <1>6, IndFromKept

Inserts == \E c \in Clients : SubmitInsert(c)

\* Every step keeps the inductive invariant, and keeps the rows unless it inserts one.
LEMMA StepLemma ==
  ASSUME Ind, [Next]_vars
  PROVE  Ind' /\ (Kept \/ Inserts)
<1>1. ASSUME NEW c \in Clients, ClientStep(c)
      PROVE  Ind' /\ (Kept \/ Inserts)
  BY <1>1, SubmitCheckStep, SubmitInsertStep, RequestLostStep, PollWriteStep, PollReadStep,
     DeleteCheckStep, DeleteSessionStep DEF ClientStep, Inserts
<1>3. ASSUME NEW r \in Runs, RunStep(r)
      PROVE  Ind' /\ Kept
  BY <1>3, ClaimStep, LoadInputsStep, CheckFenceStep, ExpireBeforeDispatchStep, MarkGeneratingStep,
     MarkRejectedStep, ProviderReturnsStep, ProviderFailsStep, PutResultStep, CommitStep,
     CommitRefusedStep, CatchFailureStep, CompleteJobStep, CompleteRejectedStep DEF RunStep
<1>4. ASSUME NEW r \in Runs, Heartbeat(r) \/ DatabaseError(r)
      PROVE  Ind' /\ Kept
  BY <1>4, HeartbeatStep, DatabaseErrorStep
<1>5. ASSUME NEW p \in Processes, Crash(p)
      PROVE  Ind' /\ Kept
  BY <1>5, CrashStep
<1>6. CASE Reconcile \/ RecoverAttempts \/ RecoverLeases \/ Tick
  BY <1>6, ReconcileStep, RecoverAttemptsStep, RecoverLeasesStep, TickStep
<1>7. CASE UNCHANGED vars
  <2>1. RowsSame /\ client' = client /\ run' = run
    BY <1>7 DEF vars, RowsSame
  <2>2. TypeOK' /\ Kept /\ RowsAgree'
    BY <2>1, SameKept DEF Ind, TypeOK
  <2> QED
    BY <2>1, <2>2, IndFromKept
<1> QED
  BY <1>1, <1>3, <1>4, <1>5, <1>6, <1>7 DEF Next

\* The inductive invariant holds initially.
LEMMA InitInd == ASSUME Init PROVE Ind
<1> USE DEF Init
<1>1. TypeOK
  <2>1. NoAttemptRow \in AttemptRow
    BY DEF NoAttemptRow, AttemptRow, Errors
  <2>2. NoJobRow \in JobRow
    BY BoundAssumption DEF NoJobRow, JobRow
  <2>3. IdleRequest \in Request
    BY DEF IdleRequest, Request
  <2> QED
    BY <2>1, <2>2, <2>3, IdleRunTyped, TimeAssumption DEF TypeOK
<1>2. RowsAgree
  BY DEF RowsAgree, NoAttemptRow, NoJobRow
<1>3. RequestsAgree /\ RunsAgree
  BY DEF RequestsAgree, RequestAgrees, RunsAgree, RunAgrees, IdleRequest, IdleRun
<1> QED
  BY <1>1, <1>2, <1>3 DEF Ind

\* The inductive invariant holds of every reachable state.
THEOREM IndInvariant == Spec => []Ind
<1>1. Init => Ind
  BY InitInd
<1>2. Ind /\ [Next]_vars => Ind'
  BY StepLemma
<1> QED
  BY <1>1, <1>2, PTL DEF Spec

\* Every row, request and run keeps its type; in particular no job is claimed more than MaxClaims times.
THEOREM TypeCorrect == Spec => []TypeOK
<1>1. Ind => TypeOK
  BY DEF Ind
<1> QED
  BY <1>1, IndInvariant, PTL

\* An owner never has two active attempts: the database index makes the
\* second of two interleaved submissions fail.
THEOREM OneActive == Spec => []OneActivePerOwner
<1>1. Init => OneActivePerOwner
  BY DEF Init, OneActivePerOwner, NoAttemptRow, IsActive, Active
<1>2. Ind /\ OneActivePerOwner /\ [Next]_vars => OneActivePerOwner'
  <2> SUFFICES ASSUME Ind, OneActivePerOwner, [Next]_vars,
                      NEW a \in Attempts, NEW b \in Attempts,
                      IsActive(a)', IsActive(b)', attempt'[a].owner = attempt'[b].owner
               PROVE  a = b
    BY DEF OneActivePerOwner
  <2>1. CASE Kept
    <3>1. IsActive(a) /\ IsActive(b) /\ attempt[a].owner = attempt[b].owner
      BY <2>1 DEF Kept, IsActive, Active
    <3> QED
      BY <3>1 DEF OneActivePerOwner
  <2>2. CASE Inserts
    <3>1. PICK c \in Clients : SubmitInsert(c)
      BY <2>2 DEF Inserts
    <3>2. PICK n \in Attempts :
            attempt' = [attempt EXCEPT ![n] = [NoAttemptRow EXCEPT !.status = "PREPARING",
                                  !.owner = OwnerOf[c], !.deadline = now + DeadlineTime]]
      BY <3>1 DEF SubmitInsert
    <3>3. attempt'[n].owner = OwnerOf[c] /\ \A d \in Attempts \ {n} : attempt'[d] = attempt[d]
      BY <3>2 DEF Ind, TypeOK, NoAttemptRow
    <3>4. \A d \in Attempts : IsActive(d) => attempt[d].owner # OwnerOf[c]
      BY <3>1 DEF SubmitInsert, SlotFree, HasActive
    <3> QED
      BY <3>3, <3>4 DEF OneActivePerOwner, IsActive
  <2> QED
    BY <2>1, <2>2, StepLemma
<1> QED
  BY <1>1, <1>2, IndInvariant, PTL DEF Spec

\* Only MarkGenerating calls the provider.
LEMMA DispatchLemma ==
  ASSUME Next, ~\E r \in Runs : MarkGenerating(r)
  PROVE  dispatched' = dispatched
<1>1. ASSUME NEW c \in Clients, ClientStep(c) PROVE dispatched' = dispatched
  BY <1>1 DEF ClientStep, SubmitCheck, SubmitInsert, RequestLost, PollWrite, PollRead, DeleteCheck, DeleteSession
<1>2. ASSUME NEW r \in Runs, RunStep(r) PROVE dispatched' = dispatched
  BY <1>2 DEF RunStep, Claim, LoadInputs, CheckFence, ExpireBeforeDispatch, MarkRejected, ProviderReturns,
     ProviderFails, PutResult, Commit, CommitRefused, CatchFailure, CompleteJob, CompleteRejected
<1> QED
  BY <1>1, <1>2 DEF Next, Heartbeat, DatabaseError, Crash, Reconcile, RecoverAttempts,
     RecoverLeases, Tick

\* The provider is called at most once for an attempt, however often its job is delivered.
THEOREM DispatchOnce == Spec => []AtMostOneDispatch
<1>1. Init => AtMostOneDispatch
  BY DEF Init, AtMostOneDispatch
<1>2. Ind /\ AtMostOneDispatch /\ [Next]_vars => AtMostOneDispatch'
  <2> SUFFICES ASSUME Ind, AtMostOneDispatch, [Next]_vars PROVE AtMostOneDispatch'
    OBVIOUS
  <2>1. CASE \E r \in Runs : MarkGenerating(r)
    <3>1. PICK r \in Runs : MarkGenerating(r)
      BY <2>1
    <3> DEFINE a == run[r].att
    <3>2. a \in Attempts /\ dispatched[a] = 0
      BY <3>1 DEF MarkGenerating, Ind, RowsAgree, RunsAgree, RunAgrees
    <3>3. dispatched' = [dispatched EXCEPT ![a] = @ + 1] /\ dispatched \in [Attempts -> Nat]
      BY <3>1 DEF MarkGenerating, Ind, TypeOK
    <3> QED
      BY <3>2, <3>3 DEF AtMostOneDispatch
  <2>2. CASE UNCHANGED vars \/ ~\E r \in Runs : MarkGenerating(r)
    <3>1. dispatched' = dispatched
      BY <2>2, DispatchLemma DEF vars
    <3> QED
      BY <3>1 DEF AtMostOneDispatch
  <2> QED
    BY <2>1, <2>2
<1> QED
  BY <1>1, <1>2, IndInvariant, PTL DEF Spec

\* Only DeleteSession tombstones a session.
LEMMA OnlyDelete ==
  ASSUME Next, ~\E c \in Clients : DeleteSession(c)
  PROVE  deleted' = deleted
<1>1. ASSUME NEW c \in Clients, ClientStep(c) PROVE deleted' = deleted
  BY <1>1 DEF ClientStep, SubmitCheck, SubmitInsert, RequestLost, PollWrite, PollRead, DeleteCheck
<1>2. ASSUME NEW r \in Runs, RunStep(r) PROVE deleted' = deleted
  BY <1>2 DEF RunStep, Claim, LoadInputs, CheckFence, ExpireBeforeDispatch, MarkGenerating, MarkRejected,
     ProviderReturns, ProviderFails, PutResult, Commit, CommitRefused, CatchFailure, CompleteJob, CompleteRejected
<1> QED
  BY <1>1, <1>2 DEF Next, Heartbeat, DatabaseError, Crash, Reconcile, RecoverAttempts, RecoverLeases, Tick

\* A tombstoned session stays one whose attempt is over.
THEOREM DeletedStaysQuiet == Spec => []DeletedIsQuiet
<1>1. Init => DeletedIsQuiet
  BY DEF Init, DeletedIsQuiet
<1>2. Ind /\ DeletedIsQuiet /\ [Next]_vars => DeletedIsQuiet'
  <2> SUFFICES ASSUME Ind, DeletedIsQuiet, [Next]_vars, NEW a \in Attempts, a \in deleted'
               PROVE  attempt'[a].status \in Terminal
    BY StepLemma DEF DeletedIsQuiet, Ind, TypeOK
  <2>1. attempt'[a] \in AttemptRow
    BY StepLemma DEF Ind, TypeOK
  <2>2. CASE \E c \in Clients : DeleteSession(c) /\ client[c].att = a
    <3>1. attempt[a].status \in Terminal /\ attempt' = attempt
      BY <2>2 DEF DeleteSession, Ind, TypeOK, AttemptRow, RequestsAgree, RequestAgrees, IsActive
    <3> QED
      BY <3>1
  <2>3. CASE a \in deleted
    <3>1. attempt[a].status \notin Active /\ attempt[a].status # "NONE"
      BY <2>3 DEF DeletedIsQuiet, Terminal, Active
    <3>2. CASE Kept
      BY <3>1, <3>2, <2>1 DEF Kept, AttemptRow
    <3>3. CASE Inserts
      <4>1. attempt'[a] = attempt[a]
        BY <3>1, <3>3 DEF Inserts, SubmitInsert, NextId, Ind, TypeOK
      <4> QED
        BY <3>1, <4>1, <2>1 DEF AttemptRow
    <3> QED
      BY <3>2, <3>3, StepLemma
  <2>4. a \in deleted \/ \E c \in Clients : DeleteSession(c) /\ client[c].att = a
    <3>1. CASE \E c \in Clients : DeleteSession(c)
      BY <3>1 DEF DeleteSession
    <3>2. CASE UNCHANGED vars \/ ~\E c \in Clients : DeleteSession(c)
      BY <3>2, OnlyDelete DEF vars
    <3> QED
      BY <3>1, <3>2
  <2> QED
    BY <2>2, <2>3, <2>4
<1> QED
  BY <1>1, <1>2, IndInvariant, PTL DEF Spec
============================================================================
