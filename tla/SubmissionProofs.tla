-------------------------- MODULE SubmissionProofs -------------------------
(***************************************************************************)
(* The invariant of module Submission, and what follows from it, the       *)
(* refinement of KeyedSubmission included, for every number of tabs,       *)
(* choices, images, keys and attempts, and every bound.                    *)
(***************************************************************************)
EXTENDS Submission, TLAPS

\* The request of a save carries what it is to save.
LEMMA SaveRequest ==
  ASSUME NEW c \in Content
  PROVE  [IdleRequest EXCEPT !.pc = "upsert", !.content = c] \in Request
  BY DEF Request, IdleRequest

LEMMA ShownIsView ==
  ASSUME TypeOK
  PROVE  Shown \in View /\ Shown.life = lives
         /\ (Shown.revision # 0 => Shown.revision = draft.revision /\ Shown.content = draft.content)
  BY DEF TypeOK, Shown, View, DraftRow, Content, Empty

\* A request that begins, waits or ends at one tab leaves the requests of the others alone.
LEMMA OneRequest ==
  ASSUME TypeOK, NEW t \in Tabs, NEW r, req' = [req EXCEPT ![t] = r]
  PROVE  req'[t] = r /\ \A o \in Tabs \ {t} : req'[o] = req[o]
  BY DEF TypeOK

LEMMA InitInd == Init => Ind
<1> SUFFICES ASSUME Init PROVE Ind
  OBVIOUS
<1>1. TypeOK
  BY BoundAssumption DEF Init, TypeOK, NoDraft, DraftRow, Empty, Content, View, Request, IdleRequest
<1>2. DraftAgrees
  BY DEF Init, NoDraft, DraftAgrees
<1>3. ASSUME NEW t \in Tabs PROVE TabAgrees(t) /\ RequestAgrees(t)
  <2>1. tab[t].revision = 0 /\ tab[t].life = lives /\ lives = 0
    BY DEF Init
  <2>2. req[t].pc = "idle"
    BY DEF Init, IdleRequest
  <2> QED
    BY <2>1, <2>2 DEF TabAgrees, RequestAgrees
<1>4. \A k \in Keys : KeyAgrees(k)
  BY DEF Init, KeyAgrees
<1> QED
  BY <1>1, <1>2, <1>3, <1>4 DEF Ind

LEMMA StepType == Ind /\ [Next]_vars => TypeOK'
<1> SUFFICES ASSUME TypeOK, \A t \in Tabs : RequestAgrees(t), [Next]_vars PROVE TypeOK'
  BY DEF Ind
<1> USE DEF TypeOK
<1>i. IdleRequest \in Request
  BY DEF Request, IdleRequest, Content, Empty
<1>1. CASE DraftExpires
  <2>1. draft' \in DraftRow
    BY <1>1 DEF DraftExpires, DraftRow
  <2> QED
    BY <1>1, <2>1 DEF DraftExpires, submitVars
<1>2. ASSUME NEW a \in Attempts, Settle(a) PROVE TypeOK'
  BY <1>2 DEF Settle, draftVars
<1>3. ASSUME NEW t \in Tabs, DraftStep(t) PROVE TypeOK'
  <2>1. CASE Load(t)
    BY <2>1, ShownIsView DEF Load, submitVars
  <2>2. CASE SaveStart(t)
    <3>1. PICK c \in Choices \cup {Nothing} :
            Begin(t, [IdleRequest EXCEPT !.pc = "upsert",
                                         !.content = [tab[t].content EXCEPT !.choice = c]])
      BY <2>2 DEF SaveStart
    <3>2. [tab[t].content EXCEPT !.choice = c] \in Content
      BY DEF View, Content
    <3>3. req' \in [Tabs -> Request]
      BY <3>1, <3>2, SaveRequest DEF Begin
    <3> QED
      BY <2>2, <3>3 DEF SaveStart, draftVars, submitVars
  <2>3. CASE AttachStart(t)
    <3>1. PICK i \in Images :
            Begin(t, [IdleRequest EXCEPT !.pc = "upsert",
                                         !.content = [choice |-> Shown.content.choice, image |-> i]])
      BY <2>3 DEF AttachStart
    <3>2. [choice |-> Shown.content.choice, image |-> i] \in Content
      BY ShownIsView DEF View, Content
    <3>3. req' \in [Tabs -> Request]
      BY <3>1, <3>2, SaveRequest DEF Begin
    <3> QED
      BY <2>3, <3>3 DEF AttachStart, draftVars, submitVars
  <2>4. CASE Discard(t)
    BY <2>4 DEF Discard, submitVars, NoDraft, DraftRow, Content, Empty
  <2>5. CASE Upsert(t)
    <3>1. draft' \in DraftRow /\ lives' \in Nat
      BY <2>5 DEF Upsert, DraftRow, Request
    <3>2. req' \in [Tabs -> Request]
      <4>1. [req[t] EXCEPT !.pc = "update"] \in Request
        BY DEF Request
      <4> QED
        BY <2>5, <4>1, <1>i DEF Upsert, Ends
    <3> QED
      BY <2>5, <3>1, <3>2 DEF Upsert, submitVars
  <2>6. CASE Update(t)
    <3>1. draft' \in DraftRow
      BY <2>6 DEF Update, DraftRow, Request
    <3>2. [req[t] EXCEPT !.pc = "reread"] \in Request
      BY DEF Request
    <3> QED
      BY <2>6, <3>1, <3>2 DEF Update, submitVars
  <2>7. CASE UpdateConflict(t)
    BY <2>7, <1>i DEF UpdateConflict, Ends, draftVars, submitVars
  <2>8. CASE Reread(t)
    BY <2>8, <1>i, ShownIsView DEF Reread, Ends, submitVars
  <2> QED
    BY <1>3, <2>1, <2>2, <2>3, <2>4, <2>5, <2>6, <2>7, <2>8 DEF DraftStep
<1>4. ASSUME NEW t \in Tabs, SubmitStep(t) PROVE TypeOK'
  <2>1. ASSUME NEW k \in Keys, SubmitReplayed(t, k) PROVE TypeOK'
    BY <2>1 DEF SubmitReplayed, draftVars
  <2>2. ASSUME NEW k \in Keys, SubmitStart(t, k) PROVE TypeOK'
    <3>1. [IdleRequest EXCEPT !.pc = "draft", !.key = k] \in Request
      BY DEF Request, IdleRequest, Content, Empty
    <3> QED
      BY <2>2, <3>1 DEF SubmitStart, Begin, draftVars, submitVars
  <2>3. CASE SubmitUnkeyed(t)
    <3>1. [IdleRequest EXCEPT !.pc = "draft"] \in Request
      BY DEF Request, IdleRequest, Content, Empty
    <3> QED
      BY <2>3, <3>1 DEF SubmitUnkeyed, Begin, draftVars, submitVars
  <2>4. CASE SubmitDraft(t)
    <3> DEFINE r == [req[t] EXCEPT !.pc = "accept", !.content = Shown.content]
    <3>0. Shown.content \in Content
      BY ShownIsView DEF View
    <3>1. r \in Request
      BY <3>0 DEF Request
    <3>2. req' = [req EXCEPT ![t] = r] \/ Ends(t)
      BY <2>4 DEF SubmitDraft
    <3> HIDE DEF r
    <3> QED
      BY <2>4, <3>1, <3>2, <1>i DEF SubmitDraft, Ends, draftVars, submitVars
  <2>5. CASE Accept(t)
    <3>1. PICK a \in Attempts :
            /\ attempt' = [attempt EXCEPT ![a] = "ACTIVE"]
            /\ IF req[t].key = Nothing THEN Ends(t)
               ELSE req' = [req EXCEPT ![t].pc = "receipt", ![t].att = a]
      BY <2>5 DEF Accept
    <3> DEFINE r == [req[t] EXCEPT !.pc = "receipt", !.att = a]
    <3>2. r \in Request
      BY DEF Request
    <3>3. req' = [req EXCEPT ![t] = r] \/ Ends(t)
      BY <3>1
    <3> HIDE DEF r
    <3>4. req' \in [Tabs -> Request]
      BY <3>2, <3>3, <1>i DEF Ends
    <3> QED
      BY <2>5, <3>1, <3>4 DEF Accept, draftVars
  <2>6. CASE WriteReceipt(t)
    <3> DEFINE k == req[t].key
    <3>1. k \in Keys /\ req[t].att \in Attempts
      BY <2>6 DEF WriteReceipt, RequestAgrees
    <3>2. receipt' = [receipt EXCEPT ![k] = req[t].att]
          /\ answered' = [answered EXCEPT ![k] = @ \cup {req[t].att}]
      BY <2>6 DEF WriteReceipt
    <3> HIDE DEF k
    <3>3. receipt' \in [Keys -> Attempts \cup {0}] /\ answered' \in [Keys -> SUBSET Attempts]
      BY <3>1, <3>2
    <3> QED
      BY <2>6, <3>3, <1>i DEF WriteReceipt, Ends, draftVars
  <2>7. CASE ReceiptTaken(t)
    <3> DEFINE k == req[t].key
    <3>1. k \in Keys /\ receipt[k] # 0
      BY <2>7 DEF ReceiptTaken, RequestAgrees
    <3>2. answered' = [answered EXCEPT ![k] = @ \cup {receipt[k]}]
      BY <2>7 DEF ReceiptTaken
    <3> HIDE DEF k
    <3>3. answered' \in [Keys -> SUBSET Attempts]
      BY <3>1, <3>2
    <3> QED
      BY <2>7, <3>3, <1>i DEF ReceiptTaken, Ends, draftVars
  <2> QED
    BY <1>4, <2>1, <2>2, <2>3, <2>4, <2>5, <2>6, <2>7 DEF SubmitStep
<1>5. ASSUME NEW t \in Tabs, RequestLost(t) PROVE TypeOK'
  BY <1>5, <1>i DEF RequestLost, Ends, draftVars, submitVars
<1>6. CASE UNCHANGED vars
  BY <1>6 DEF vars
<1> QED
  BY <1>1, <1>2, <1>3, <1>4, <1>5, <1>6 DEF Next

\* Only saves and loads touch the draft and what the tabs know of it.
LEMMA DraftSteps ==
  ASSUME [Next]_vars
  PROVE  \/ UNCHANGED <<draft, lives, tab>>
         \/ DraftExpires
         \/ \E t \in Tabs : Load(t) \/ Upsert(t) \/ Update(t) \/ Reread(t) \/ Discard(t)
  BY DEF Next, DraftStep, SubmitStep, vars, draftVars, Settle, SaveStart, AttachStart, UpdateConflict,
         SubmitReplayed, SubmitStart, SubmitUnkeyed, SubmitDraft, Accept, WriteReceipt, ReceiptTaken, RequestLost

LEMMA StepDraft == Ind /\ [Next]_vars => DraftAgrees'
<1> SUFFICES ASSUME TypeOK, DraftAgrees, [Next]_vars PROVE DraftAgrees'
  BY DEF Ind
<1> USE DEF DraftAgrees
<1>1. CASE UNCHANGED <<draft, lives, tab>>
  BY <1>1
<1>2. CASE DraftExpires
  BY <1>2 DEF DraftExpires, TypeOK, DraftRow
<1>3. ASSUME NEW t \in Tabs, Load(t) \/ Reread(t) PROVE DraftAgrees'
  BY <1>3 DEF Load, Reread
<1>4. ASSUME NEW t \in Tabs, Discard(t) PROVE DraftAgrees'
  BY <1>4 DEF Discard, NoDraft
<1>5. ASSUME NEW t \in Tabs, Upsert(t) PROVE DraftAgrees'
  <2>1. draft'.revision # 0
    BY <1>5 DEF Upsert
  <2> QED
    BY <2>1
<1>6. ASSUME NEW t \in Tabs, Update(t) PROVE DraftAgrees'
  <2>1. draft'.revision = draft.revision + 1
    BY <1>6 DEF Update
  <2> QED
    BY <2>1 DEF TypeOK, DraftRow
<1> QED
  BY <1>1, <1>2, <1>3, <1>4, <1>5, <1>6, DraftSteps

LEMMA StepTab ==
  ASSUME Ind, [Next]_vars, NEW t \in Tabs
  PROVE  TabAgrees(t)'
<1>i. TypeOK /\ TabAgrees(t)
  BY DEF Ind
<1>t. draft.revision \in Nat /\ lives \in Nat /\ tab[t].revision \in Nat /\ tab[t].life \in Nat
  BY <1>i DEF TypeOK, DraftRow, View
<1> USE DEF TabAgrees
<1>1. CASE UNCHANGED <<draft, lives, tab>>
  BY <1>1, <1>i
<1>2. CASE DraftExpires
  <2>1. draft'.revision = draft.revision /\ draft'.content = draft.content
    BY <1>2, <1>i DEF DraftExpires, TypeOK, DraftRow
  <2> QED
    BY <1>2, <2>1, <1>i DEF DraftExpires
<1>3. ASSUME NEW o \in Tabs, Load(o) \/ Reread(o) PROVE TabAgrees(t)'
  <2>1. draft' = draft /\ lives' = lives /\ tab' = [tab EXCEPT ![o] = Shown]
    BY <1>3 DEF Load, Reread
  <2>2. CASE o = t
    <3>1. tab'[t] = Shown
      BY <2>1, <2>2, <1>i DEF TypeOK
    <3>2. tab'[t].life = lives
          /\ (tab'[t].revision # 0 => tab'[t].revision = draft.revision /\ tab'[t].content = draft.content)
      BY <3>1, <1>i, ShownIsView
    <3> QED
      BY <2>1, <3>2, <1>t
  <2>3. CASE o # t
    BY <2>1, <2>3, <1>i DEF TypeOK
  <2> QED
    BY <2>2, <2>3
<1>4. ASSUME NEW o \in Tabs, Discard(o) PROVE TabAgrees(t)'
  <2>1. draft'.revision = 0 /\ lives' = lives /\ tab' = tab
    BY <1>4 DEF Discard, NoDraft
  <2> QED
    BY <2>1, <1>i
<1>5. ASSUME NEW o \in Tabs, Upsert(o) PROVE TabAgrees(t)'
  <2>1. CASE draft.revision = 0
    <3>1. lives' = lives + 1 /\ tab' = tab
      BY <1>5, <2>1 DEF Upsert
    <3> QED
      BY <3>1, <1>i, <1>t
  <2>2. CASE draft.revision # 0
    <3>1. draft' = draft /\ lives' = lives /\ tab' = tab
      BY <1>5, <2>2 DEF Upsert
    <3> QED
      BY <3>1, <1>i
  <2> QED
    BY <2>1, <2>2
<1>6. ASSUME NEW o \in Tabs, Update(o) PROVE TabAgrees(t)'
  <2>1. draft.revision # 0 /\ draft'.revision = draft.revision + 1 /\ lives' = lives /\ tab' = tab
    BY <1>6 DEF Update, RevisionStill
  <2> QED
    BY <2>1, <1>i, <1>t
<1> QED
  BY <1>1, <1>2, <1>3, <1>4, <1>5, <1>6, DraftSteps

\* What a step leaves of the receipts, the attempts and the requests that wait.
Undisturbed ==
  /\ receipt' = receipt
  /\ \A a \in Attempts : attempt[a] # "NONE" => attempt'[a] # "NONE"
  /\ \A o \in Tabs : req'[o].pc = "receipt" => req'[o] = req[o]
  /\ \A k \in Keys : answered'[k] \in {answered[k], answered[k] \cup {receipt[k]}}

\* Only an acceptance makes a request wait for a receipt, and only the writing
\* of one changes the receipts.
LEMMA ReceiptSteps ==
  ASSUME TypeOK, [Next]_vars
  PROVE  Undisturbed \/ \E t \in Tabs : Accept(t) \/ WriteReceipt(t)
<1> USE DEF TypeOK, Undisturbed
<1>1. CASE UNCHANGED <<req, attempt, receipt, answered>>
  BY <1>1
<1>2. ASSUME NEW t \in Tabs, NEW r, r.pc # "receipt", req' = [req EXCEPT ![t] = r], UNCHANGED submitVars
      PROVE  Undisturbed
  BY <1>2 DEF submitVars
<1>3. ASSUME NEW t \in Tabs, Ends(t), UNCHANGED submitVars PROVE Undisturbed
  BY <1>2, <1>3 DEF Ends, IdleRequest
<1>4. ASSUME NEW a \in Attempts, Settle(a) PROVE Undisturbed
  BY <1>4 DEF Settle
<1>5. ASSUME NEW t \in Tabs, DraftStep(t) PROVE Undisturbed
  <2>1. CASE Load(t) \/ Discard(t)
    BY <2>1, <1>1 DEF Load, Discard, submitVars
  <2>2. CASE SaveStart(t)
    BY <2>2, <1>2 DEF SaveStart, Begin, IdleRequest
  <2>3. CASE AttachStart(t)
    BY <2>3, <1>2 DEF AttachStart, Begin, IdleRequest
  <2>4. CASE Upsert(t)
    <3> DEFINE r == [req[t] EXCEPT !.pc = "update"]
    <3>1. r.pc # "receipt"
      BY DEF Request
    <3>2. UNCHANGED submitVars /\ (Ends(t) \/ req' = [req EXCEPT ![t] = r])
      BY <2>4 DEF Upsert
    <3> HIDE DEF r
    <3> QED
      BY <3>1, <3>2, <1>2, <1>3
  <2>5. CASE Update(t)
    <3> DEFINE r == [req[t] EXCEPT !.pc = "reread"]
    <3>1. r.pc # "receipt"
      BY DEF Request
    <3>2. UNCHANGED submitVars /\ req' = [req EXCEPT ![t] = r]
      BY <2>5 DEF Update
    <3> HIDE DEF r
    <3> QED
      BY <3>1, <3>2, <1>2
  <2>6. CASE UpdateConflict(t) \/ Reread(t)
    BY <2>6, <1>3 DEF UpdateConflict, Reread
  <2> QED
    BY <1>5, <2>1, <2>2, <2>3, <2>4, <2>5, <2>6 DEF DraftStep
<1>6. ASSUME NEW t \in Tabs, SubmitStep(t), ~Accept(t), ~WriteReceipt(t) PROVE Undisturbed
  <2>1. ASSUME NEW k \in Keys, SubmitReplayed(t, k) PROVE Undisturbed
    BY <2>1 DEF SubmitReplayed
  <2>2. ASSUME NEW k \in Keys, SubmitStart(t, k) PROVE Undisturbed
    BY <2>2, <1>2 DEF SubmitStart, Begin, IdleRequest
  <2>3. CASE SubmitUnkeyed(t)
    BY <2>3, <1>2 DEF SubmitUnkeyed, Begin, IdleRequest
  <2>4. CASE SubmitDraft(t)
    <3> DEFINE r == [req[t] EXCEPT !.pc = "accept", !.content = Shown.content]
    <3>1. r.pc # "receipt"
      BY DEF Request
    <3>2. UNCHANGED submitVars /\ (Ends(t) \/ req' = [req EXCEPT ![t] = r])
      BY <2>4 DEF SubmitDraft
    <3> HIDE DEF r
    <3> QED
      BY <3>1, <3>2, <1>2, <1>3
  <2>5. CASE ReceiptTaken(t)
    BY <2>5 DEF ReceiptTaken, Ends, IdleRequest
  <2> QED
    BY <1>6, <2>1, <2>2, <2>3, <2>4, <2>5 DEF SubmitStep
<1>7. ASSUME NEW t \in Tabs, RequestLost(t) PROVE Undisturbed
  BY <1>7, <1>3 DEF RequestLost
<1>8. DraftExpires \/ UNCHANGED vars => Undisturbed
  BY <1>1 DEF DraftExpires, submitVars, vars
<1> QED
  BY <1>4, <1>5, <1>6, <1>7, <1>8 DEF Next

\* A request that goes on to its update knows a revision, whoever takes the step.
LEMMA StepUpdating ==
  ASSUME TypeOK, [Next]_vars, NEW t \in Tabs, req[t].pc = "update" => tab[t].revision # 0
  PROVE  req'[t].pc = "update" => tab'[t].revision # 0
<1> USE DEF TypeOK
<1>1. ASSUME tab' = tab, req'[t].pc = "update" => req[t].pc = "update"
      PROVE  req'[t].pc = "update" => tab'[t].revision # 0
  BY <1>1
<1>2. ASSUME NEW o \in Tabs, NEW r, r.pc # "update", req' = [req EXCEPT ![o] = r]
      PROVE  req'[t].pc = "update" => req[t].pc = "update"
  BY <1>2
<1>3. ASSUME NEW o \in Tabs, Ends(o)
      PROVE  req'[t].pc = "update" => req[t].pc = "update"
  BY <1>2, <1>3 DEF Ends, IdleRequest
<1>4. ASSUME NEW o \in Tabs, Load(o) PROVE req'[t].pc = "update" => tab'[t].revision # 0
  BY <1>4 DEF Load
<1>5. ASSUME NEW o \in Tabs, Reread(o) PROVE req'[t].pc = "update" => tab'[t].revision # 0
  <2>1. CASE o = t
    BY <1>5, <2>1 DEF Reread, Ends, IdleRequest
  <2>2. CASE o # t
    BY <1>5, <2>2 DEF Reread, Ends
  <2> QED
    BY <2>1, <2>2
<1>6. ASSUME NEW o \in Tabs, Upsert(o) PROVE req'[t].pc = "update" => tab'[t].revision # 0
  <2>1. tab' = tab /\ (Ends(o) \/ (tab[o].revision # 0 /\ req' = [req EXCEPT ![o].pc = "update"]))
    BY <1>6 DEF Upsert
  <2>2. CASE o = t
    BY <2>1, <2>2, <1>3, <1>1
  <2>3. CASE o # t
    BY <2>1, <2>3, <1>1 DEF Ends
  <2> QED
    BY <2>2, <2>3
<1>7. ASSUME NEW o \in Tabs, Update(o) PROVE req'[t].pc = "update" => tab'[t].revision # 0
  <2> DEFINE r == [req[o] EXCEPT !.pc = "reread"]
  <2>1. r.pc # "update"
    BY DEF Request
  <2>2. tab' = tab /\ req' = [req EXCEPT ![o] = r]
    BY <1>7 DEF Update
  <2> HIDE DEF r
  <2> QED
    BY <2>1, <2>2, <1>1, <1>2
<1>8. ASSUME NEW o \in Tabs, SaveStart(o) \/ AttachStart(o) \/ UpdateConflict(o) \/ Discard(o) \/ RequestLost(o)
      PROVE  req'[t].pc = "update" => tab'[t].revision # 0
  <2>1. tab' = tab
    BY <1>8 DEF SaveStart, AttachStart, UpdateConflict, Discard, RequestLost, draftVars
  <2>2. req'[t].pc = "update" => req[t].pc = "update"
    BY <1>8, <1>2, <1>3 DEF SaveStart, AttachStart, Begin, IdleRequest, UpdateConflict, Discard, RequestLost
  <2> QED
    BY <2>1, <2>2, <1>1
<1>9. ASSUME NEW o \in Tabs, SubmitStep(o) PROVE req'[t].pc = "update" => tab'[t].revision # 0
  <2>1. tab' = tab
    BY <1>9 DEF SubmitStep, SubmitReplayed, SubmitStart, SubmitUnkeyed, SubmitDraft, Accept, WriteReceipt,
                ReceiptTaken, draftVars
  <2>2. CASE SubmitDraft(o)
    <3> DEFINE r == [req[o] EXCEPT !.pc = "accept", !.content = Shown.content]
    <3>1. r.pc # "update"
      BY DEF Request
    <3>2. Ends(o) \/ req' = [req EXCEPT ![o] = r]
      BY <2>2 DEF SubmitDraft
    <3> HIDE DEF r
    <3> QED
      BY <3>1, <3>2, <2>1, <1>1, <1>2, <1>3
  <2>3. CASE Accept(o)
    <3>1. PICK a \in Attempts :
            IF req[o].key = Nothing THEN Ends(o)
            ELSE req' = [req EXCEPT ![o].pc = "receipt", ![o].att = a]
      BY <2>3 DEF Accept
    <3> DEFINE r == [req[o] EXCEPT !.pc = "receipt", !.att = a]
    <3>2. r.pc # "update"
      BY DEF Request
    <3>3. Ends(o) \/ req' = [req EXCEPT ![o] = r]
      BY <3>1
    <3> HIDE DEF r
    <3> QED
      BY <3>2, <3>3, <2>1, <1>1, <1>2, <1>3
  <2>4. CASE ~SubmitDraft(o) /\ ~Accept(o)
    <3>1. req'[t].pc = "update" => req[t].pc = "update"
      BY <2>4, <1>9, <1>2, <1>3 DEF SubmitStep, SubmitReplayed, SubmitStart, SubmitUnkeyed, Begin, IdleRequest,
                                     WriteReceipt, ReceiptTaken
    <3> QED
      BY <3>1, <2>1, <1>1
  <2> QED
    BY <2>2, <2>3, <2>4
<1>10. CASE DraftExpires \/ (\E a \in Attempts : Settle(a)) \/ UNCHANGED vars
  BY <1>10, <1>1 DEF DraftExpires, Settle, draftVars, vars
<1> QED
  BY <1>4, <1>5, <1>6, <1>7, <1>8, <1>9, <1>10 DEF Next, DraftStep

\* What a request that waits for its receipt relies on is disturbed by no step:
\* its attempt is new when it is accepted, and no other request writes it down.
LEMMA StepRequest ==
  ASSUME Ind, [Next]_vars, NEW t \in Tabs
  PROVE  RequestAgrees(t)'
<1>i. /\ TypeOK
      /\ \A o \in Tabs : RequestAgrees(o)
      /\ \A k \in Keys : KeyAgrees(k)
  BY DEF Ind
<1>u. req'[t].pc = "update" => tab'[t].revision # 0
  BY <1>i, StepUpdating DEF RequestAgrees
<1>1. CASE Undisturbed
  BY <1>1, <1>i, <1>u DEF Undisturbed, RequestAgrees, Awaits
<1>2. ASSUME NEW o \in Tabs, Accept(o) PROVE RequestAgrees(t)'
  <2>1. PICK a \in Attempts :
          /\ attempt[a] = "NONE"
          /\ attempt' = [attempt EXCEPT ![a] = "ACTIVE"]
          /\ IF req[o].key = Nothing THEN Ends(o)
             ELSE req' = [req EXCEPT ![o].pc = "receipt", ![o].att = a]
    BY <1>2 DEF Accept, NextAttempt
  <2>2. /\ \A b \in Attempts : attempt[b] # "NONE" => attempt'[b] # "NONE"
        /\ attempt'[a] # "NONE"
        /\ receipt' = receipt
    BY <1>2, <2>1, <1>i DEF Accept, TypeOK
  <2>3. \A k \in Keys : receipt[k] # a
    BY <2>1, <1>i DEF KeyAgrees, Attempts
  <2>4. \A w \in Tabs : ~Awaits(w, a)
    BY <2>1, <1>i DEF Awaits, RequestAgrees
  <2>5. \A w \in Tabs : w # o => req'[w] = req[w]
    BY <2>1, <1>i DEF Ends, TypeOK
  <2>6. \/ req'[o].pc = "idle"
        \/ req'[o].pc = "receipt" /\ req'[o].att = a /\ req'[o].key \in Keys
    BY <2>1, <1>i DEF Ends, IdleRequest, TypeOK, Request
  <2> QED
    BY <2>2, <2>3, <2>4, <2>5, <2>6, <1>i, <1>u DEF RequestAgrees, Awaits
<1>3. ASSUME NEW o \in Tabs, WriteReceipt(o) PROVE RequestAgrees(t)'
  <2>1. req'[o].pc = "idle" /\ \A w \in Tabs : w # o => req'[w] = req[w]
    BY <1>3, <1>i DEF WriteReceipt, Ends, IdleRequest, TypeOK
  <2>2. \A k \in Keys : receipt'[k] \in {receipt[k], req[o].att}
    BY <1>3, <1>i DEF WriteReceipt, TypeOK
  <2>3. attempt' = attempt /\ req[o].pc = "receipt"
    BY <1>3 DEF WriteReceipt
  <2>4. ASSUME req[t].pc = "receipt", t # o PROVE req[t].att # req[o].att
    BY <2>3, <2>4, <1>i DEF RequestAgrees, Awaits
  <2> QED
    BY <2>1, <2>2, <2>3, <2>4, <1>i, <1>u DEF RequestAgrees, Awaits
<1> QED
  BY <1>1, <1>2, <1>3, <1>i, ReceiptSteps

\* The answers to a key come from its receipt, which is written once.
LEMMA StepKey ==
  ASSUME Ind, [Next]_vars, NEW k \in Keys
  PROVE  KeyAgrees(k)'
<1>i. /\ TypeOK
      /\ \A o \in Tabs : RequestAgrees(o)
      /\ \A j \in Keys : KeyAgrees(j)
  BY DEF Ind
<1>0. \A j \in Keys : receipt[j] # 0 => receipt[j] \in Attempts
  BY <1>i DEF TypeOK
<1>1. CASE Undisturbed
  BY <1>1, <1>0, <1>i DEF Undisturbed, KeyAgrees
<1>2. ASSUME NEW o \in Tabs, Accept(o) PROVE KeyAgrees(k)'
  <2>1. receipt' = receipt /\ answered' = answered
    BY <1>2 DEF Accept
  <2>2. \A b \in Attempts : attempt[b] # "NONE" => attempt'[b] # "NONE"
    BY <1>2, <1>i DEF Accept, TypeOK
  <2> QED
    BY <2>1, <2>2, <1>0, <1>i DEF KeyAgrees
<1>3. ASSUME NEW o \in Tabs, WriteReceipt(o) PROVE KeyAgrees(k)'
  <2>1. PICK n \in Keys : n = req[o].key
    BY <1>3, <1>i DEF WriteReceipt, RequestAgrees
  <2>2. PICK a \in Attempts : a = req[o].att
    BY <1>3, <1>i DEF WriteReceipt, RequestAgrees
  <2>3. /\ receipt[n] = 0 /\ attempt[a] # "NONE" /\ attempt' = attempt
        /\ receipt' = [receipt EXCEPT ![n] = a]
        /\ answered' = [answered EXCEPT ![n] = @ \cup {a}]
    BY <1>3, <1>i, <2>1, <2>2 DEF WriteReceipt, RequestAgrees
  <2>4. \A j \in Keys : receipt[j] # a
    BY <1>3, <1>i, <2>2 DEF WriteReceipt, RequestAgrees
  <2>5. answered[n] = {}
    <3>1. answered[n] \subseteq {0} /\ answered[n] \subseteq Attempts
      BY <1>i, <2>3 DEF KeyAgrees, TypeOK
    <3>2. 0 \notin Attempts
      BY DEF Attempts
    <3> QED
      BY <3>1, <3>2
  <2>6. /\ receipt'[n] = a /\ answered'[n] = {a}
        /\ \A j \in Keys : j # n => receipt'[j] = receipt[j] /\ answered'[j] = answered[j]
    BY <2>3, <2>5, <1>i DEF TypeOK
  <2> QED
    BY <2>3, <2>4, <2>6, <1>i DEF KeyAgrees
<1> QED
  BY <1>1, <1>2, <1>3, <1>i, ReceiptSteps

LEMMA StepInd == Ind /\ [Next]_vars => Ind'
<1> SUFFICES ASSUME Ind, [Next]_vars PROVE Ind'
  OBVIOUS
<1> QED
  BY StepType, StepDraft, StepTab, StepRequest, StepKey DEF Ind

(* The invariant of every behaviour. *)
THEOREM SubmissionInvariant == Spec => []Ind
<1> QED
  BY InitInd, StepInd, PTL DEF Spec

(* Every answer to one idempotency key names one attempt, and the answers to
   two keys name two, however the repeated requests of submitAttemptIdempotent
   interleave or break off. *)
THEOREM AnswersNeverDiffer == Spec => []AnswersAgree
<1>1. Ind => AnswersAgree
  <2> SUFFICES ASSUME Ind, NEW j \in Keys, NEW k \in Keys, NEW a \in answered[j], NEW b \in answered[k]
               PROVE  a = b <=> j = k
    BY DEF AnswersAgree
  <2>1. KeyAgrees(j) /\ KeyAgrees(k)
    BY DEF Ind
  <2>2. a = receipt[j] /\ b = receipt[k]
    BY <2>1 DEF KeyAgrees
  <2>3. a # 0
    BY DEF Ind, TypeOK, Attempts
  <2> QED
    BY <2>1, <2>2, <2>3 DEF KeyAgrees
<1> QED
  BY <1>1, SubmissionInvariant, PTL

(* The conditional update of DraftService.save loses no edit that its caller
   has not seen, unless the draft was discarded in between. *)
THEOREM NothingUnseenLost == Spec => NoUnseenOverwrite
<1>1. ASSUME Ind, NEW t \in Tabs, Update(t), tab[t].life = lives
      PROVE  tab[t].content = draft.content
  BY <1>1 DEF Ind, TabAgrees, Update, RevisionStill
<1>2. Ind /\ [Next]_vars => [\A t \in Tabs : Update(t) /\ tab[t].life = lives => tab[t].content = draft.content]_vars
  BY <1>1
<1> QED
  BY <1>2, SubmissionInvariant, PTL DEF Spec, NoUnseenOverwrite

----------------------------------------------------------------------------
(* The refinement of KeyedSubmission.                                      *)

LEMMA AcceptTakesSlot == ASSUME NEW t \in Tabs, Accept(t) PROVE Keyed!Next
<1>1. PICK a \in Attempts : NextAttempt(a) /\ attempt' = [attempt EXCEPT ![a] = "ACTIVE"]
  BY DEF Accept
<1>2. Keyed!Slots!Accept(a)
  BY <1>1 DEF Accept, NextAttempt, SlotFree, Keyed!Slots!Accept
<1> QED
  BY <1>2 DEF Accept, Keyed!Next, Keyed!Slots!Next

LEMMA SettleLeavesSlot == ASSUME TypeOK, NEW a \in Attempts, Settle(a) PROVE Keyed!Next
<1>1. PICK S : S = {a}
  OBVIOUS
<1>2. attempt' = [b \in Attempts |-> IF b \in S THEN "SETTLED" ELSE attempt[b]]
  BY <1>1 DEF Settle, TypeOK
<1>3. S \in SUBSET Attempts /\ Keyed!Slots!Settle(S)
  BY <1>1, <1>2 DEF Settle, Keyed!Slots!Settle
<1> QED
  BY <1>3 DEF Settle, Keyed!Next, Keyed!Slots!Next

\* What is answered from a receipt, an old one or a new one.
LEMMA AnswerAgrees ==
  ASSUME TypeOK, \A j \in Keys : KeyAgrees(j), NEW k \in Keys, NEW a \in Attempts, attempt[a] # "NONE",
         receipt[k] \in {0, a}, \A j \in Keys \ {k} : receipt[j] # a,
         answered' = [answered EXCEPT ![k] = @ \cup {a}], UNCHANGED attempt
  PROVE  Keyed!Next
<1>1. 0 \notin Attempts
  BY DEF Attempts
<1>2. \A j \in Keys : answered[j] \subseteq {receipt[j]} /\ answered[j] \subseteq Attempts
  BY DEF KeyAgrees, TypeOK
<1>3. answered[k] \subseteq {a} /\ \A j \in Keys \ {k} : a \notin answered[j]
  BY <1>1, <1>2
<1>4. answered[k] \cup {a} = {a}
  BY <1>3
<1>5. answered' = [answered EXCEPT ![k] = {a}]
  BY <1>4
<1>6. Keyed!Answer(k, a)
  BY <1>3, <1>5 DEF Keyed!Answer
<1> QED
  BY <1>6 DEF Keyed!Next

LEMMA StepIsKeyed == ASSUME Ind, [Next]_vars PROVE [Keyed!Next]_(Keyed!vars)
<1>1. TypeOK /\ (\A t \in Tabs : RequestAgrees(t)) /\ (\A k \in Keys : KeyAgrees(k))
  BY DEF Ind
<1>2. ASSUME NEW t \in Tabs, NEW k \in Keys, SubmitReplayed(t, k) PROVE Keyed!Next
  <2>1. receipt[k] \in Attempts /\ attempt[receipt[k]] # "NONE" /\ \A j \in Keys \ {k} : receipt[j] # receipt[k]
    BY <1>1, <1>2 DEF SubmitReplayed, TypeOK, KeyAgrees
  <2> QED
    BY <1>1, <1>2, <2>1, AnswerAgrees DEF SubmitReplayed
<1>3. ASSUME NEW t \in Tabs, WriteReceipt(t) PROVE Keyed!Next
  <2>1. /\ req[t].key \in Keys /\ req[t].att \in Attempts /\ attempt[req[t].att] # "NONE"
        /\ \A j \in Keys : receipt[j] # req[t].att
    BY <1>1, <1>3 DEF WriteReceipt, RequestAgrees
  <2>2. /\ receipt[req[t].key] = 0 /\ UNCHANGED attempt
        /\ answered' = [answered EXCEPT ![req[t].key] = @ \cup {req[t].att}]
    BY <1>3 DEF WriteReceipt
  <2> QED
    BY <1>1, <2>1, <2>2, AnswerAgrees
<1>4. ASSUME NEW t \in Tabs, ReceiptTaken(t) PROVE Keyed!Next
  <2> DEFINE k == req[t].key
  <2>1. k \in Keys
    BY <1>1, <1>4 DEF ReceiptTaken, RequestAgrees
  <2>2. receipt[k] \in Attempts /\ attempt[receipt[k]] # "NONE" /\ \A j \in Keys \ {k} : receipt[j] # receipt[k]
    BY <1>1, <1>4, <2>1 DEF ReceiptTaken, TypeOK, KeyAgrees
  <2>3. answered' = [answered EXCEPT ![k] = @ \cup {receipt[k]}] /\ UNCHANGED attempt
    BY <1>4 DEF ReceiptTaken, draftVars
  <2> HIDE DEF k
  <2> QED
    BY <1>1, <2>1, <2>2, <2>3, AnswerAgrees
<1>5. ASSUME NEW t \in Tabs, DraftStep(t) \/ SubmitStep(t) \/ RequestLost(t)
      PROVE  \/ UNCHANGED <<attempt, answered>>
             \/ Accept(t) \/ WriteReceipt(t) \/ ReceiptTaken(t)
             \/ \E k \in Keys : SubmitReplayed(t, k)
  BY <1>5 DEF DraftStep, SubmitStep, RequestLost, Load, SaveStart, AttachStart, Discard, Upsert, Update,
              UpdateConflict, Reread, SubmitStart, SubmitUnkeyed, SubmitDraft, submitVars
<1>6. CASE DraftExpires \/ UNCHANGED vars
  BY <1>6 DEF DraftExpires, submitVars, vars, Keyed!vars
<1>7. CASE \E a \in Attempts : Settle(a)
  BY <1>1, <1>7, SettleLeavesSlot
<1>8. CASE \E t \in Tabs : DraftStep(t) \/ SubmitStep(t) \/ RequestLost(t)
  BY <1>2, <1>3, <1>4, <1>5, <1>8, AcceptTakesSlot DEF Keyed!vars
<1> QED
  BY <1>6, <1>7, <1>8 DEF Next

(* Requests that repeat, race and break off are, seen from the attempts and
   the answers, requests that each take one step. *)
THEOREM SubmissionImplementsKeyed == Spec => ImplementsKeyed
<1>1. Init => Keyed!Init
  BY DEF Init, Keyed!Init, Keyed!Slots!Init
<1>2. Ind /\ [Next]_vars => [Keyed!Next]_(Keyed!vars)
  BY StepIsKeyed
<1> QED
  BY <1>1, <1>2, SubmissionInvariant, PTL DEF Spec, ImplementsKeyed, Keyed!Spec
============================================================================
