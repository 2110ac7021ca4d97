----------------------------- MODULE Submission ----------------------------
(***************************************************************************)
(* One account's room draft, edited in several tabs under optimistic       *)
(* revisions, and its submission under an idempotency key.  Drafts and     *)
(* receipts of different accounts never meet, so one account is modelled.  *)
(*                                                                         *)
(* No transaction spans the statements of a request here, except the one   *)
(* that accepts an attempt, so the requests interleave between any two.    *)
(***************************************************************************)
EXTENDS Integers

CONSTANTS
  Tabs,         \* browser tabs, each with one request in flight
  Choices,      \* selections of surfaces and products
  Images,       \* room images
  Keys,         \* idempotency keys
  MaxAttempts,  \* bound: attempts that may be accepted
  MaxRevision,  \* bound: the revision at which a draft is left alone
  MaxLives,     \* bound: how often the draft's row is inserted
  Nothing       \* no choice, no image, no key

ASSUME NothingAssumption == Nothing \notin Choices \cup Images \cup Keys
ASSUME BoundAssumption == MaxAttempts \in Nat /\ MaxRevision \in Nat /\ MaxLives \in Nat

VARIABLES
  draft,     \* the RoomDraft row
  lives,     \* history: how often the row has been inserted
  tab,       \* what each tab last learned of the draft
  req,       \* the request of each tab
  attempt,   \* GenerationAttempt rows, as far as they hold the active slot
  receipt,   \* IdempotencyReceipt rows: the attempt of each key
  answered   \* history: the attempts answered to each key

vars == <<draft, lives, tab, req, attempt, receipt, answered>>

Attempts == 1 .. MaxAttempts

Content == [choice : Choices \cup {Nothing}, image : Images \cup {Nothing}]
Empty == [choice |-> Nothing, image |-> Nothing]

\* fresh: expiresAt has not passed.  Revision 0 stands for no row.
DraftRow == [revision : Nat, content : Content, fresh : BOOLEAN]
NoDraft == [revision |-> 0, content |-> Empty, fresh |-> FALSE]

\* life tells apart the rows that were inserted one after the other.
View == [revision : Nat, content : Content, life : Nat]

Request == [pc : {"idle", "upsert", "update", "reread", "draft", "accept", "receipt"},
            content : Content, key : Keys \cup {Nothing}, att : Attempts \cup {0}]
IdleRequest == [pc |-> "idle", content |-> Empty, key |-> Nothing, att |-> 0]

TypeOK ==
  /\ draft \in DraftRow
  /\ lives \in Nat
  /\ tab \in [Tabs -> View]
  /\ req \in [Tabs -> Request]
  /\ attempt \in [Attempts -> {"NONE", "ACTIVE", "SETTLED"}]
  /\ receipt \in [Keys -> Attempts \cup {0}]
  /\ answered \in [Keys -> SUBSET Attempts]

\* DraftService.get: without a row, or with an expired one, a virtual draft.
Shown == IF draft.fresh THEN [revision |-> draft.revision, content |-> draft.content, life |-> lives]
         ELSE [revision |-> 0, content |-> Empty, life |-> lives]

Init ==
  /\ draft = NoDraft
  /\ lives = 0
  /\ tab = [t \in Tabs |-> [revision |-> 0, content |-> Empty, life |-> 0]]
  /\ req = [t \in Tabs |-> IdleRequest]
  /\ attempt = [a \in Attempts |-> "NONE"]
  /\ receipt = [k \in Keys |-> 0]
  /\ answered = [k \in Keys |-> {}]

Begin(t, request) == req[t].pc = "idle" /\ req' = [req EXCEPT ![t] = request]
Ends(t) == req' = [req EXCEPT ![t] = IdleRequest]

draftVars == <<draft, lives, tab>>
submitVars == <<attempt, receipt, answered>>

----------------------------------------------------------------------------
(* Faulty variants of the definitions below, never part of Next: put in    *)
(* place of the original, each must make TLC refute a property.            *)

SlotFreeUnchecked == TRUE         \* neither the check nor the unique index of the slot

RevisionStillAny(t) == draft.revision # 0   \* the update names only the owner

UpdateInPlace(t) ==               \* without the increment of the revision
  /\ req[t].pc = "update"
  /\ draft.revision # 0 /\ draft.revision = tab[t].revision
  /\ draft' = [draft EXCEPT !.content = req[t].content, !.fresh = TRUE]
  /\ req' = [req EXCEPT ![t].pc = "reread"]
  /\ UNCHANGED <<lives, tab, submitVars>>

WriteReceiptAnyway(t) ==          \* no unique index on the key
  LET k == req[t].key IN
  /\ req[t].pc = "receipt"
  /\ receipt' = [receipt EXCEPT ![k] = req[t].att]
  /\ answered' = [answered EXCEPT ![k] = @ \cup {req[t].att}]
  /\ Ends(t)
  /\ UNCHANGED <<draftVars, attempt>>

----------------------------------------------------------------------------
(* The draft.                                                              *)

Load(t) ==
  /\ req[t].pc = "idle"
  /\ tab' = [tab EXCEPT ![t] = Shown]
  /\ UNCHANGED <<draft, lives, req, submitVars>>

\* A change of the selections in what the tab shows, with the revision it knows.
SaveStart(t) ==
  /\ \E c \in Choices \cup {Nothing} :
       Begin(t, [IdleRequest EXCEPT !.pc = "upsert",
                                    !.content = [tab[t].content EXCEPT !.choice = c]])
  /\ UNCHANGED <<draftVars, submitVars>>

\* attachRoomAsset reads the selections again, and saves them with the image.
AttachStart(t) ==
  /\ \E i \in Images :
       Begin(t, [IdleRequest EXCEPT !.pc = "upsert",
                                    !.content = [choice |-> Shown.content.choice, image |-> i]])
  /\ UNCHANGED <<draftVars, submitVars>>

\* The upsert inserts the row at revision 1 or leaves it as it is; the row's
\* revision is then compared with the caller's.
Upsert(t) ==
  LET row == IF draft.revision = 0 THEN [revision |-> 1, content |-> req[t].content, fresh |-> TRUE]
             ELSE draft
  IN
  /\ req[t].pc = "upsert"
  /\ draft.revision = 0 => lives < MaxLives
  /\ draft' = row
  /\ lives' = IF draft.revision = 0 THEN lives + 1 ELSE lives
  /\ IF row.revision = tab[t].revision THEN req' = [req EXCEPT ![t].pc = "update"] ELSE Ends(t)
  /\ UNCHANGED <<tab, submitVars>>

RevisionStill(t) == draft.revision # 0 /\ draft.revision = tab[t].revision

Update(t) ==
  /\ req[t].pc = "update"
  /\ RevisionStill(t)
  /\ draft.revision < MaxRevision
  /\ draft' = [revision |-> draft.revision + 1, content |-> req[t].content, fresh |-> TRUE]
  /\ req' = [req EXCEPT ![t].pc = "reread"]
  /\ UNCHANGED <<lives, tab, submitVars>>

UpdateConflict(t) ==
  /\ req[t].pc = "update"
  /\ ~RevisionStill(t)
  /\ Ends(t)
  /\ UNCHANGED <<draftVars, submitVars>>

Reread(t) ==
  /\ req[t].pc = "reread"
  /\ tab' = [tab EXCEPT ![t] = Shown]
  /\ Ends(t)
  /\ UNCHANGED <<draft, lives, submitVars>>

Discard(t) ==
  /\ req[t].pc = "idle"
  /\ draft' = NoDraft
  /\ UNCHANGED <<lives, tab, req, submitVars>>

DraftExpires ==
  /\ draft.fresh
  /\ draft' = [draft EXCEPT !.fresh = FALSE]
  /\ UNCHANGED <<lives, tab, req, submitVars>>

----------------------------------------------------------------------------
(* Its submission.                                                         *)

\* A key with a receipt is answered from it, whatever the request asks for.
SubmitReplayed(t, k) ==
  /\ req[t].pc = "idle" /\ receipt[k] # 0
  /\ answered' = [answered EXCEPT ![k] = @ \cup {receipt[k]}]
  /\ UNCHANGED <<draftVars, req, attempt, receipt>>

SubmitStart(t, k) ==
  /\ receipt[k] = 0
  /\ Begin(t, [IdleRequest EXCEPT !.pc = "draft", !.key = k])
  /\ UNCHANGED <<draftVars, submitVars>>

\* Without a key, and for the retry of an earlier attempt, there is no receipt.
SubmitUnkeyed(t) ==
  /\ Begin(t, [IdleRequest EXCEPT !.pc = "draft"])
  /\ UNCHANGED <<draftVars, submitVars>>

\* A draft without a choice or an image is refused.
SubmitDraft(t) ==
  LET c == Shown.content IN
  /\ req[t].pc = "draft"
  /\ IF c.choice # Nothing /\ c.image # Nothing
     THEN req' = [req EXCEPT ![t].pc = "accept", ![t].content = c]
     ELSE Ends(t)
  /\ UNCHANGED <<draftVars, submitVars>>

NextAttempt(a) == attempt[a] = "NONE" /\ \A b \in Attempts : b < a => attempt[b] # "NONE"
SlotFree == \A a \in Attempts : attempt[a] # "ACTIVE"

Accept(t) ==
  /\ req[t].pc = "accept" /\ SlotFree
  /\ \E a \in Attempts :
       /\ NextAttempt(a)
       /\ attempt' = [attempt EXCEPT ![a] = "ACTIVE"]
       /\ IF req[t].key = Nothing THEN Ends(t)
          ELSE req' = [req EXCEPT ![t].pc = "receipt", ![t].att = a]
  /\ UNCHANGED <<draftVars, receipt, answered>>

\* Completed or failed, as module AttemptLifecycle has it.
Settle(a) ==
  /\ attempt[a] = "ACTIVE"
  /\ attempt' = [attempt EXCEPT ![a] = "SETTLED"]
  /\ UNCHANGED <<draftVars, req, receipt, answered>>

WriteReceipt(t) ==
  LET k == req[t].key IN
  /\ req[t].pc = "receipt" /\ receipt[k] = 0
  /\ receipt' = [receipt EXCEPT ![k] = req[t].att]
  /\ answered' = [answered EXCEPT ![k] = @ \cup {req[t].att}]
  /\ Ends(t)
  /\ UNCHANGED <<draftVars, attempt>>

\* The key is taken: the answer is the attempt of the receipt that is there.
ReceiptTaken(t) ==
  LET k == req[t].key IN
  /\ req[t].pc = "receipt" /\ receipt[k] # 0
  /\ answered' = [answered EXCEPT ![k] = @ \cup {receipt[k]}]
  /\ Ends(t)
  /\ UNCHANGED <<draftVars, attempt, receipt>>

----------------------------------------------------------------------------

\* A refusal, a database error, or the end of the API or of the tab's patience.
RequestLost(t) ==
  /\ req[t].pc # "idle"
  /\ Ends(t)
  /\ UNCHANGED <<draftVars, submitVars>>

DraftStep(t) ==
  \/ Load(t) \/ SaveStart(t) \/ AttachStart(t) \/ Discard(t)
  \/ Upsert(t) \/ Update(t) \/ UpdateConflict(t) \/ Reread(t)

SubmitStep(t) ==
  \/ \E k \in Keys : SubmitReplayed(t, k) \/ SubmitStart(t, k)
  \/ SubmitUnkeyed(t) \/ SubmitDraft(t) \/ Accept(t) \/ WriteReceipt(t) \/ ReceiptTaken(t)

Next ==
  \/ DraftExpires \/ \E a \in Attempts : Settle(a)
  \/ \E t \in Tabs : DraftStep(t) \/ SubmitStep(t) \/ RequestLost(t)

Spec == Init /\ [][Next]_vars
----------------------------------------------------------------------------
(* Safety.                                                                 *)

\* However often a submission is repeated, and whichever of its attempts is
\* first to get a receipt, every answer to one key names the same attempt, and
\* no other key's.
AnswersAgree ==
  \A j, k \in Keys : \A a \in answered[j], b \in answered[k] : a = b <=> j = k

\* A save that goes through overwrites only what its tab has seen, as long as
\* nobody discards the draft in between.
NoUnseenOverwrite ==
  [][\A t \in Tabs : Update(t) /\ tab[t].life = lives => tab[t].content = draft.content]_vars

Keyed == INSTANCE KeyedSubmission WITH slot <- attempt, answers <- answered

\* However submissions of one account interleave, repeat and break off, with
\* keys and without: their attempts take the slot one after the other, and each
\* answer names an attempt that has been accepted, the one its key has always had.
ImplementsKeyed == Keyed!Spec

(* The inductive invariant.                                                *)

\* What a tab knows of the present row is true or of an earlier revision.
TabAgrees(t) ==
  LET v == tab[t] IN
  /\ v.life <= lives
  /\ v.revision # 0 /\ v.life = lives /\ draft.revision # 0 =>
       /\ v.revision <= draft.revision
       /\ v.revision = draft.revision => v.content = draft.content

\* An accepted attempt waits for one receipt, or has one, or has lost it.
Awaits(t, a) == req[t].pc = "receipt" /\ req[t].att = a

RequestAgrees(t) ==
  /\ req[t].pc = "update" => tab[t].revision # 0
  /\ req[t].pc = "receipt" =>
       /\ req[t].key \in Keys /\ req[t].att \in Attempts
       /\ attempt[req[t].att] # "NONE"
       /\ \A k \in Keys : receipt[k] # req[t].att
       /\ \A o \in Tabs : Awaits(o, req[t].att) => o = t

KeyAgrees(k) ==
  /\ answered[k] \subseteq {receipt[k]}
  /\ receipt[k] # 0 =>
       /\ attempt[receipt[k]] # "NONE"
       /\ \A j \in Keys : receipt[j] = receipt[k] => j = k

DraftAgrees == draft.revision = 0 => ~draft.fresh

\* What the properties rest on: the views of the tabs, the requests of
\* draft.service.ts and identity.service.ts that are under way, and the receipts
\* agree with the rows at every statement.
Ind ==
  /\ TypeOK /\ DraftAgrees
  /\ \A t \in Tabs : TabAgrees(t) /\ RequestAgrees(t)
  /\ \A k \in Keys : KeyAgrees(k)
============================================================================
