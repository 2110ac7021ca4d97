----------------------------- MODULE ResetMail -----------------------------
(***************************************************************************)
(* The outbox that carries reset links to their owners, composed with the  *)
(* links of Credentials: the API queues a mail for a link it has issued,   *)
(* and the worker claims, sends and settles it while the link may be used, *)
(* superseded or expire at any time.                                       *)
(*                                                                         *)
(* mail[l] is the EmailOutbox row of link l (resetId is unique).  A call   *)
(* of ResetEmailOutboxService.processOne is sender[w]; the timer starts    *)
(* one every five seconds whether or not the last has returned.            *)
(***************************************************************************)
EXTENDS Credentials

CONSTANTS Senders   \* slots for concurrent processOne() calls

VARIABLES
  mail,     \* EmailOutbox rows
  sender,   \* processOne() calls in progress
  handed    \* history: how often the link's mail was handed to the transport

mailVars == <<mail, sender, handed>>
allVars == <<vars, mailVars>>

Pending == {"QUEUED", "SENDING"}
Settled == {"SENT", "EXPIRED"}

\* due: nextAttemptAt has passed.
MailRow == [state : {"NONE"} \cup Pending \cup Settled, payload : BOOLEAN, attempts : Nat, due : BOOLEAN]

\* last: what markFailed read, that this was the second attempt.
Sender == [pc : {"idle", "found", "sending", "sent", "failed", "requeue"}, link : Links \cup {0}, last : BOOLEAN]

NoMail == [state |-> "NONE", payload |-> FALSE, attempts |-> 0, due |-> FALSE]
IdleSender == [pc |-> "idle", link |-> 0, last |-> FALSE]

MailTypeOK ==
  /\ mail \in [Links -> MailRow]
  /\ sender \in [Senders -> Sender]
  /\ handed \in [Links -> Nat]

InitMail ==
  /\ Init
  /\ mail = [l \in Links |-> NoMail]
  /\ sender = [w \in Senders |-> IdleSender]
  /\ handed = [l \in Links |-> 0]

GoesTo(w, pc) == sender' = [sender EXCEPT ![w].pc = pc]
Returns(w) == sender' = [sender EXCEPT ![w] = IdleSender]
Settles(l, state) == mail' = [mail EXCEPT ![l].state = state, ![l].payload = FALSE]

----------------------------------------------------------------------------
(* Faulty variants of the definitions below, never part of NextMail: put   *)
(* in place of the original, each must make TLC refute a property.         *)

OverdueQueued(l) ==              \* the clean-up overlooks mails in SENDING
  mail[l].state = "QUEUED" /\ link[l].state # "LIVE"

MarkFailedReadLate(w) ==         \* one attempt more before the mail is given up
  /\ sender[w].pc = "failed"
  /\ sender' = [sender EXCEPT ![w].pc = "requeue", ![w].last = mail[sender[w].link].attempts > 2]
  /\ UNCHANGED <<mail, handed>>

ClaimAny(w) ==                   \* the update names only the id
  LET l == sender[w].link IN
  /\ sender[w].pc = "found"
  /\ mail' = [mail EXCEPT ![l].state = "SENDING", ![l].attempts = @ + 1]
  /\ GoesTo(w, "sending")
  /\ UNCHANGED handed

RequeueWithoutPayload(w) ==      \* the payload is dropped after the first attempt
  LET l == sender[w].link IN
  /\ sender[w].pc = "requeue"
  /\ mail' = [mail EXCEPT ![l].state = IF sender[w].last THEN "EXPIRED" ELSE "QUEUED",
                          ![l].payload = FALSE, ![l].due = FALSE]
  /\ Returns(w)
  /\ UNCHANGED handed

----------------------------------------------------------------------------

\* IdentityService.requestPasswordReset queues the mail once the link is
\* committed; an API that dies in between never does.
QueueResetEmail(l) ==
  /\ link[l].state # "NONE" /\ mail[l].state = "NONE"
  /\ mail' = [mail EXCEPT ![l] = [state |-> "QUEUED", payload |-> TRUE, attempts |-> 0, due |-> TRUE]]
  /\ UNCHANGED <<sender, handed>>

\* nextAttemptAt passes, 60s after a failed attempt.
BecomesDue(l) ==
  /\ mail[l].state = "QUEUED" /\ ~mail[l].due
  /\ mail' = [mail EXCEPT ![l].due = TRUE]
  /\ UNCHANGED <<sender, handed>>

Overdue(l) == mail[l].state \in Pending /\ link[l].state # "LIVE"

Sendable(l) ==
  /\ mail[l].state = "QUEUED" /\ mail[l].due
  /\ mail[l].attempts < 2 /\ link[l].state = "LIVE"

\* claimNext first expires the mails of links that are no longer of use, then
\* reads the oldest that is ready; one without payload ends the call.
ClaimFind(w) ==
  /\ sender[w].pc = "idle"
  /\ mail' = [l \in Links |-> IF Overdue(l) THEN [mail[l] EXCEPT !.state = "EXPIRED", !.payload = FALSE]
                              ELSE mail[l]]
  /\ \/ (\A l \in Links : ~Sendable(l)) /\ UNCHANGED sender
     \/ \E l \in Links :
          /\ Sendable(l)
          /\ IF mail[l].payload THEN sender' = [sender EXCEPT ![w] = [pc |-> "found", link |-> l, last |-> FALSE]]
             ELSE UNCHANGED sender
  /\ UNCHANGED handed

\* The claiming update names the id and the status QUEUED.
ClaimUpdate(w) ==
  LET l == sender[w].link IN
  /\ sender[w].pc = "found"
  /\ mail[l].state = "QUEUED"
  /\ mail' = [mail EXCEPT ![l].state = "SENDING", ![l].attempts = @ + 1]
  /\ GoesTo(w, "sending")
  /\ UNCHANGED handed

ClaimLost(w) ==
  /\ sender[w].pc = "found"
  /\ mail[sender[w].link].state # "QUEUED"
  /\ Returns(w)
  /\ UNCHANGED <<mail, handed>>

Send(w) ==
  /\ sender[w].pc = "sending"
  /\ handed' = [handed EXCEPT ![sender[w].link] = @ + 1]
  /\ GoesTo(w, "sent")
  /\ UNCHANGED mail

\* The transport refuses the mail, or markSent throws after it was handed over.
SendFails(w) ==
  /\ sender[w].pc \in {"sending", "sent"}
  /\ GoesTo(w, "failed")
  /\ UNCHANGED <<mail, handed>>

MarkSent(w) ==
  /\ sender[w].pc = "sent"
  /\ Settles(sender[w].link, "SENT")
  /\ Returns(w)
  /\ UNCHANGED handed

\* markFailed: a read of attemptCount, then an update that names only the id.
MarkFailedRead(w) ==
  /\ sender[w].pc = "failed"
  /\ sender' = [sender EXCEPT ![w].pc = "requeue", ![w].last = mail[sender[w].link].attempts >= 2]
  /\ UNCHANGED <<mail, handed>>

MarkFailedWrite(w) ==
  LET l == sender[w].link IN
  /\ sender[w].pc = "requeue"
  /\ IF sender[w].last THEN Settles(l, "EXPIRED")
     ELSE mail' = [mail EXCEPT ![l].state = "QUEUED", ![l].due = FALSE]
  /\ Returns(w)
  /\ UNCHANGED handed

\* The worker dies, or a statement outside the try block throws.
SenderDies(w) ==
  /\ sender[w].pc # "idle"
  /\ Returns(w)
  /\ UNCHANGED <<mail, handed>>

SenderStep(w) ==
  \/ ClaimFind(w) \/ ClaimUpdate(w) \/ ClaimLost(w) \/ Send(w) \/ SendFails(w) \/ MarkSent(w)
  \/ MarkFailedRead(w) \/ MarkFailedWrite(w)

NextMail ==
  \/ Next /\ UNCHANGED mailVars
  \/ /\ \/ \E l \in Links : QueueResetEmail(l) \/ BecomesDue(l)
        \/ \E w \in Senders : SenderStep(w) \/ SenderDies(w)
     /\ UNCHANGED vars

\* The timer keeps calling processOne, calls go on, and thirty minutes pass.
SpecMail ==
  /\ InitMail /\ [][NextMail]_allVars
  /\ \A w \in Senders : WF_allVars(SenderStep(w) /\ UNCHANGED vars)
  /\ \A l \in Links : WF_allVars(LinkExpires(l) /\ UNCHANGED mailVars)
----------------------------------------------------------------------------

\* A link is mailed at most twice, however many calls race and die.
MailedAtMostTwice == \A l \in Links : handed[l] <= 2

\* A queued mail whose link is of use still has its payload: without it the
\* mail would end every call that finds it and hold up the queue behind it.
QueuedHasPayload ==
  \A l \in Links : mail[l].state = "QUEUED" /\ link[l].state = "LIVE" => mail[l].payload

\* Every queued mail is sent or expires, also one whose sender died.
MailSettles == \A l \in Links : mail[l].state \in Pending ~> mail[l].state \in Settled

\* What a link's owner meets of the mail and its link.
UseOf == [l \in Links |-> CASE link[l].state = "NONE" -> "NEW" [] link[l].state = "LIVE" -> "USABLE"
                           [] OTHER -> "OVER"]
MailOf == [l \in Links |-> IF mail[l].state \in Pending THEN "PENDING" ELSE mail[l].state]
TriesOf == [l \in Links |-> mail[l].attempts]

Delivery == INSTANCE MailDelivery WITH use <- UseOf, mail <- MailOf, tries <- TriesOf

\* Calls of processOne that race, fail and die at any statement keep the promise
\* of one delivery: two tries at most, no success without a hand-over, and no
\* giving up before the second try while the link is of use.
ImplementsDelivery == Delivery!Spec
----------------------------------------------------------------------------
(* The inductive invariant.                                                *)

Owns(w, l) == sender[w].link = l /\ sender[w].pc \in {"sending", "sent", "failed", "requeue"}

\* A hand-over is counted by the claim before it.
MailAgrees(l) ==
  LET m == mail[l] IN
  /\ m.state # "NONE" => link[l].state # "NONE"
  /\ m.attempts <= 2 /\ handed[l] <= m.attempts
  /\ m.state = "NONE" => m.attempts = 0
  /\ m.state = "SENT" => handed[l] > 0
  /\ m.state = "QUEUED" => m.attempts < 2
  /\ m.state \in Pending /\ link[l].state = "LIVE" => m.payload
  /\ m.state \in Settled => ~m.payload

\* The call that owns a mail is alone with it, apart from the clean-up.
SenderAgrees(w) ==
  LET l == sender[w].link IN
  /\ sender[w].pc # "idle" => l \in Links /\ mail[l].state # "NONE"
  /\ Owns(w, l) =>
       /\ mail[l].state \in {"SENDING", "EXPIRED"}
       /\ link[l].state = "LIVE" => mail[l].state = "SENDING"
       /\ \A v \in Senders : Owns(v, l) => v = w
  /\ sender[w].pc = "sending" => handed[l] < mail[l].attempts
  /\ sender[w].pc = "sent" => handed[l] > 0
  /\ sender[w].pc = "requeue" => (sender[w].last <=> mail[l].attempts = 2)

MailInd ==
  /\ Ind /\ MailTypeOK
  /\ \A l \in Links : MailAgrees(l)
  /\ \A w \in Senders : SenderAgrees(w)
============================================================================
