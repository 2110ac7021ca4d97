-------------------------- MODULE ResetMailProofs --------------------------
(***************************************************************************)
(* Theorems about ResetMail: the inductive invariant MailInd, and from it  *)
(* that a link is mailed at most twice, that a queued mail of a link that  *)
(* is of use still has its payload, and that the outbox implements         *)
(* MailDelivery.                                                           *)
(***************************************************************************)
EXTENDS ResetMail, CredentialsProofs

----------------------------------------------------------------------------

LEMMA IdleSenderType == IdleSender \in Sender
  BY DEF IdleSender, Sender

\* A step of Credentials leaves the outbox consistent with the links.
LEMMA CredentialsStep ==
  ASSUME MailInd, [Next]_vars, UNCHANGED mailVars
  PROVE  MailInd'
<1>1. Ind' /\ Persists
  BY Step DEF MailInd
<1>2. MailTypeOK'
  BY DEF MailInd, MailTypeOK, mailVars
<1>3. \A l \in Links : link[l].state # "NONE" => link'[l].state # "NONE" /\ (link'[l].state = "LIVE" => link[l].state = "LIVE")
  BY <1>1 DEF Persists
<1>4. ASSUME NEW l \in Links PROVE MailAgrees(l)'
  <2>1. MailAgrees(l) /\ mail'[l] = mail[l] /\ handed'[l] = handed[l]
    BY DEF MailInd, mailVars
  <2>2. mail[l] \in MailRow
    BY DEF MailInd, MailTypeOK
  <2> QED BY <1>3, <2>1, <2>2 DEF MailAgrees, MailRow, Pending, Settled
<1>5. ASSUME NEW w \in Senders PROVE SenderAgrees(w)'
  <2>1. SenderAgrees(w) /\ mail' = mail /\ handed' = handed /\ sender' = sender
    BY DEF MailInd, mailVars
  <2>2. sender[w] \in Sender
    BY DEF MailInd, MailTypeOK
  <2>3. sender[w].pc # "idle" => link[sender[w].link].state # "NONE"
    BY <2>1 DEF SenderAgrees, MailInd, MailAgrees
  <2> QED BY <1>3, <2>1, <2>2, <2>3 DEF SenderAgrees, Owns
<1> QED BY <1>1, <1>2, <1>4, <1>5 DEF MailInd

\* A step of the outbox preserves MailInd if it does so for each mail and call.
LEMMA OutboxStep ==
  ASSUME MailInd, UNCHANGED vars, MailTypeOK',
         \A l \in Links : MailAgrees(l)', \A w \in Senders : SenderAgrees(w)'
  PROVE  MailInd'
<1>1. Ind'
  BY Step DEF MailInd
<1> QED BY <1>1 DEF MailInd

\* A mail that does not exist has not been handed over.
LEMMA MailStartsUnsent == ASSUME MailInd, NEW l \in Links, mail[l].state = "NONE" PROVE handed[l] = 0
  BY DEF MailInd, MailTypeOK, MailAgrees, MailRow

\* A call that goes on without touching its mail.
LEMMA SenderMoves ==
  ASSUME MailInd, UNCHANGED <<vars, mail, handed>>, NEW w \in Senders, NEW q \in Sender,
         sender' = [sender EXCEPT ![w] = q],
         q.pc = "idle" \/ (Owns(w, q.link) /\ q.pc \in {"failed", "requeue"}),
         q.pc = "requeue" => (q.last <=> mail[q.link].attempts = 2)
  PROVE  MailInd'
<1>1. MailTypeOK'
  BY DEF MailInd, MailTypeOK
<1>2. ASSUME NEW l \in Links PROVE MailAgrees(l)'
  BY DEF MailInd, MailAgrees, vars
<1>3. sender'[w] = q /\ (\A v \in Senders \ {w} : sender'[v] = sender[v])
  BY DEF MailInd, MailTypeOK
<1>4. \A v \in Senders, l \in Links : Owns(v, l)' => Owns(v, l)
  BY <1>3 DEF Owns
<1>5. ASSUME NEW v \in Senders PROVE SenderAgrees(v)'
  <2>1. CASE v = w
    <3>1. CASE q.pc = "idle"
      BY <1>3, <2>1, <3>1 DEF SenderAgrees, Owns
    <3>2. CASE Owns(w, q.link) /\ q.pc \in {"failed", "requeue"}
      BY <1>3, <1>4, <2>1, <3>2 DEF MailInd, SenderAgrees, Owns, vars
    <3> QED BY <3>1, <3>2
  <2>2. CASE v # w
    BY <1>3, <1>4, <2>2 DEF MailInd, SenderAgrees, Owns, vars
  <2> QED BY <2>1, <2>2
<1> QED BY <1>1, <1>2, <1>5, OutboxStep

LEMMA QueueStep ==
  ASSUME MailInd, UNCHANGED <<vars, sender, handed>>, NEW k \in Links,
         QueueResetEmail(k) \/ BecomesDue(k)
  PROVE  MailInd'
<1>1. mail \in [Links -> MailRow] /\ handed \in [Links -> Nat]
  BY DEF MailInd, MailTypeOK
<1>2. \/ /\ mail[k].state = "NONE" /\ link[k].state # "NONE"
         /\ mail' = [mail EXCEPT ![k] = [state |-> "QUEUED", payload |-> TRUE, attempts |-> 0, due |-> TRUE]]
      \/ mail[k].state = "QUEUED" /\ mail' = [mail EXCEPT ![k].due = TRUE]
  BY DEF QueueResetEmail, BecomesDue
<1>3. mail' \in [Links -> MailRow] /\ (\A l \in Links \ {k} : mail'[l] = mail[l])
  <2>1. [state |-> "QUEUED", payload |-> TRUE, attempts |-> 0, due |-> TRUE] \in MailRow
    BY DEF MailRow, Pending
  <2>2. [mail[k] EXCEPT !.due = TRUE] \in MailRow
    BY <1>1 DEF MailRow
  <2>3. \E row \in MailRow : mail' = [mail EXCEPT ![k] = row]
    BY <1>2, <2>1, <2>2
  <2> QED BY <1>1, <2>3
<1>4. MailTypeOK'
  BY <1>3 DEF MailInd, MailTypeOK
<1>5. ASSUME NEW l \in Links PROVE MailAgrees(l)'
  <2>0. MailAgrees(l) /\ mail[l] \in MailRow /\ handed[l] \in Nat
    BY <1>1 DEF MailInd
  <2>1. CASE l # k
    BY <1>3, <2>0, <2>1 DEF MailAgrees, vars
  <2>2. CASE l = k /\ mail[k].state = "NONE"
    <3>1. mail'[l] = [state |-> "QUEUED", payload |-> TRUE, attempts |-> 0, due |-> TRUE] /\ link[l].state # "NONE"
      BY <1>1, <1>2, <2>2
    <3>2. handed'[l] = 0 /\ link' = link
      BY <2>0, <2>2, MailStartsUnsent DEF vars
    <3> QED BY <3>1, <3>2 DEF MailAgrees, Settled
  <2>3. CASE l = k /\ mail[k].state = "QUEUED"
    BY <1>1, <1>2, <2>0, <2>3 DEF MailAgrees, MailRow, Pending, Settled, vars
  <2> QED BY <1>2, <2>1, <2>2, <2>3
<1>6. ASSUME NEW w \in Senders PROVE SenderAgrees(w)'
  <2>1. SenderAgrees(w) /\ sender'[w] = sender[w] /\ link' = link
    BY DEF MailInd, vars
  <2>2. mail[k].state \in {"NONE", "QUEUED"} /\ mail'[k].state # "NONE"
    BY <1>1, <1>2 DEF MailRow
  <2>3. Owns(w, sender[w].link) => sender[w].link # k
    BY <2>1, <2>2 DEF SenderAgrees
  <2>4. sender[w].pc # "idle" => sender[w].link \in Links
    BY <2>1 DEF SenderAgrees
  <2> QED BY <1>3, <2>1, <2>2, <2>3, <2>4 DEF SenderAgrees, Owns
<1> QED BY <1>4, <1>5, <1>6, OutboxStep

\* The clean-up touches only mails of links that are no longer of use.
LEMMA ClaimFindStep ==
  ASSUME MailInd, UNCHANGED vars, NEW w \in Senders, ClaimFind(w)
  PROVE  MailInd'
<1>1. mail \in [Links -> MailRow] /\ handed' = handed /\ link' = link /\ sender \in [Senders -> Sender]
  BY DEF MailInd, MailTypeOK, ClaimFind, vars
<1>2. ASSUME NEW l \in Links
      PROVE  /\ mail'[l] \in MailRow /\ mail'[l].attempts = mail[l].attempts
             /\ \/ mail'[l] = mail[l]
                \/ /\ mail[l].state \in Pending /\ link[l].state # "LIVE"
                   /\ mail'[l].state = "EXPIRED" /\ mail'[l].payload = FALSE
  <2>1. mail'[l] = IF Overdue(l) THEN [mail[l] EXCEPT !.state = "EXPIRED", !.payload = FALSE] ELSE mail[l]
    BY DEF ClaimFind
  <2>2. mail[l] \in MailRow
    BY <1>1
  <2> QED BY <2>1, <2>2 DEF Overdue, MailRow, Settled
<1>3. \/ sender' = sender
      \/ \E l \in Links : Sendable(l) /\ sender[w].pc = "idle" /\ sender' = [sender EXCEPT ![w] = [pc |-> "found", link |-> l, last |-> FALSE]]
  BY DEF ClaimFind
<1>4. MailTypeOK'
  <2>1. mail' \in [Links -> MailRow]
    <3>1. mail' = [l \in Links |-> mail'[l]]
      BY DEF ClaimFind
    <3>2. \A l \in Links : mail'[l] \in MailRow
      BY <1>2
    <3> QED BY <3>1, <3>2
  <2>2. sender' \in [Senders -> Sender]
    <3>1. \A l \in Links : [pc |-> "found", link |-> l, last |-> FALSE] \in Sender
      BY DEF Sender
    <3> QED BY <1>1, <1>3, <3>1
  <2> QED BY <1>1, <2>1, <2>2 DEF MailInd, MailTypeOK
<1>5. ASSUME NEW l \in Links PROVE MailAgrees(l)'
  <2>1. MailAgrees(l) /\ mail[l] \in MailRow
    BY <1>1 DEF MailInd
  <2> QED BY <1>1, <1>2, <2>1 DEF MailAgrees, Pending, Settled
<1>6. \A v \in Senders, l \in Links : Owns(v, l)' <=> Owns(v, l)
  BY <1>1, <1>3 DEF Owns, Sender
<1>7. ASSUME NEW v \in Senders PROVE SenderAgrees(v)'
  <2>1. CASE sender'[v] = sender[v]
    <3>1. SenderAgrees(v) /\ (sender[v].pc # "idle" => sender[v].link \in Links)
      BY DEF MailInd, SenderAgrees
    <3> DEFINE l == sender[v].link
    <3>2. ASSUME sender[v].pc # "idle"
          PROVE  mail'[l].state # "NONE" /\ mail'[l].attempts = mail[l].attempts
      BY <1>2, <3>1, <3>2 DEF SenderAgrees
    <3>3. ASSUME Owns(v, l)
          PROVE  /\ mail'[l].state \in {"SENDING", "EXPIRED"}
                 /\ link'[l].state = "LIVE" => mail'[l].state = "SENDING"
                 /\ \A x \in Senders : Owns(x, l)' => x = v
      <4>1. l \in Links
        BY <3>1, <3>3 DEF Owns
      <4>2. /\ mail[l].state \in {"SENDING", "EXPIRED"}
            /\ link[l].state = "LIVE" => mail[l].state = "SENDING"
            /\ \A x \in Senders : Owns(x, l) => x = v
        BY <3>1, <3>3 DEF SenderAgrees
      <4>3. \A x \in Senders : Owns(x, l)' => Owns(x, l)
        BY <1>1, <1>3, <2>1 DEF Owns, Sender
      <4> QED BY <1>1, <1>2, <4>1, <4>2, <4>3
    <3>4. Owns(v, sender[v].link)' => Owns(v, l)
      BY <2>1 DEF Owns
    <3>5. sender'[v].link = l /\ sender'[v].pc = sender[v].pc /\ sender'[v].last = sender[v].last
      BY <2>1
    <3> QED BY <1>1, <3>1, <3>2, <3>3, <3>4, <3>5 DEF SenderAgrees
  <2>2. CASE sender'[v] # sender[v]
    <3>1. PICK l \in Links : Sendable(l) /\ sender'[v] = [pc |-> "found", link |-> l, last |-> FALSE]
      BY <1>1, <1>3, <2>2
    <3>2. mail'[l].state # "NONE"
      BY <1>2, <3>1 DEF Sendable
    <3> QED BY <3>1, <3>2 DEF SenderAgrees, Owns
  <2> QED BY <2>1, <2>2
<1> QED BY <1>4, <1>5, <1>7, OutboxStep

\* The call that wins a queued mail, which has no owner, becomes its owner.
LEMMA ClaimUpdateStep ==
  ASSUME MailInd, UNCHANGED vars, NEW w \in Senders, ClaimUpdate(w)
  PROVE  MailInd'
<1> DEFINE k == sender[w].link
<1>1. /\ mail \in [Links -> MailRow] /\ sender \in [Senders -> Sender] /\ handed \in [Links -> Nat]
      /\ handed' = handed /\ link' = link
  BY DEF MailInd, MailTypeOK, ClaimUpdate, vars
<1>2. k \in Links /\ sender[w].pc = "found" /\ mail[k].state = "QUEUED" /\ MailAgrees(k)
  BY DEF ClaimUpdate, MailInd, SenderAgrees
<1>3. mail[k] \in MailRow /\ mail[k].attempts \in Nat
  BY <1>1, <1>2 DEF MailRow
<1> DEFINE row == [[mail[k] EXCEPT !.state = "SENDING"] EXCEPT !.attempts = mail[k].attempts + 1]
<1>4. row \in MailRow
  <2> DEFINE m == [mail[k] EXCEPT !.state = "SENDING"]
  <2>1. m \in MailRow
    BY <1>3 DEF MailRow, Pending
  <2>2. row = [m EXCEPT !.attempts = mail[k].attempts + 1] /\ mail[k].attempts + 1 \in Nat
    BY <1>3
  <2> HIDE DEF m, row
  <2> QED BY <2>1, <2>2 DEF MailRow
<1>5. /\ row.state = "SENDING" /\ row.payload = mail[k].payload /\ row.attempts = mail[k].attempts + 1
  BY <1>3 DEF MailRow
<1>6. mail' = [mail EXCEPT ![k] = row]
  BY <1>1, <1>2 DEF ClaimUpdate, MailRow
<1>7. mail'[k] = row /\ (\A l \in Links \ {k} : mail'[l] = mail[l]) /\ mail' \in [Links -> MailRow]
  BY <1>1, <1>2, <1>4, <1>6
<1>8. /\ sender' \in [Senders -> Sender]
      /\ sender'[w].pc = "sending" /\ sender'[w].link = k
      /\ \A v \in Senders \ {w} : sender'[v] = sender[v]
  BY <1>1 DEF ClaimUpdate, GoesTo, Sender
<1> HIDE DEF row
<1>9. MailTypeOK'
  BY <1>1, <1>7, <1>8 DEF MailTypeOK
<1>10. \A v \in Senders : ~Owns(v, k)
  BY <1>2 DEF MailInd, SenderAgrees, Owns
<1>11. ASSUME NEW l \in Links PROVE MailAgrees(l)'
  <2>1. MailAgrees(l) /\ handed[l] \in Nat
    BY <1>1 DEF MailInd
  <2>2. CASE l = k
    BY <1>1, <1>2, <1>3, <1>5, <1>7, <2>1, <2>2 DEF MailAgrees, Pending, Settled
  <2>3. CASE l # k
    BY <1>1, <1>7, <2>1, <2>3 DEF MailAgrees
  <2> QED BY <2>2, <2>3
<1>12. ASSUME NEW v \in Senders PROVE SenderAgrees(v)'
  <2>1. CASE v = w
    <3>1. handed[k] < row.attempts
      BY <1>1, <1>2, <1>3, <1>5 DEF MailAgrees
    <3>2. \A x \in Senders : Owns(x, k)' => x = w
      BY <1>8, <1>10 DEF Owns
    <3> QED BY <1>1, <1>2, <1>5, <1>7, <1>8, <2>1, <3>1, <3>2 DEF SenderAgrees, Owns
  <2>2. CASE v # w
    <3>1. SenderAgrees(v) /\ sender'[v] = sender[v]
      BY <1>8, <2>2 DEF MailInd
    <3>2. \A l \in Links \ {k} : \A x \in Senders : Owns(x, l)' => Owns(x, l)
      BY <1>8 DEF Owns
    <3>3. CASE sender[v].link = k
      BY <1>5, <1>7, <1>10, <3>1, <3>3 DEF SenderAgrees, Owns
    <3>4. CASE sender[v].link # k
      <4>1. sender[v].pc # "idle" => mail'[sender[v].link] = mail[sender[v].link]
        BY <1>7, <3>1, <3>4 DEF SenderAgrees
      <4> QED BY <1>1, <3>1, <3>2, <3>4, <4>1 DEF SenderAgrees, Owns
    <3> QED BY <3>3, <3>4
  <2> QED BY <2>1, <2>2
<1> QED BY <1>9, <1>11, <1>12, OutboxStep

\* The claim has counted this hand-over.
LEMMA SendStep ==
  ASSUME MailInd, UNCHANGED vars, NEW w \in Senders, Send(w)
  PROVE  MailInd'
<1> DEFINE k == sender[w].link
<1>1. /\ mail \in [Links -> MailRow] /\ sender \in [Senders -> Sender] /\ handed \in [Links -> Nat]
      /\ mail' = mail /\ link' = link
  BY DEF MailInd, MailTypeOK, Send, vars
<1>2. k \in Links /\ sender[w].pc = "sending" /\ Owns(w, k) /\ handed[k] < mail[k].attempts
  BY DEF Send, MailInd, SenderAgrees, Owns
<1>3. handed'[k] = handed[k] + 1 /\ (\A l \in Links \ {k} : handed'[l] = handed[l]) /\ handed' \in [Links -> Nat]
  BY <1>1, <1>2 DEF Send
<1>4. /\ sender' \in [Senders -> Sender]
      /\ sender'[w].pc = "sent" /\ sender'[w].link = k
      /\ \A v \in Senders \ {w} : sender'[v] = sender[v]
  BY <1>1 DEF Send, GoesTo, Sender
<1>5. MailTypeOK'
  BY <1>1, <1>3, <1>4 DEF MailTypeOK
<1>6. \A l \in Links : MailAgrees(l)'
  <2>1. \A l \in Links : mail[l].attempts \in Nat
    BY <1>1 DEF MailRow
  <2> QED BY <1>1, <1>2, <1>3, <2>1 DEF MailInd, MailAgrees
<1>7. \A v \in Senders, l \in Links : Owns(v, l)' <=> Owns(v, l)
  BY <1>2, <1>4 DEF Owns
<1>8. ASSUME NEW v \in Senders PROVE SenderAgrees(v)'
  <2>1. CASE v = w
    <3>1. handed'[k] > 0
      BY <1>1, <1>2, <1>3
    <3> QED BY <1>1, <1>2, <1>4, <1>7, <2>1, <3>1 DEF MailInd, SenderAgrees, Owns
  <2>2. CASE v # w
    <3>1. SenderAgrees(v) /\ sender'[v] = sender[v]
      BY <1>4, <2>2 DEF MailInd
    <3>2. sender[v].pc = "sending" => sender[v].link # k /\ sender[v].link \in Links
      BY <1>2, <2>2, <3>1 DEF MailInd, SenderAgrees, Owns
    <3>3. \A l \in Links : handed[l] > 0 => handed'[l] > 0
      BY <1>1, <1>2, <1>3
    <3> QED BY <1>1, <1>3, <1>7, <3>1, <3>2, <3>3 DEF SenderAgrees, Owns
  <2> QED BY <2>1, <2>2
<1> QED BY <1>5, <1>6, <1>8, OutboxStep

\* The owner of a mail settles it or queues it again, and leaves it.
LEMMA SettleStep ==
  ASSUME MailInd, UNCHANGED vars, NEW w \in Senders, MarkSent(w) \/ MarkFailedWrite(w)
  PROVE  MailInd'
<1> DEFINE k == sender[w].link
<1>1. /\ mail \in [Links -> MailRow] /\ sender \in [Senders -> Sender] /\ handed \in [Links -> Nat]
      /\ handed' = handed /\ link' = link
  BY DEF MailInd, MailTypeOK, MarkSent, MarkFailedWrite, vars
<1>2. k \in Links /\ Owns(w, k) /\ mail[k] \in MailRow
  BY <1>1 DEF MarkSent, MarkFailedWrite, MailInd, SenderAgrees, Owns
<1>3. PICK row \in MailRow :
        /\ mail' = [mail EXCEPT ![k] = row]
        /\ row.attempts = mail[k].attempts
        /\ \/ /\ row.state \in Settled /\ row.payload = FALSE
              /\ row.state = "SENT" => handed[k] > 0
           \/ row.state = "QUEUED" /\ row.payload = mail[k].payload /\ row.attempts < 2
  <2>1. ASSUME NEW state \in Settled, Settles(k, state)
        PROVE  /\ mail' = [mail EXCEPT ![k] = [[mail[k] EXCEPT !.state = state] EXCEPT !.payload = FALSE]]
               /\ [[mail[k] EXCEPT !.state = state] EXCEPT !.payload = FALSE] \in MailRow
               /\ [[mail[k] EXCEPT !.state = state] EXCEPT !.payload = FALSE].attempts = mail[k].attempts
               /\ [[mail[k] EXCEPT !.state = state] EXCEPT !.payload = FALSE].state = state
               /\ [[mail[k] EXCEPT !.state = state] EXCEPT !.payload = FALSE].payload = FALSE
    BY <1>1, <1>2, <2>1 DEF Settles, MailRow
  <2> DEFINE again == [[mail[k] EXCEPT !.state = "QUEUED"] EXCEPT !.due = FALSE]
  <2>2. /\ again \in MailRow /\ again.attempts = mail[k].attempts
        /\ again.state = "QUEUED" /\ again.payload = mail[k].payload
    BY <1>2 DEF MailRow, Pending
  <2>3. \/ (Settles(k, "SENT") /\ handed[k] > 0) \/ Settles(k, "EXPIRED")
        \/ mail[k].attempts < 2 /\ mail' = [mail EXCEPT ![k] = again]
    <3>1. CASE MarkSent(w)
      BY <3>1 DEF MarkSent, MailInd, SenderAgrees
    <3>2. CASE MarkFailedWrite(w) /\ sender[w].last
      BY <3>2 DEF MarkFailedWrite
    <3>3. CASE MarkFailedWrite(w) /\ ~sender[w].last
      <4>0. mail[k].attempts # 2
        BY <3>3 DEF MarkFailedWrite, MailInd, SenderAgrees
      <4>1. mail[k].attempts < 2
        <5>1. mail[k].attempts <= 2 /\ mail[k].attempts \in Nat
          BY <1>2 DEF MailInd, MailAgrees, MailRow
        <5> QED BY <4>0, <5>1
      <4>2. mail' = [mail EXCEPT ![k] = again]
        BY <1>1, <1>2, <3>3 DEF MarkFailedWrite, MailRow
      <4> QED BY <4>1, <4>2
    <3> QED BY <3>1, <3>2, <3>3
  <2> HIDE DEF again
  <2>4. "SENT" \in Settled /\ "EXPIRED" \in Settled
    BY DEF Settled
  <2>5. CASE (Settles(k, "SENT") /\ handed[k] > 0) \/ Settles(k, "EXPIRED")
    <3>1. PICK state \in Settled : Settles(k, state) /\ (state = "SENT" => handed[k] > 0)
      BY <2>4, <2>5
    <3> DEFINE done == [[mail[k] EXCEPT !.state = state] EXCEPT !.payload = FALSE]
    <3>2. /\ done \in MailRow /\ mail' = [mail EXCEPT ![k] = done]
          /\ done.attempts = mail[k].attempts /\ done.state = state /\ done.payload = FALSE
      BY <2>1, <3>1
    <3> HIDE DEF done
    <3> QED BY <3>1, <3>2
  <2>6. CASE mail[k].attempts < 2 /\ mail' = [mail EXCEPT ![k] = again]
    BY <2>2, <2>6
  <2> QED BY <2>3, <2>5, <2>6
<1>4. mail'[k] = row /\ (\A l \in Links \ {k} : mail'[l] = mail[l]) /\ mail' \in [Links -> MailRow]
  BY <1>1, <1>2, <1>3
<1>5. /\ sender' \in [Senders -> Sender] /\ sender'[w] = IdleSender
      /\ \A v \in Senders \ {w} : sender'[v] = sender[v]
  BY <1>1, IdleSenderType DEF MarkSent, MarkFailedWrite, Returns
<1>6. MailTypeOK'
  BY <1>1, <1>4, <1>5 DEF MailTypeOK
<1>7. \A v \in Senders, l \in Links : Owns(v, l)' => Owns(v, l) /\ v # w
  BY <1>5 DEF Owns, IdleSender
<1>8. ASSUME NEW l \in Links PROVE MailAgrees(l)'
  <2>1. MailAgrees(l) /\ handed[l] \in Nat
    BY <1>1 DEF MailInd
  <2>2. CASE l = k
    <3>1. /\ link[k].state = "LIVE" => mail[k].state = "SENDING"
          /\ mail[k].state # "NONE"
      BY <1>2 DEF MailInd, SenderAgrees
    <3>2. row.state \in {"SENT", "EXPIRED", "QUEUED"}
      BY <1>3 DEF Settled
    <3> QED BY <1>1, <1>3, <1>4, <2>1, <2>2, <3>1, <3>2 DEF MailAgrees, Pending, Settled
  <2>3. CASE l # k
    BY <1>1, <1>4, <2>1, <2>3 DEF MailAgrees
  <2> QED BY <2>2, <2>3
<1>9. ASSUME NEW v \in Senders PROVE SenderAgrees(v)'
  <2>1. CASE v = w
    BY <1>5, <2>1 DEF SenderAgrees, Owns, IdleSender
  <2>2. CASE v # w
    <3>1. SenderAgrees(v) /\ sender'[v] = sender[v]
      BY <1>5, <2>2 DEF MailInd
    <3>2. CASE sender[v].link = k
      <4>1. ~Owns(v, k)
        BY <1>2, <2>2 DEF MailInd, SenderAgrees
      <4>2. row.state # "NONE"
        BY <1>3 DEF Settled
      <4> QED BY <1>4, <3>1, <3>2, <4>1, <4>2 DEF SenderAgrees, Owns
    <3>3. CASE sender[v].link # k
      <4>1. sender[v].pc # "idle" => sender[v].link \in Links /\ mail'[sender[v].link] = mail[sender[v].link]
        BY <1>4, <3>1, <3>3 DEF SenderAgrees
      <4> QED BY <1>1, <1>7, <3>1, <4>1 DEF SenderAgrees, Owns
    <3> QED BY <3>2, <3>3
  <2> QED BY <2>1, <2>2
<1> QED BY <1>6, <1>8, <1>9, OutboxStep

\* The steps of a call that leave its mail alone.
LEMMA CallSteps ==
  ASSUME MailInd, UNCHANGED vars, NEW w \in Senders,
         ClaimLost(w) \/ SendFails(w) \/ MarkFailedRead(w) \/ SenderDies(w)
  PROVE  MailInd'
<1>1. sender[w] \in Sender /\ UNCHANGED <<vars, mail, handed>>
  BY DEF MailInd, MailTypeOK, ClaimLost, SendFails, MarkFailedRead, SenderDies
<1>2. CASE ClaimLost(w) \/ SenderDies(w)
  <2>1. sender' = [sender EXCEPT ![w] = IdleSender] /\ IdleSender.pc = "idle"
    BY <1>2 DEF ClaimLost, SenderDies, Returns, IdleSender
  <2> QED BY <1>1, <2>1, IdleSenderType, SenderMoves
<1>3. CASE SendFails(w)
  <2> DEFINE q == [sender[w] EXCEPT !.pc = "failed"]
  <2>1. q \in Sender /\ q.pc = "failed" /\ q.link = sender[w].link
    BY <1>1 DEF Sender
  <2>2. sender' = [sender EXCEPT ![w] = q]
    BY <1>3 DEF SendFails, GoesTo
  <2>3. Owns(w, q.link)
    BY <1>3, <2>1 DEF SendFails, Owns
  <2> HIDE DEF q
  <2> QED BY <1>1, <2>1, <2>2, <2>3, SenderMoves
<1>4. CASE MarkFailedRead(w)
  <2> DEFINE k == sender[w].link
             q == [[sender[w] EXCEPT !.pc = "requeue"] EXCEPT !.last = (mail[k].attempts >= 2)]
  <2>1. q \in Sender /\ q.pc = "requeue" /\ q.link = k /\ q.last = (mail[k].attempts >= 2)
    <3> DEFINE p == [sender[w] EXCEPT !.pc = "requeue"]
               b == mail[k].attempts >= 2
    <3>1. p \in Sender /\ p.pc = "requeue" /\ p.link = k
      BY <1>1 DEF Sender
    <3>2. b \in BOOLEAN /\ q = [p EXCEPT !.last = b]
      OBVIOUS
    <3> HIDE DEF p, b, q
    <3>3. q \in Sender /\ q.pc = p.pc /\ q.link = p.link /\ q.last = b
      BY <3>1, <3>2 DEF Sender
    <3> QED BY <3>1, <3>3 DEF b
  <2>2. sender' = [sender EXCEPT ![w] = q]
    BY <1>1, <1>4 DEF MarkFailedRead, Sender
  <2>3. Owns(w, q.link) /\ k \in Links
    BY <1>4, <2>1 DEF MarkFailedRead, Owns, MailInd, SenderAgrees
  <2>4. mail[k].attempts \in Nat
    BY <2>3 DEF MailInd, MailTypeOK, MailRow
  <2> HIDE DEF q
  <2>5. q.pc = "requeue" => (q.last <=> mail[q.link].attempts = 2)
    <3>1. q.last <=> mail[k].attempts >= 2
      BY <2>1, Zenon
    <3>2. mail[k].attempts >= 2 <=> mail[k].attempts = 2
      BY <2>3, <2>4 DEF MailInd, MailAgrees
    <3> QED BY <2>1, <3>1, <3>2
  <2> QED BY <1>1, <2>1, <2>2, <2>3, <2>5, SenderMoves
<1> QED BY <1>2, <1>3, <1>4

LEMMA InitMailInd == InitMail => MailInd
<1> SUFFICES ASSUME InitMail PROVE MailInd
  OBVIOUS
<1>1. Ind
  BY InitInd DEF InitMail
<1>2. MailTypeOK
  BY IdleSenderType DEF InitMail, MailTypeOK, NoMail, MailRow
<1>3. \A l \in Links : MailAgrees(l)
  BY DEF InitMail, MailAgrees, NoMail, Pending, Settled
<1>4. \A w \in Senders : SenderAgrees(w)
  BY DEF InitMail, SenderAgrees, Owns, IdleSender
<1> QED BY <1>1, <1>2, <1>3, <1>4 DEF MailInd

LEMMA MailStep == MailInd /\ [NextMail]_allVars => MailInd'
<1> SUFFICES ASSUME MailInd, [NextMail]_allVars PROVE MailInd'
  OBVIOUS
<1>1. CASE [Next]_vars /\ UNCHANGED mailVars
  BY <1>1, CredentialsStep
<1>2. ASSUME UNCHANGED vars, NEW l \in Links, QueueResetEmail(l) \/ BecomesDue(l) PROVE MailInd'
  <2>1. UNCHANGED <<sender, handed>>
    BY <1>2 DEF QueueResetEmail, BecomesDue
  <2> QED BY <1>2, <2>1, QueueStep
<1>3. ASSUME UNCHANGED vars, NEW w \in Senders, SenderStep(w) \/ SenderDies(w) PROVE MailInd'
  <2>1. CASE ClaimFind(w)
    BY <1>3, <2>1, ClaimFindStep
  <2>2. CASE ClaimUpdate(w)
    BY <1>3, <2>2, ClaimUpdateStep
  <2>3. CASE Send(w)
    BY <1>3, <2>3, SendStep
  <2>4. CASE MarkSent(w) \/ MarkFailedWrite(w)
    BY <1>3, <2>4, SettleStep
  <2>5. CASE ClaimLost(w) \/ SendFails(w) \/ MarkFailedRead(w) \/ SenderDies(w)
    BY <1>3, <2>5, CallSteps
  <2> QED BY <1>3, <2>1, <2>2, <2>3, <2>4, <2>5 DEF SenderStep
<1> QED BY <1>1, <1>2, <1>3 DEF NextMail, allVars

----------------------------------------------------------------------------
(* The outbox implements MailDelivery.                                     *)

\* What MailDelivery sees of one link.
LEMMA AsSeen ==
  ASSUME NEW l \in Links
  PROVE  /\ UseOf[l] = IF link[l].state = "NONE" THEN "NEW" ELSE IF link[l].state = "LIVE" THEN "USABLE" ELSE "OVER"
         /\ MailOf[l] = IF mail[l].state \in Pending THEN "PENDING" ELSE mail[l].state
         /\ TriesOf[l] = mail[l].attempts
  BY DEF UseOf, MailOf, TriesOf

\* A write of one mail is seen as a write of that mail.
LEMMA OneMail ==
  ASSUME UNCHANGED link, NEW k \in Links, \A l \in Links \ {k} : mail'[l] = mail[l]
  PROVE  /\ UNCHANGED UseOf
         /\ MailOf' = [MailOf EXCEPT ![k] = IF mail'[k].state \in Pending THEN "PENDING" ELSE mail'[k].state]
         /\ TriesOf' = [TriesOf EXCEPT ![k] = mail'[k].attempts]
  BY DEF UseOf, MailOf, TriesOf

\* Of a write of one mail that leaves its attempts alone, only the state is seen.
LEMMA StateOnly ==
  ASSUME UNCHANGED link, NEW k \in Links, \A l \in Links \ {k} : mail'[l] = mail[l],
         mail'[k].attempts = mail[k].attempts
  PROVE  UNCHANGED <<UseOf, TriesOf>>
  BY DEF UseOf, TriesOf

\* The links lapse while the mails stay as they are.
LEMMA LinksAreSeen ==
  ASSUME MailInd, [Next]_vars, UNCHANGED mailVars
  PROVE  Delivery!LinksChange
<1>1. \A l \in Links : link[l].state # "NONE" => link'[l].state # "NONE" /\ (link'[l].state = "LIVE" => link[l].state = "LIVE")
  BY Step DEF MailInd, Persists
<1>2. UseOf' \in [Links -> {"NEW", "USABLE", "OVER"}]
  BY DEF UseOf
<1>3. ASSUME NEW l \in Links
      PROVE  (UseOf[l] # "NEW" => UseOf'[l] # "NEW") /\ (UseOf[l] = "OVER" => UseOf'[l] = "OVER")
  BY <1>1 DEF UseOf
<1>4. UNCHANGED <<MailOf, TriesOf, handed>>
  BY DEF MailOf, TriesOf, mailVars
<1> QED BY <1>2, <1>3, <1>4 DEF Delivery!LinksChange

LEMMA QueueIsSeen ==
  ASSUME MailInd, UNCHANGED vars, NEW k \in Links, QueueResetEmail(k) \/ BecomesDue(k)
  PROVE  Delivery!Queue(k) \/ UNCHANGED Delivery!vars
<1>1. mail \in [Links -> MailRow] /\ UNCHANGED <<link, handed>>
  BY DEF MailInd, MailTypeOK, QueueResetEmail, BecomesDue, vars
<1>2. CASE QueueResetEmail(k)
  <2>1. mail[k].state = "NONE" /\ mail[k].attempts = 0 /\ link[k].state # "NONE"
    BY <1>2 DEF QueueResetEmail, MailInd, MailAgrees
  <2>2. mail'[k].state = "QUEUED" /\ mail'[k].attempts = 0 /\ (\A l \in Links \ {k} : mail'[l] = mail[l])
    BY <1>1, <1>2 DEF QueueResetEmail
  <2>3. MailOf' = [MailOf EXCEPT ![k] = "PENDING"] /\ UNCHANGED <<UseOf, TriesOf>>
    BY <1>1, <2>1, <2>2, OneMail, StateOnly DEF Pending
  <2>4. MailOf[k] = "NONE" /\ UseOf[k] # "NEW"
    BY <2>1, AsSeen DEF Pending
  <2> QED BY <1>1, <2>3, <2>4 DEF Delivery!Queue
<1>3. CASE BecomesDue(k)
  <2>1. /\ mail'[k].state = mail[k].state /\ mail'[k].attempts = mail[k].attempts
        /\ \A l \in Links \ {k} : mail'[l] = mail[l]
    BY <1>1, <1>3 DEF BecomesDue, MailRow
  <2>2. UNCHANGED <<UseOf, MailOf, TriesOf>>
    BY <1>1, <2>1 DEF UseOf, MailOf, TriesOf
  <2> QED BY <1>1, <2>2 DEF Delivery!vars
<1> QED BY <1>2, <1>3

\* The clean-up gives up the mails of links that are over.
LEMMA CleanUpIsSeen ==
  ASSUME MailInd, UNCHANGED vars, NEW w \in Senders, ClaimFind(w)
  PROVE  \E S \in SUBSET Links : Delivery!Expire(S)
<1> DEFINE S == {l \in Links : Overdue(l)}
<1>1. mail \in [Links -> MailRow] /\ UNCHANGED <<link, handed>>
  BY DEF MailInd, MailTypeOK, ClaimFind, vars
<1>2. ASSUME NEW l \in Links
      PROVE  /\ mail'[l].attempts = mail[l].attempts
             /\ l \in S => mail'[l].state = "EXPIRED"
             /\ l \notin S => mail'[l] = mail[l]
  <2>1. mail'[l] = IF Overdue(l) THEN [mail[l] EXCEPT !.state = "EXPIRED", !.payload = FALSE] ELSE mail[l]
    BY DEF ClaimFind
  <2>2. mail[l] \in MailRow
    BY <1>1
  <2> QED BY <2>1, <2>2 DEF MailRow
<1>3. ASSUME NEW l \in S PROVE MailOf[l] = "PENDING" /\ UseOf[l] = "OVER"
  <2>1. l \in Links /\ mail[l].state \in Pending /\ link[l].state # "LIVE" /\ mail[l].state # "NONE"
    BY <1>3 DEF Overdue, Pending
  <2>2. link[l].state # "NONE"
    BY <2>1 DEF MailInd, MailAgrees
  <2> QED BY <2>1, <2>2, AsSeen
<1>4. MailOf' = [l \in Links |-> IF l \in S THEN "EXPIRED" ELSE MailOf[l]]
  BY <1>2 DEF MailOf, Pending
<1>5. UNCHANGED <<UseOf, TriesOf, handed>>
  BY <1>1, <1>2 DEF UseOf, TriesOf
<1> HIDE DEF S
<1>6. Delivery!Expire(S)
  BY <1>3, <1>4, <1>5 DEF Delivery!Expire
<1>7. S \in SUBSET Links
  BY DEF S
<1> QED BY <1>6, <1>7

\* A claim is a try: a queued mail has been tried less than twice.
LEMMA ClaimIsSeen ==
  ASSUME MailInd, UNCHANGED vars, NEW w \in Senders, ClaimUpdate(w)
  PROVE  \E l \in Links : Delivery!Try(l)
<1> DEFINE k == sender[w].link
<1>1. mail \in [Links -> MailRow] /\ UNCHANGED <<link, handed>>
  BY DEF MailInd, MailTypeOK, ClaimUpdate, vars
<1>2. k \in Links /\ mail[k].state = "QUEUED" /\ mail[k].attempts < 2
  BY DEF ClaimUpdate, MailInd, SenderAgrees, MailAgrees
<1>3. /\ mail'[k].state = "SENDING" /\ mail'[k].attempts = mail[k].attempts + 1
      /\ \A l \in Links \ {k} : mail'[l] = mail[l]
  BY <1>1, <1>2 DEF ClaimUpdate, MailRow
<1> HIDE DEF k
<1>4. MailOf[k] = "PENDING" /\ TriesOf[k] < 2
  BY <1>2, AsSeen DEF Pending
<1>5. UNCHANGED <<UseOf, MailOf>> /\ TriesOf' = [TriesOf EXCEPT ![k] = mail[k].attempts + 1]
  <2>1. UNCHANGED UseOf /\ TriesOf' = [TriesOf EXCEPT ![k] = mail[k].attempts + 1]
    BY <1>1, <1>2, <1>3, OneMail
  <2>2. UNCHANGED MailOf
    BY <1>2, <1>3 DEF MailOf, Pending
  <2> QED BY <2>1, <2>2
<1>6. TriesOf' = [TriesOf EXCEPT ![k] = TriesOf[k] + 1]
  BY <1>2, <1>5, AsSeen
<1> QED BY <1>1, <1>2, <1>4, <1>5, <1>6 DEF Delivery!Try

\* The mail of a call that owns it is pending or given up.
LEMMA OwnedIsSeen ==
  ASSUME MailInd, NEW w \in Senders, NEW k \in Links, Owns(w, k)
  PROVE  /\ MailOf[k] \in {"PENDING", "EXPIRED"}
         /\ MailOf[k] = "EXPIRED" => UseOf[k] = "OVER"
<1>1. mail[k].state \in {"SENDING", "EXPIRED"} /\ (link[k].state = "LIVE" => mail[k].state = "SENDING")
  BY DEF MailInd, SenderAgrees, Owns
<1>2. link[k].state # "NONE"
  BY <1>1 DEF MailInd, MailAgrees
<1> QED BY <1>1, <1>2, AsSeen DEF Pending

LEMMA SendIsSeen ==
  ASSUME MailInd, UNCHANGED vars, NEW w \in Senders, Send(w)
  PROVE  \E l \in Links : Delivery!HandOver(l)
<1> DEFINE k == sender[w].link
<1>1. k \in Links /\ Owns(w, k) /\ handed[k] < mail[k].attempts
  BY DEF Send, MailInd, SenderAgrees, Owns
<1>2. handed' = [handed EXCEPT ![k] = @ + 1] /\ UNCHANGED <<link, mail>>
  BY DEF Send, vars
<1> HIDE DEF k
<1>3. UNCHANGED <<UseOf, MailOf, TriesOf>>
  BY <1>2 DEF UseOf, MailOf, TriesOf
<1>4. MailOf[k] \in {"PENDING", "EXPIRED"} /\ handed[k] < TriesOf[k]
  BY <1>1, OwnedIsSeen, AsSeen
<1> QED BY <1>1, <1>2, <1>3, <1>4 DEF Delivery!HandOver

\* A mail is recorded as sent after a hand-over, given up after its second try
\* or when its link is over, and queued again otherwise.
LEMMA SettleIsSeen ==
  ASSUME MailInd, UNCHANGED vars, NEW w \in Senders, MarkSent(w) \/ MarkFailedWrite(w)
  PROVE  \/ \E l \in Links : Delivery!Deliver(l) \/ Delivery!Revive(l)
         \/ \E S \in SUBSET Links : Delivery!Expire(S)
         \/ UNCHANGED Delivery!vars
<1> DEFINE k == sender[w].link
<1>1. mail \in [Links -> MailRow] /\ UNCHANGED <<link, handed>>
  BY DEF MailInd, MailTypeOK, MarkSent, MarkFailedWrite, vars
<1>2. k \in Links /\ Owns(w, k) /\ SenderAgrees(w)
  BY DEF MarkSent, MarkFailedWrite, MailInd, SenderAgrees, Owns
<1>3. /\ mail'[k].attempts = mail[k].attempts
      /\ \A l \in Links \ {k} : mail'[l] = mail[l]
  BY <1>1, <1>2 DEF MarkSent, MarkFailedWrite, Settles, MailRow
<1>4. \/ mail'[k].state = "SENT" /\ handed[k] > 0
      \/ mail'[k].state = "EXPIRED" /\ mail[k].attempts = 2
      \/ mail'[k].state = "QUEUED"
  <2>1. CASE MarkSent(w)
    BY <1>1, <1>2, <2>1 DEF MarkSent, Settles, SenderAgrees, MailRow
  <2>2. CASE MarkFailedWrite(w) /\ sender[w].last
    BY <1>1, <1>2, <2>2 DEF MarkFailedWrite, Settles, SenderAgrees, MailRow
  <2>3. CASE MarkFailedWrite(w) /\ ~sender[w].last
    BY <1>1, <1>2, <2>3 DEF MarkFailedWrite, MailRow
  <2> QED BY <2>1, <2>2, <2>3
<1> HIDE DEF k
<1>5. UNCHANGED <<UseOf, TriesOf>>
  BY <1>1, <1>2, <1>3, StateOnly
<1>6. MailOf' = [MailOf EXCEPT ![k] = IF mail'[k].state \in Pending THEN "PENDING" ELSE mail'[k].state]
  BY <1>1, <1>2, <1>3, OneMail
<1>7. MailOf[k] \in {"PENDING", "EXPIRED"} /\ (MailOf[k] = "EXPIRED" => UseOf[k] = "OVER")
  BY <1>2, OwnedIsSeen
<1>8. DOMAIN MailOf = Links /\ MailOf = [l \in Links |-> MailOf[l]]
  BY DEF MailOf
<1>9. CASE mail'[k].state = "SENT" /\ handed[k] > 0
  <2>1. MailOf' = [MailOf EXCEPT ![k] = "SENT"]
    BY <1>6, <1>9 DEF Pending
  <2> QED BY <1>1, <1>2, <1>5, <1>7, <1>9, <2>1 DEF Delivery!Deliver
<1>10. CASE mail'[k].state = "EXPIRED" /\ mail[k].attempts = 2
  <2>1. MailOf' = [MailOf EXCEPT ![k] = "EXPIRED"]
    BY <1>6, <1>10 DEF Pending
  <2>2. CASE MailOf[k] = "EXPIRED"
    <3>1. MailOf' = MailOf
      BY <1>8, <2>1, <2>2
    <3> QED BY <1>1, <1>5, <3>1 DEF Delivery!vars
  <2>3. CASE MailOf[k] = "PENDING"
    <3>1. MailOf' = [l \in Links |-> IF l \in {k} THEN "EXPIRED" ELSE MailOf[l]]
      BY <1>2, <1>8, <2>1
    <3>2. TriesOf[k] = 2
      BY <1>2, <1>10, AsSeen
    <3>3. Delivery!Expire({k})
      BY <1>1, <1>5, <2>3, <3>1, <3>2 DEF Delivery!Expire
    <3> QED BY <1>2, <3>3
  <2> QED BY <1>7, <2>2, <2>3
<1>11. CASE mail'[k].state = "QUEUED"
  <2>1. MailOf' = [MailOf EXCEPT ![k] = "PENDING"]
    BY <1>6, <1>11 DEF Pending
  <2>2. CASE MailOf[k] = "EXPIRED"
    BY <1>1, <1>2, <1>5, <1>7, <2>1, <2>2 DEF Delivery!Revive
  <2>3. CASE MailOf[k] = "PENDING"
    <3>1. MailOf' = MailOf
      BY <1>8, <2>1, <2>3
    <3> QED BY <1>1, <1>5, <3>1 DEF Delivery!vars
  <2> QED BY <1>7, <2>2, <2>3
<1> QED BY <1>4, <1>9, <1>10, <1>11

\* A step that leaves the mails alone is not seen.
LEMMA QuietStep ==
  ASSUME UNCHANGED <<link, mail, handed>>
  PROVE  UNCHANGED Delivery!vars
<1>1. UNCHANGED <<UseOf, MailOf, TriesOf>>
  BY DEF UseOf, MailOf, TriesOf
<1> QED BY <1>1 DEF Delivery!vars

LEMMA StepIsSeen ==
  ASSUME MailInd, [NextMail]_allVars
  PROVE  [Delivery!Next]_(Delivery!vars)
<1>1. CASE [Next]_vars /\ UNCHANGED mailVars
  BY <1>1, LinksAreSeen DEF Delivery!Next
<1>2. ASSUME UNCHANGED vars, NEW l \in Links, QueueResetEmail(l) \/ BecomesDue(l)
      PROVE  [Delivery!Next]_(Delivery!vars)
  BY <1>2, QueueIsSeen DEF Delivery!Next
<1>3. ASSUME UNCHANGED vars, NEW w \in Senders, SenderStep(w) \/ SenderDies(w)
      PROVE  [Delivery!Next]_(Delivery!vars)
  <2>1. CASE ClaimFind(w)
    BY <1>3, <2>1, CleanUpIsSeen DEF Delivery!Next
  <2>2. CASE ClaimUpdate(w)
    BY <1>3, <2>2, ClaimIsSeen DEF Delivery!Next
  <2>3. CASE Send(w)
    BY <1>3, <2>3, SendIsSeen DEF Delivery!Next
  <2>4. CASE MarkSent(w) \/ MarkFailedWrite(w)
    BY <1>3, <2>4, SettleIsSeen DEF Delivery!Next
  <2>5. CASE ClaimLost(w) \/ SendFails(w) \/ MarkFailedRead(w) \/ SenderDies(w)
    <3>1. UNCHANGED <<link, mail, handed>>
      BY <1>3, <2>5 DEF ClaimLost, SendFails, MarkFailedRead, SenderDies, vars
    <3> QED BY <3>1, QuietStep
  <2> QED BY <1>3, <2>1, <2>2, <2>3, <2>4, <2>5 DEF SenderStep
<1> QED BY <1>1, <1>2, <1>3 DEF NextMail, allVars

----------------------------------------------------------------------------
(* The theorems.                                                           *)

\* The inductive invariant of links, mails and the calls that send them holds
\* for any number of links and calls in progress.
THEOREM MailIndInvariant == SpecMail => []MailInd
  BY InitMailInd, MailStep, PTL DEF SpecMail

\* A link is handed to the transport at most twice, however many calls of
\* processOne race for it, fail or die.
THEOREM TwiceAtMost == SpecMail => []MailedAtMostTwice
<1>1. MailInd => MailedAtMostTwice
  <2> SUFFICES ASSUME MailInd, NEW l \in Links PROVE handed[l] <= 2
    BY DEF MailedAtMostTwice
  <2>1. handed[l] \in Nat /\ mail[l].attempts \in Nat /\ MailAgrees(l)
    BY DEF MailInd, MailTypeOK, MailRow
  <2> QED BY <2>1 DEF MailAgrees
<1> QED BY <1>1, MailIndInvariant, PTL

\* A queued mail of a link that is of use still has its payload, so no call
\* that finds it ends for want of it.
THEOREM QueueKeepsPayload == SpecMail => []QueuedHasPayload
<1>1. MailInd => QueuedHasPayload
  BY DEF MailInd, MailAgrees, Pending, QueuedHasPayload
<1> QED BY <1>1, MailIndInvariant, PTL

\* The calls of processOne keep the promise of one delivery, whatever races,
\* fails or dies: each step on a mail is one that MailDelivery allows.
THEOREM OutboxDelivers == SpecMail => ImplementsDelivery
<1>1. InitMail => Delivery!Init
  <2> SUFFICES ASSUME InitMail PROVE Delivery!Init
    OBVIOUS
  <2>1. \A l \in Links : link[l].state = "NONE" /\ mail[l] = NoMail
    BY DEF InitMail, Init
  <2>2. /\ UseOf = [l \in Links |-> "NEW"] /\ MailOf = [l \in Links |-> "NONE"]
        /\ TriesOf = [l \in Links |-> 0]
    BY <2>1 DEF UseOf, MailOf, TriesOf, NoMail, Pending
  <2> QED BY <2>2 DEF InitMail, Delivery!Init
<1>2. MailInd /\ [NextMail]_allVars => [Delivery!Next]_(Delivery!vars)
  BY StepIsSeen
<1> QED BY <1>1, <1>2, MailIndInvariant, PTL DEF SpecMail, ImplementsDelivery, Delivery!Spec
============================================================================
