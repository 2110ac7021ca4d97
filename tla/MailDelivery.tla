---------------------------- MODULE MailDelivery ---------------------------
(***************************************************************************)
(* What the outbox promises of the mail of each reset link: it is tried    *)
(* at most twice, each try hands it over at most once, it is recorded as   *)
(* sent only after it was handed over and stays so, and it is given up     *)
(* while its link is of use only after two tries.                          *)
(*                                                                         *)
(* There are no senders, claims or payloads.  The promise ends with the    *)
(* use of the link: a mail that has expired may then be pending again.     *)
(***************************************************************************)
EXTENDS Naturals

CONSTANT Links

VARIABLES
  use,      \* of each link: NEW until it is issued, USABLE, and then OVER
  mail,     \* of each link: NONE, PENDING, SENT or EXPIRED
  tries,    \* how often its mail was claimed
  handed    \* how often its mail was handed to the transport

vars == <<use, mail, tries, handed>>

Init ==
  /\ use = [l \in Links |-> "NEW"]
  /\ mail = [l \in Links |-> "NONE"]
  /\ tries = [l \in Links |-> 0]
  /\ handed = [l \in Links |-> 0]

LinksChange ==
  /\ use' \in [Links -> {"NEW", "USABLE", "OVER"}]
  /\ \A l \in Links : /\ use[l] # "NEW" => use'[l] # "NEW"
                      /\ use[l] = "OVER" => use'[l] = "OVER"
  /\ UNCHANGED <<mail, tries, handed>>

Queue(l) ==
  /\ use[l] # "NEW" /\ mail[l] = "NONE"
  /\ mail' = [mail EXCEPT ![l] = "PENDING"]
  /\ UNCHANGED <<use, tries, handed>>

Try(l) ==
  /\ mail[l] = "PENDING" /\ tries[l] < 2
  /\ tries' = [tries EXCEPT ![l] = @ + 1]
  /\ UNCHANGED <<use, mail, handed>>

HandOver(l) ==
  /\ mail[l] \in {"PENDING", "EXPIRED"}
  /\ handed[l] < tries[l]
  /\ handed' = [handed EXCEPT ![l] = @ + 1]
  /\ UNCHANGED <<use, mail, tries>>

Deliver(l) ==
  /\ mail[l] \in {"PENDING", "EXPIRED"} /\ handed[l] > 0
  /\ mail' = [mail EXCEPT ![l] = "SENT"]
  /\ UNCHANGED <<use, tries, handed>>

\* A sender gives up on one mail, or the clean-up on all that are of no use.
Expire(S) ==
  /\ \A l \in S : mail[l] = "PENDING" /\ (use[l] = "OVER" \/ tries[l] = 2)
  /\ mail' = [l \in Links |-> IF l \in S THEN "EXPIRED" ELSE mail[l]]
  /\ UNCHANGED <<use, tries, handed>>

Revive(l) ==
  /\ mail[l] = "EXPIRED" /\ use[l] = "OVER"
  /\ mail' = [mail EXCEPT ![l] = "PENDING"]
  /\ UNCHANGED <<use, tries, handed>>

Next ==
  \/ LinksChange
  \/ \E l \in Links : Queue(l) \/ Try(l) \/ HandOver(l) \/ Deliver(l) \/ Revive(l)
  \/ \E S \in SUBSET Links : Expire(S)

Spec == Init /\ [][Next]_vars
============================================================================
