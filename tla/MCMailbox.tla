------------------------------ MODULE MCMailbox ------------------------------
(* Mailbox for TLC: an envelope that the owner sends to itself, which has    *)
(* both sides, a foreign envelope, and a mailbox.                            *)
EXTENDS Mailbox, TLC

CONSTANTS self, foreign, box, r1, s1

Event(kind, target, at, id) == [kind |-> kind, target |-> target, at |-> at, id |-> id]

\* The fetch is dated with the queueing and comes before it in the order of
\* the log.
MCEvents ==
  {Event("queued", self, 1, 2), Event("fetched", self, 1, 1),
   Event("ack", self, 1, 5), Event("ack", self, 2, 6), Event("queued", foreign, 1, 4)}

MCFetchedEvents ==
  {Event("queued", self, 1, 2), Event("fetched", self, 1, 3), Event("receipt", self, 1, 4),
   Event("checkpoint", box, 1, 5)}

MCExpiresAt == [t \in Targets |-> 1]
=============================================================================
