--------------------------- MODULE MCInboundSync ----------------------------
(* InboundSync for TLC: the events of an identity, a routed event and one    *)
(* that is invalid.                                                          *)
EXTENDS InboundSync, TLC

CONSTANTS p1, p2

Event(kind, epoch, id) == [kind |-> kind, epoch |-> epoch, id |-> id]

created == Event("created", 0, 1)
invalid == Event("plain", 0, 7)

MCEvents ==
  {created, Event("authorized", 1, 2), Event("granted", 0, 3), Event("revoked", 0, 4),
   Event("card", 0, 5), Event("routed", 0, 6), invalid}

MCInvalid == {invalid}

MCOwnEvents == {created}

MCCards == {created, Event("card", 0, 2), Event("card", 0, 3)}
=============================================================================
