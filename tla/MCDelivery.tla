----------------------------- MODULE MCDelivery -----------------------------
(***************************************************************************)
(* Instances of Delivery, one for each of the things that compete: tabs    *)
(* for an entry, entries for a place in a batch, and the bridge's stops    *)
(* and gateway with a client.  A part only keeps tabs idle, entries away   *)
(* and the bridge from stopping or forgetting: nothing that fairness asks  *)
(* for is forbidden in it.                                                 *)
(***************************************************************************)
EXTENDS Delivery

CONSTANTS k1, p1

VARIABLE part

deliveryVars == <<part, vars>>

TabsOf(x) == IF x = "tabs" THEN Procs ELSE {p1}
KeysOf(x) == IF x = "queue" THEN Keys ELSE {k1}

PartInit ==
  /\ part \in {"tabs", "queue", "bridge"}
  /\ Init
  /\ part # "bridge" => ~gateway

PartNext ==
  /\ Next
  /\ UNCHANGED part
  /\ \A p \in Procs \ TabsOf(part) : pc'[p] = "idle"
  /\ \A k \in Keys \ KeysOf(part) : k \notin events' /\ outbox'[k].status = "absent"
  /\ part # "bridge" => stops' = 0 /\ records' = stored'
  /\ part = "queue" => \A k \in Keys : outbox'[k].status = "absent" \/ k \in events'

PartSpec == PartInit /\ [][PartNext]_deliveryVars /\ Fairness
=============================================================================
