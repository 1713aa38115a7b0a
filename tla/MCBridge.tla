------------------------------ MODULE MCBridge ------------------------------
(* The bridge for TLC: deliveries, the file store and the inbound reader     *)
(* (BridgeService), the durable streams (DurableStream), the SQL store       *)
(* (SqlStore), the HTTP front (HttpFront) and its token registry             *)
(* (TokenRegistry), which share no variable.  A behaviour exercises one      *)
(* part, so that their state spaces add up; and of the file store either     *)
(* deliveries that overlap, of which two claim one key, or one delivery at a *)
(* time, all of which are written, of more keys than there is room for.      *)
EXTENDS BridgeService, DurableStream, SqlStore, HttpFront, TokenRegistry, TLC

CONSTANTS k1, k2, k3, e1, e2, t1

VARIABLE part   \* the part that a behaviour exercises

Request(key, event) == [key |-> key, event |-> event, target |-> t1]

MCTwoKeys == {Request(k1, e1), Request(k2, e2)}

MCDeliveries == {Request(k1, e1), Request(k1, e2), Request(k2, e2), Request(k3, e2)}

MCAuth == {[id |-> "t", value |-> "v", until |-> 3]}

MCLimit == [capacity |-> 1, ticks |-> 2, base |-> 1, most |-> 2]

Token(id, until) == [id |-> id, until |-> until]

MCTokens == {Token(1, 1), Token(1, 2), Token(2, 2)}

MCInitialTokens == {Token(1, 2)}

bridgeVars == <<vars, streamVars, sqlVars, httpVars, tokenVars, part>>

BridgeInit ==
  /\ Init /\ StreamInit /\ SqlInit /\ HttpInit /\ TokenInit
  /\ part \in {"overlaps", "room", "streams", "sql", "http", "tokens"}

Underway == {delivery[h] : h \in Handlers}

Handled == {h \in Handlers : pc[h] # "idle"}

StoreNext ==
  /\ Next
  /\ part = "overlaps" => Request(k3, e2) \notin Underway'
  /\ part = "overlaps" /\ phantoms' # {} => Request(k2, e2) \notin Underway'
  /\ part = "room" => Cardinality(Handled') <= 1 /\ phantoms' = {}

\* No operation waits, and there may be none left to begin.
SqlAtRest == queue = <<>> /\ UNCHANGED sqlVars

BridgeNext ==
  \/ /\ part \in {"overlaps", "room"} /\ StoreNext
     /\ UNCHANGED <<streamVars, sqlVars, httpVars, tokenVars, part>>
  \/ /\ part = "streams" /\ StreamNext
     /\ UNCHANGED <<vars, sqlVars, httpVars, tokenVars, part>>
  \/ /\ part = "sql" /\ (SqlNext \/ SqlAtRest)
     /\ UNCHANGED <<vars, streamVars, httpVars, tokenVars, part>>
  \/ /\ part = "http" /\ HttpNext
     /\ UNCHANGED <<vars, streamVars, sqlVars, tokenVars, part>>
  \/ /\ part = "tokens" /\ TokenNext
     /\ UNCHANGED <<vars, streamVars, sqlVars, httpVars, part>>

BridgeSpec == BridgeInit /\ [][BridgeNext]_bridgeVars

BridgeTypeOK == TypeOK /\ StreamTypeOK /\ SqlTypeOK /\ HttpTypeOK /\ TokenTypeOK

Symmetry == Permutations(Handlers)
=============================================================================
