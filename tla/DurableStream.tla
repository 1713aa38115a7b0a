--------------------------- MODULE DurableStream ---------------------------
(***************************************************************************)
(* The durable streams of apps/bridge-service: the connections of          *)
(* stream-socket.ts, the broker of stream-broker.ts and the store's        *)
(* backlog, for one stream and one client.                                 *)
(*                                                                         *)
(* A connection subscribes at the broker, which buffers what is published; *)
(* reads the backlog after the client's cursor from the store; sends it;   *)
(* and goes live.  The handler awaits the store in between, and deliveries *)
(* are accepted and published, sockets break and close meanwhile.  What    *)
(* runs without an await is one action.                                    *)
(*                                                                         *)
(* Records are named by their sequence numbers: 1..latest is what the      *)
(* store holds of the stream.  Expiry and eviction are BridgeService's.    *)
(* The client keeps the cursor of the last frame it took and resumes from  *)
(* it on its next connection; it sends one subscribe frame on each.        *)
(***************************************************************************)
EXTENDS Naturals, Sequences, FiniteSets, Functions

CONSTANTS
  MaxConns,      \* bound: connections the client makes, one after another
  MaxPublished,    \* bound: records accepted for the stream
  BacklogLimit,  \* backlogLimit of the subscribe frame
  MaxBuffered    \* maxBufferedRecords of the broker

ASSUME StreamAssumption ==
  /\ MaxConns \in Nat
  /\ MaxPublished \in Nat
  /\ BacklogLimit \in Nat \ {0}
  /\ MaxBuffered \in Nat \ {0}

VARIABLES
  latest,    \* the store: sequence number of the newest record
  link,      \* connections made so far, the last being the client's
  conn,      \* state of each connection's adapter
  open,      \* whether its socket takes data (readyState)
  phase,     \* where its handleSubscribe is
  asked,     \* the cursor of its subscribe frame
  page,      \* the backlog it has read
  sub,       \* state of its subscription at the broker
  buffer,    \* records the broker buffers for it
  wire,      \* frames sent to the client and not taken yet
  clientCursor,  \* the client's cursor
  received,  \* records the client has taken
  cutOff     \* history: records that a full backlog page left in the store

client == <<clientCursor, received>>
handler == <<phase, asked, page>>
adapter == <<conn, open, sub, buffer>>
streamVars == <<latest, link, conn, open, phase, asked, page, sub, buffer, wire,
          clientCursor, received, cutOff>>

Conns == 1..MaxConns

Frame == [records: SUBSET Nat, cursor: Nat]

\* Connections the broker publishes to; one that overflowed is passed over.
Subscribed == {c \in Conns : sub[c] \in {"buffering", "live", "overflowed"}}

StreamInit ==
  /\ latest = 0
  /\ link = 0
  /\ conn = [c \in Conns |-> "new"]
  /\ open = [c \in Conns |-> FALSE]
  /\ phase = [c \in Conns |-> "none"]
  /\ asked = [c \in Conns |-> 0]
  /\ page = [c \in Conns |-> {}]
  /\ sub = [c \in Conns |-> "none"]
  /\ buffer = [c \in Conns |-> {}]
  /\ wire = [c \in Conns |-> <<>>]
  /\ clientCursor = 0
  /\ received = {}
  /\ cutOff = {}

-----------------------------------------------------------------------------
(* The client.                                                             *)

\* It opens a connection, and with it gives up the one before.
Dial ==
  /\ link < MaxConns
  /\ link' = link + 1
  /\ conn' = [conn EXCEPT ![link'] = "opening"]
  /\ open' = [open EXCEPT ![link'] = TRUE]
  /\ asked' = [asked EXCEPT ![link'] = clientCursor]
  /\ UNCHANGED <<latest, phase, page, sub, buffer, wire, client, cutOff>>

Receive ==
  /\ link > 0
  /\ wire[link] # <<>>
  /\ received' = received \cup Head(wire[link]).records
  /\ clientCursor' = Head(wire[link]).cursor
  /\ wire' = [wire EXCEPT ![link] = Tail(@)]
  /\ UNCHANGED <<latest, link, adapter, handler, cutOff>>

-----------------------------------------------------------------------------
(* close and send of the adapter.                                          *)

\* The subscriptions when those of C are gone.
Unsubscribed(C) ==
  [c \in Conns |-> IF c \in C /\ sub[c] # "none" THEN "closed" ELSE sub[c]]

\* close() of the adapters of C, if they are not closed already.
Close(C) ==
  LET closing == {c \in C : conn[c] # "closed"}
  IN /\ conn' = [c \in Conns |-> IF c \in closing THEN "closed" ELSE conn[c]]
     /\ open' = [c \in Conns |-> open[c] /\ c \notin closing]
     /\ sub' = Unsubscribed(closing)
     /\ buffer' = [c \in Conns |-> IF c \in closing THEN {} ELSE buffer[c]]

\* A heartbeat timeout, backpressure on a ping or pong, a protocol error, the
\* client's unsubscribe frame, the host, or the runtime's close event.
CloseSocket(c) ==
  /\ conn[c] \in {"opening", "subscribed"}
  /\ Close({c})
  /\ UNCHANGED <<latest, link, handler, wire, client, cutOff>>

\* The runtime's socket stops taking data; its close event comes later.
SocketBreaks(c) ==
  /\ open[c]
  /\ open' = [open EXCEPT ![c] = FALSE]
  /\ UNCHANGED <<latest, link, conn, handler, sub, buffer, wire, client, cutOff>>

-----------------------------------------------------------------------------
(* handleSubscribe.                                                        *)

\* The frame is handled even if the adapter has closed its socket by then.
HandleSubscribe(c) ==
  /\ conn[c] # "new"
  /\ phase[c] = "none"
  /\ sub' = [sub EXCEPT ![c] = "buffering"]
  /\ phase' = [phase EXCEPT ![c] = "reading"]
  /\ UNCHANGED <<latest, link, conn, open, asked, page, buffer, wire, client, cutOff>>

\* The records after the cursor, at most BacklogLimit of them.
Backlog(c) == {r \in 1..latest : r > asked[c] /\ r <= asked[c] + BacklogLimit}

ReadBacklog(c) ==
  /\ phase[c] = "reading"
  /\ page' = [page EXCEPT ![c] = Backlog(c)]
  /\ phase' = [phase EXCEPT ![c] = "read"]
  /\ UNCHANGED <<latest, link, adapter, asked, wire, client, cutOff>>

ReadFails(c) ==
  /\ phase[c] = "reading"
  /\ Close({c})
  /\ phase' = [phase EXCEPT ![c] = "done"]
  /\ UNCHANGED <<latest, link, asked, page, wire, client, cutOff>>

\* The socket was closed while the handler awaited the store.
AbandonBacklog(c) ==
  /\ phase[c] = "read"
  /\ conn[c] = "closed"
  /\ phase' = [phase EXCEPT ![c] = "done"]
  /\ UNCHANGED <<latest, link, adapter, asked, page, wire, client, cutOff>>

\* The socket is not open, too much is buffered on it, or its send throws.
BacklogNotSent(c) ==
  /\ phase[c] = "read"
  /\ conn[c] # "closed"
  /\ Close({c})
  /\ phase' = [phase EXCEPT ![c] = "done"]
  /\ UNCHANGED <<latest, link, asked, page, wire, client, cutOff>>

BacklogEnd(c) ==
  IF page[c] = {} THEN asked[c] ELSE CHOOSE r \in page[c] : \A q \in page[c] : q <= r

\* What goLive finds in the buffer beyond the backlog.
Drained(c) == {r \in buffer[c] : r > BacklogEnd(c)}

\* s holds the first members of D in order.
IsPrefixInOrder(s, D) ==
  /\ \A i, j \in DOMAIN s : i < j => s[i] < s[j]
  /\ \A r \in D \ Range(s), i \in DOMAIN s : s[i] < r

LiveFrame(r) == [records |-> {r}, cursor |-> r]

\* A send that fails while the buffer is drained closes the socket, and the
\* handler then reports the connection as subscribed all the same.
GoLive(c) ==
  /\ phase[c] = "read"
  /\ conn[c] # "closed"
  /\ open[c]
  /\ \E n \in 0..Cardinality(Drained(c)) : \E s \in [1..n -> Drained(c)] :
       /\ IsPrefixInOrder(s, Drained(c))
       /\ wire' = [wire EXCEPT ![c] = @
            \o <<[records |-> page[c], cursor |-> BacklogEnd(c)]>>
            \o [i \in 1..n |-> LiveFrame(s[i])]]
       /\ LET drained == n = Cardinality(Drained(c))
          IN /\ sub' = [sub EXCEPT ![c] = IF drained THEN "live" ELSE "closed"]
             /\ open' = [open EXCEPT ![c] = drained]
  /\ buffer' = [buffer EXCEPT ![c] = {}]
  /\ conn' = [conn EXCEPT ![c] = "subscribed"]
  /\ phase' = [phase EXCEPT ![c] = "done"]
  /\ cutOff' = cutOff \cup
       IF Cardinality(page[c]) = BacklogLimit
         THEN {r \in 1..latest : r > BacklogEnd(c)} \ Drained(c)
         ELSE {}
  /\ UNCHANGED <<latest, link, asked, page, client>>

-----------------------------------------------------------------------------
(* The broker: a delivery is stored and published.                         *)

Overflows(c) == sub[c] = "buffering" /\ Cardinality(buffer[c]) >= MaxBuffered

\* Faulty variant: what is published before the stream is live is not kept.
BufferedNever(c, r) == buffer[c]

Buffered(c, r) == IF sub[c] = "buffering" THEN buffer[c] \cup {r} ELSE buffer[c]

\* slow is where the send finds too much buffered or throws.  An overflow
\* whose connection is closed leaves the subscription at the broker.
Publish ==
  /\ latest < MaxPublished
  /\ latest' = latest + 1
  /\ LET live == {c \in Subscribed : sub[c] = "live"}
         over == {c \in Subscribed : Overflows(c)}
     IN \E slow \in SUBSET {c \in live : open[c]} :
          LET failing == slow \cup {c \in live : ~open[c]}
              closing == {c \in failing \cup over : conn[c] # "closed"}
          IN /\ conn' = [c \in Conns |-> IF c \in closing THEN "closed" ELSE conn[c]]
             /\ open' = [c \in Conns |-> open[c] /\ c \notin closing]
             /\ sub' = [c \in Conns |->
                  IF c \in over \ closing THEN "overflowed" ELSE Unsubscribed(closing)[c]]
             /\ buffer' = [c \in Conns |->
                  IF c \in over \cup closing THEN {} ELSE Buffered(c, latest')]
             /\ wire' = [c \in Conns |->
                  IF c \in live \ failing THEN Append(wire[c], LiveFrame(latest')) ELSE wire[c]]
  /\ UNCHANGED <<link, handler, client, cutOff>>

\* The bridge process is started anew: only the store is left.
StreamRestart ==
  /\ conn' = [c \in Conns |-> IF conn[c] = "new" THEN "new" ELSE "closed"]
  /\ open' = [c \in Conns |-> FALSE]
  /\ sub' = [c \in Conns |-> IF sub[c] = "none" THEN "none" ELSE "closed"]
  /\ buffer' = [c \in Conns |-> {}]
  /\ phase' = [c \in Conns |-> IF conn[c] = "new" THEN "none" ELSE "done"]
  /\ UNCHANGED <<latest, link, asked, page, wire, client, cutOff>>

Serve(c) ==
  \/ HandleSubscribe(c) \/ ReadBacklog(c) \/ ReadFails(c) \/ AbandonBacklog(c)
  \/ BacklogNotSent(c) \/ GoLive(c) \/ CloseSocket(c) \/ SocketBreaks(c)

StreamNext == Dial \/ Receive \/ Publish \/ StreamRestart \/ \E c \in Conns : Serve(c)

StreamSpec == StreamInit /\ [][StreamNext]_streamVars

-----------------------------------------------------------------------------
(* Properties.                                                             *)

StreamTypeOK ==
  /\ latest \in Nat
  /\ link \in 0..MaxConns
  /\ conn \in [Conns -> {"new", "opening", "subscribed", "closed"}]
  /\ open \in [Conns -> BOOLEAN]
  /\ phase \in [Conns -> {"none", "reading", "read", "done"}]
  /\ asked \in [Conns -> Nat]
  /\ page \in [Conns -> SUBSET Nat]
  /\ sub \in [Conns -> {"none", "buffering", "live", "closed", "overflowed"}]
  /\ buffer \in [Conns -> SUBSET Nat]
  /\ wire \in [Conns -> Seq(Frame)]
  /\ clientCursor \in Nat
  /\ received \subseteq Nat
  /\ cutOff \subseteq Nat
  /\ \A c \in Conns : Cardinality(buffer[c]) <= MaxBuffered

\* Over reconnects, broken sockets, overflows, restarts and deliveries that
\* race with the backlog read, the client's cursor passes over a record it was
\* not given only if a full backlog page had left that record in the store.
LostOnlyBehindFullPage == \A r \in 1..clientCursor : r \in received \cup cutOff

\* What is on its way to the client is new to it and in order: a record
\* published while the backlog is read is not sent twice.
FramesAreNewAndInOrder ==
  link > 0 =>
    LET w == wire[link]
    IN \A i \in DOMAIN w : \A r \in w[i].records :
         /\ r > clientCursor /\ r \notin received
         /\ \A j \in DOMAIN w : i < j => r <= w[i].cursor /\ \A q \in w[j].records : r < q

\* A subscription is live for as long as its connection is subscribed and its
\* socket open: no connection sits there without getting records, and none
\* that is closed is sent any.
LiveWhileSubscribed ==
  \A c \in Conns :
    /\ conn[c] = "subscribed" /\ open[c] => sub[c] = "live"
    /\ sub[c] = "live" => conn[c] = "subscribed"

\* What a subscriber is promised, whenever sockets close, sends fail and records are
\* published: nothing is passed over but behind a full page, nothing comes twice or out of
\* order, and a subscription lives as long as its connection.
LiveStreamIsWhole == LostOnlyBehindFullPage /\ FramesAreNewAndInOrder /\ LiveWhileSubscribed

\* "No records are silently dropped - the client reconnects with their last
\* cursor and the store backfill is authoritative"
\* (docs/protocol/bridge-admission-doctrine.md).
NoRecordIsDropped == \A r \in 1..clientCursor : r \in received
=============================================================================
