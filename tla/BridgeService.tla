--------------------------- MODULE BridgeService ---------------------------
(***************************************************************************)
(* The bridge of apps/bridge-service: acceptDelivery and                   *)
(* readInboundRecords of service.ts over the JsonFileBridgeStore of        *)
(* stores.ts, without the optional admission gateway (the service that     *)
(* dev-bridge.ts builds).                                                  *)
(*                                                                         *)
(* Several deliveries are handled at once.  Each awaits the store twice,   *)
(* get and then putIfAbsent; the store runs its operations one at a time,  *)
(* so one operation is one action.  The store has a file and a cached      *)
(* copy: reads use the copy, putIfAbsent loads the file, and a write sets  *)
(* the copy first and the file last, so that a failed write leaves in the  *)
(* copy what the file never got.                                           *)
(*                                                                         *)
(* The records of a state are a set here: their order in the list is that  *)
(* of their sequence numbers, a new one being the highest so far.  A file  *)
(* that does not exist reads as an empty one.                              *)
(***************************************************************************)
EXTENDS Naturals, FiniteSets, FiniteSetsExt

CONSTANTS
  Deliveries,    \* requests: [key, event, target]
  Handlers,      \* deliveries handled at the same time
  NoDelivery,    \* a handler that handles none
  NotLoaded,     \* the cached copy before the first load
  ReaderTarget,  \* the stream that the inbound reader follows
  MaxRecords,    \* maxRecords
  Ttl,           \* ttlMs, in ticks
  ReadLimit,     \* the limit of an inbound read
  SeqPerTick,    \* sequence numbers per tick of the clock (nowMs * 1000)
  MaxNow,        \* bound: the last tick of the clock
  MaxSequence,   \* bound: the highest sequence number given, less the writes that failed
  MaxFailures    \* bound: the records whose write fails

ASSUME BridgeAssumption ==
  /\ MaxRecords \in Nat \ {0}
  /\ Ttl \in Nat \ {0}
  /\ ReadLimit \in Nat \ {0}
  /\ SeqPerTick \in Nat
  /\ MaxNow \in Nat
  /\ MaxSequence \in Nat
  /\ MaxFailures \in Nat
  /\ NoDelivery \notin Deliveries

VARIABLES
  now,        \* wall clock
  boot,       \* initialSequence of the running store
  file,       \* what the file holds
  cache,      \* #state
  pc,         \* where each handler is
  delivery,   \* the request it handles
  at,         \* the time its request came in
  cursor,     \* the inbound reader's cursor
  read,       \* history: records the inbound reader has received
  confirmed,  \* history: records of confirmed answers, but those that the
              \* store has shifted out for capacity since
  phantoms,   \* history: records put in the copy whose write failed
  written     \* history: records put in the file, those that have gone since too

handlers == <<pc, delivery, at>>
reader == <<cursor, read>>
vars == <<now, boot, file, cache, pc, delivery, at, cursor, read,
          confirmed, phantoms, written>>

Keys == {d.key : d \in Deliveries}
Events == {d.event : d \in Deliveries}
Targets == {d.target : d \in Deliveries}

StoredBridgeRecord ==
  [key: Keys, event: Events, target: Targets, sequence: Nat, expiresAt: Nat]

StoreState == [latestSequence: Nat, records: SUBSET StoredBridgeRecord]

Empty == [latestSequence |-> 0, records |-> {}]

Init ==
  /\ now = 0
  /\ boot = 0
  /\ file = Empty
  /\ cache = NotLoaded
  /\ pc = [h \in Handlers |-> "idle"]
  /\ delivery = [h \in Handlers |-> NoDelivery]
  /\ at = [h \in Handlers |-> 0]
  /\ cursor = 0
  /\ read = {}
  /\ confirmed = {}
  /\ phantoms = {}
  /\ written = {}

-----------------------------------------------------------------------------
(* Store states.                                                           *)

Larger(a, b) == IF a >= b THEN a ELSE b

\* Faulty variant: the sequence forgets what it has given to records that are
\* gone.
LoadFreshStateForgetting(initial) ==
  [latestSequence |-> Max({initial} \cup {r.sequence : r \in file.records}),
   records |-> file.records]

\* validateJsonBridgeStoreState.
LoadFreshState(initial) ==
  [latestSequence |->
     Max({initial, file.latestSequence} \cup {r.sequence : r \in file.records}),
   records |-> file.records]

LoadCachedState == IF cache = NotLoaded THEN LoadFreshState(boot) ELSE cache

\* Faulty variant: a record expires a tick too early.
PruneExpiredEarly(s, t) == [s EXCEPT !.records = {r \in @ : r.expiresAt > t + 1}]

PruneExpiredRecords(s, t) == [s EXCEPT !.records = {r \in @ : r.expiresAt > t}]

NextSequence(current, t) == Larger(current + 1, t * SeqPerTick)

\* The oldest records that must go to leave room for one more.
EvictedToCapacity(R) ==
  {r \in R : Cardinality({q \in R : q.sequence > r.sequence}) + 1 >= MaxRecords}

NewRecord(s, d, t) ==
  [key |-> d.key, event |-> d.event, target |-> d.target,
   sequence |-> NextSequence(s.latestSequence, t), expiresAt |-> t + Ttl]

Inserted(s, r) ==
  [latestSequence |-> r.sequence,
   records |-> (s.records \ EvictedToCapacity(s.records)) \cup {r}]

\* Faulty variant: putIfAbsent trusts the get that came before it.
NoneExists(s, k) == {}

Existing(s, k) == {r \in s.records : r.key = k}

-----------------------------------------------------------------------------
(* acceptDelivery.                                                         *)

\* The request has passed the checks of its envelope, scope and signature.
AcceptDelivery(h, d) ==
  /\ pc[h] = "idle"
  /\ pc' = [pc EXCEPT ![h] = "get"]
  /\ delivery' = [delivery EXCEPT ![h] = d]
  /\ at' = [at EXCEPT ![h] = now]
  /\ UNCHANGED <<now, boot, file, cache, reader, confirmed, phantoms, written>>

Finish(h) ==
  /\ pc' = [pc EXCEPT ![h] = "idle"]
  /\ delivery' = [delivery EXCEPT ![h] = NoDelivery]
  /\ at' = [at EXCEPT ![h] = 0]

SameDelivery(r, d) == r.event = d.event /\ r.target = d.target

\* Confirmed as a duplicate, or conflicted.
ResponseForExistingRecord(h, r) ==
  /\ confirmed' = IF SameDelivery(r, delivery[h]) THEN confirmed \cup {r} ELSE confirmed
  /\ Finish(h)

Get(h) ==
  /\ pc[h] = "get"
  /\ LET s == PruneExpiredRecords(LoadCachedState, at[h])
         found == {r \in s.records : r.key = delivery[h].key}
     IN /\ cache' = s
        /\ \/ \E r \in found : ResponseForExistingRecord(h, r)
           \/ /\ found = {}
              /\ pc' = [pc EXCEPT ![h] = "put"]
              /\ UNCHANGED <<delivery, at, confirmed>>
  /\ UNCHANGED <<now, boot, file, reader, phantoms, written>>

\* The state putIfAbsent starts from and the record it would insert.
PutState(h) == PruneExpiredRecords(LoadFreshState(boot), at[h])
PutRecord(h) == NewRecord(PutState(h), delivery[h], at[h])

\* putIfAbsent finds the key; it writes the pruned state back.
PutExisting(h) ==
  /\ pc[h] = "put"
  /\ \E r \in Existing(PutState(h), delivery[h].key) : ResponseForExistingRecord(h, r)
  /\ file' = PutState(h)
  /\ cache' = PutState(h)
  /\ UNCHANGED <<now, boot, reader, phantoms, written>>

\* The inserted record is published at once, before any other step: publish
\* is not awaited.  The answer is sent in the same step.
PutInserted(h) ==
  /\ pc[h] = "put"
  /\ Existing(PutState(h), delivery[h].key) = {}
  /\ PutRecord(h).sequence + Cardinality(phantoms) <= MaxSequence
  /\ file' = Inserted(PutState(h), PutRecord(h))
  /\ cache' = Inserted(PutState(h), PutRecord(h))
  /\ confirmed' = (confirmed \ EvictedToCapacity(PutState(h).records)) \cup {PutRecord(h)}
  /\ written' = written \cup {PutRecord(h)}
  /\ Finish(h)
  /\ UNCHANGED <<now, boot, reader, phantoms>>

\* The write rejects: a full disk, a file that cannot be renamed.  The request
\* is answered with an error.
PutFails(h) ==
  /\ pc[h] = "put"
  /\ PutRecord(h).sequence + Cardinality(phantoms) <= MaxSequence
  /\ IF Existing(PutState(h), delivery[h].key) = {}
       THEN /\ cache' = Inserted(PutState(h), PutRecord(h))
            /\ phantoms' = phantoms \cup {PutRecord(h)}
            /\ Cardinality(phantoms') <= MaxFailures
       ELSE /\ cache' = PutState(h)
            /\ UNCHANGED phantoms
  /\ Finish(h)
  /\ UNCHANGED <<now, boot, file, reader, confirmed, written>>

-----------------------------------------------------------------------------
(* The other operations of the store, the process and the clock.           *)

\* Faulty variant: a page holds the newest records.
PageNewestFirst(R) == {r \in R : Cardinality({q \in R : q.sequence > r.sequence}) < ReadLimit}

\* The first ReadLimit records in sequence order.
Page(R) == {r \in R : Cardinality({q \in R : q.sequence < r.sequence}) < ReadLimit}

\* The reader takes a page and moves its cursor to the last record of it.
ReadInboundRecords ==
  /\ LET s == PruneExpiredRecords(LoadCachedState, now)
         page == Page({r \in s.records : r.target = ReaderTarget /\ r.sequence > cursor})
     IN /\ cache' = s
        /\ read' = read \cup page
        /\ cursor' \in {cursor} \cup {r.sequence : r \in page}
        /\ \A r \in page : r.sequence <= cursor'
  /\ UNCHANGED <<now, boot, file, handlers, confirmed, phantoms, written>>

PruneExpired ==
  /\ LET s == LoadFreshState(boot)
         pruned == PruneExpiredRecords(s, now)
     IN /\ cache' = pruned
        /\ file' \in IF pruned.records = s.records THEN {file} ELSE {file, pruned}
  /\ UNCHANGED <<now, boot, handlers, reader, confirmed, phantoms, written>>

\* The process stops and a new one is started: what it was doing is gone.
NewProcess ==
  /\ boot' = now * SeqPerTick
  /\ cache' = NotLoaded
  /\ pc' = [h \in Handlers |-> "idle"]
  /\ delivery' = [h \in Handlers |-> NoDelivery]
  /\ at' = [h \in Handlers |-> 0]
  /\ UNCHANGED <<now, reader, phantoms>>

Restart == NewProcess /\ UNCHANGED <<file, confirmed, written>>

\* It stops between the rename of the file and the answer.
RestartAfterPut(h) ==
  /\ pc[h] = "put"
  /\ Existing(PutState(h), delivery[h].key) = {}
  /\ PutRecord(h).sequence + Cardinality(phantoms) <= MaxSequence
  /\ file' = Inserted(PutState(h), PutRecord(h))
  /\ confirmed' = confirmed \ EvictedToCapacity(PutState(h).records)
  /\ written' = written \cup {PutRecord(h)}
  /\ NewProcess

Tick ==
  /\ now < MaxNow
  /\ now' = now + 1
  /\ UNCHANGED <<boot, file, cache, handlers, reader, confirmed, phantoms, written>>

Handle(h) ==
  \/ \E d \in Deliveries : AcceptDelivery(h, d)
  \/ Get(h) \/ PutExisting(h) \/ PutInserted(h) \/ PutFails(h) \/ RestartAfterPut(h)

Next ==
  \/ \E h \in Handlers : Handle(h)
  \/ ReadInboundRecords \/ PruneExpired \/ Restart \/ Tick

Spec == Init /\ [][Next]_vars

-----------------------------------------------------------------------------
(* Properties.                                                             *)

TypeOK ==
  /\ now \in Nat
  /\ boot \in Nat
  /\ file \in StoreState
  /\ cache \in StoreState \cup {NotLoaded}
  /\ pc \in [Handlers -> {"idle", "get", "put"}]
  /\ delivery \in [Handlers -> Deliveries \cup {NoDelivery}]
  /\ at \in [Handlers -> Nat]
  /\ cursor \in Nat
  /\ \A S \in {read, confirmed, phantoms, written} : S \subseteq StoredBridgeRecord
  /\ Cardinality(file.records) <= MaxRecords
  /\ \A h \in Handlers : pc[h] # "idle" => delivery[h] # NoDelivery

\* One event per idempotency key: a delivery is confirmed for a key only when
\* every other delivery confirmed for it is gone by then, although get and
\* putIfAbsent of two requests interleave and a slow request prunes with the
\* time it came in.
OneDeliveryPerKey ==
  [][\A q \in confirmed' \ confirmed, r \in confirmed \ phantoms :
       r.key = q.key /\ ~SameDelivery(r, q) => r.expiresAt <= now]_vars

\* A record that is put in the file gets a number above every number that the
\* file has ever held, over restarts and after the records that held them have
\* expired or been shifted out: cursors are sequence numbers.  Only the number
\* of a record whose write failed is given again, since the file never held it.
SequencesNameRecords ==
  [][\A r \in file'.records \ file.records, q \in written : q.sequence < r.sequence]_vars

\* What was confirmed is in the file until it expires or is
\* evicted, except for a record whose write failed.
ConfirmedIsStored ==
  \A r \in confirmed \ phantoms : r \in file.records \/ r.expiresAt <= now

\* A reader that goes on from its cursor misses no record that the file still
\* holds and that has not expired, unless a write has failed: the copy it reads
\* from is then ahead of the file.
ReaderMissesNothing ==
  phantoms = {} =>
    \A r \in file.records :
      r.target = ReaderTarget /\ r.sequence <= cursor => r \in read \/ r.expiresAt <= now

\* "the store is the durable source of truth" (acceptDelivery): what the
\* bridge confirmed is in the file until it expires or is evicted.
ConfirmedIsDurable == \A r \in confirmed : r \in file.records \/ r.expiresAt <= now
=============================================================================
