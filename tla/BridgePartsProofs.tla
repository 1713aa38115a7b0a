-------------------------- MODULE BridgePartsProofs --------------------------
(***************************************************************************)
(* What the deliveries to the bridge, its admission token registry, the    *)
(* SQL store and the durable streams promise, for any requests, handlers,  *)
(* tokens, keys, connections, limits and bounds.                           *)
(*                                                                         *)
(* Of BridgeService, the inductive invariant says how the file, its cached *)
(* copy, the confirmations and the reader hang together: the copy holds    *)
(* nothing that the file does not, failed writes apart, and lacks nothing  *)
(* that the file still holds, unless a write has failed; and no record     *)
(* that was ever written has a number above latestSequence.                *)
(*                                                                         *)
(* RevokedStaysOut of TokenRegistry. Validation looks at memory alone,     *)
(* which a restart fills from the file, which saves fill with the copies   *)
(* they were given. So a revoked token must be in none of the three; and   *)
(* of a save that revokes an identifier the copy does not hold it, or its  *)
(* landing would put it back.                                              *)
(*                                                                         *)
(* SqlImplementsStore of SqlStore: what the transactions commit is what    *)
(* RecordStore promises in one step. Until it commits, a transaction       *)
(* changes its own view alone. So the invariant says what that view is     *)
(* after each of its statements - the live records, those that stay when   *)
(* room was made, the number taken from the row - and the commit is then   *)
(* the abstract write; every other statement, a rollback and a restart     *)
(* leave the tables as they are.                                           *)
(*                                                                         *)
(* LiveStreamIsWhole of DurableStream. Nothing is passed over when what    *)
(* the client has, what is on the wire, the page that its handler has read *)
(* and what the broker buffers meanwhile cover the store without a gap.    *)
(* The invariant follows that cover through subscribing, reading, going    *)
(* live and publishing: the frames on the wire follow the cursor and each  *)
(* other, and of a live subscription the last of them is the newest        *)
(* record.                                                                 *)
(*                                                                         *)
(* LimiterKeepsCount of HttpFront. What an identifier was allowed and what *)
(* its bucket holds together exceed the capacity by no more than the       *)
(* tokens it gained since the start: a refill moves the time of the bucket *)
(* by the tokens it adds and no further. And the bucket file is no older   *)
(* than it should be, because the last save that began has the buckets     *)
(* when no change waits for one and no save was outrun.                    *)
(***************************************************************************)
EXTENDS BridgeService, TokenRegistry, SqlStore, DurableStream, HttpFront, FiniteSetTheorems,
        WellFoundedInduction, TLAPS

-----------------------------------------------------------------------------
(* The deliveries to the bridge.                                           *)

\* A state whose records are told apart by key and by number, none of them
\* above latestSequence.
StateOK(s) ==
  /\ s \in StoreState
  /\ IsFiniteSet(s.records)
  /\ \A r \in s.records : r.sequence <= s.latestSequence
  /\ \A r, q \in s.records : r.key = q.key \/ r.sequence = q.sequence => r = q

\* What a copy may be while the file is f, the failed writes are P and the
\* time is t.
CopyOK(c, f, P, t) ==
  /\ c \in StoreState
  /\ IsFiniteSet(c.records)
  /\ c.records \ P \subseteq f.records
  /\ \A q \in c.records, r \in f.records : q.key = r.key /\ q # r => r.expiresAt <= t
  /\ P = {} => \A r \in f.records : r \in c.records \/ r.expiresAt <= t

\* What the confirmations C may be.
ConfirmedOK(C, f, P, t) == \A r \in C \ P : r \in f.records \/ r.expiresAt <= t

\* No record ever written has a number above latestSequence.
WrittenOK(W, f) == \A r \in W : r.sequence <= f.latestSequence

ReaderOK(c, R, f, P, t) ==
  P = {} =>
    /\ c <= f.latestSequence
    /\ \A r \in f.records :
         r.target = ReaderTarget /\ r.sequence <= c => r \in R \/ r.expiresAt <= t

Types ==
  /\ now \in Nat
  /\ boot \in Nat
  /\ pc \in [Handlers -> {"idle", "get", "put"}]
  /\ delivery \in [Handlers -> Deliveries \cup {NoDelivery}]
  /\ at \in [Handlers -> Nat]
  /\ cursor \in Nat
  /\ \A S \in {read, confirmed, phantoms, written} : S \subseteq StoredBridgeRecord
  /\ \A h \in Handlers : pc[h] # "idle" => delivery[h] \in Deliveries
  /\ \A h \in Handlers : at[h] <= now

IInv ==
  /\ Types
  /\ StateOK(file)
  /\ cache # NotLoaded => CopyOK(cache, file, phantoms, now)
  /\ ConfirmedOK(confirmed, file, phantoms, now)
  /\ WrittenOK(written, file)
  /\ ReaderOK(cursor, read, file, phantoms, now)

-----------------------------------------------------------------------------
(* The operators on states.                                                *)

\* Loading the file keeps its records and never lowers its number.
LEMMA FreshState ==
  ASSUME StateOK(file), boot \in Nat
  PROVE  /\ StateOK(LoadFreshState(boot))
         /\ LoadFreshState(boot).records = file.records
         /\ LoadFreshState(boot).latestSequence >= file.latestSequence
<1>. DEFINE S == {boot, file.latestSequence} \cup {r.sequence : r \in file.records}
            top == Larger(boot, file.latestSequence)
<1>1. /\ file.latestSequence \in Nat /\ \A r \in file.records : r.sequence \in Nat
      /\ \A r \in file.records : r.sequence <= file.latestSequence
  BY DEF StateOK, StoreState, StoredBridgeRecord
<1>2. top \in S /\ \A y \in S : top >= y
  BY <1>1 DEF Larger
<1>3. Max(S) \in S /\ \A y \in S : Max(S) >= y
  <2>. HIDE DEF S, top
  <2>. QED  BY <1>2 DEF Max
<1>4. Max(S) \in Nat /\ Max(S) >= file.latestSequence
  BY <1>1, <1>3
<1>5. LoadFreshState(boot) = [latestSequence |-> Max(S), records |-> file.records]
  BY DEF LoadFreshState
<1>. HIDE DEF S
<1>6. \A r \in file.records : r.sequence <= Max(S)
  BY <1>1, <1>4
<1>. QED
  BY <1>4, <1>5, <1>6 DEF StateOK, StoreState

\* Pruning keeps the records that have not expired, and the number.
LEMMA PrunedState ==
  ASSUME NEW s, s \in StoreState, NEW t \in Nat
  PROVE  /\ PruneExpiredRecords(s, t) \in StoreState
         /\ PruneExpiredRecords(s, t).records = {r \in s.records : r.expiresAt > t}
         /\ PruneExpiredRecords(s, t).latestSequence = s.latestSequence
         /\ StateOK(s) => StateOK(PruneExpiredRecords(s, t))
<1>1. PruneExpiredRecords(s, t) =
        [latestSequence |-> s.latestSequence, records |-> {r \in s.records : r.expiresAt > t}]
  BY DEF PruneExpiredRecords, StoreState
<1>2. IsFiniteSet(s.records) => IsFiniteSet({r \in s.records : r.expiresAt > t})
  BY FS_Subset, {r \in s.records : r.expiresAt > t} \in SUBSET s.records
<1>. QED
  BY <1>1, <1>2 DEF StateOK, StoreState

\* A pruned copy is a copy.
LEMMA PrunedCopy ==
  ASSUME NEW c, NEW f, NEW P, NEW t \in Nat, NEW u \in Nat, CopyOK(c, f, P, t), u <= t,
         f \in StoreState
  PROVE  CopyOK(PruneExpiredRecords(c, u), f, P, t)
<1>1. /\ PruneExpiredRecords(c, u) \in StoreState
      /\ PruneExpiredRecords(c, u).records = {r \in c.records : r.expiresAt > u}
  BY PrunedState DEF CopyOK
<1>2. IsFiniteSet({r \in c.records : r.expiresAt > u})
  BY FS_Subset, {r \in c.records : r.expiresAt > u} \in SUBSET c.records DEF CopyOK
<1>3. \A r \in c.records : r.expiresAt > u \/ r.expiresAt <= t
  BY DEF CopyOK, StoreState, StoredBridgeRecord
<1>. QED
  BY <1>1, <1>2, <1>3 DEF CopyOK

\* The file's own state, pruned, is a copy of the file.
LEMMA PrunedFileIsCopy ==
  ASSUME NEW s, NEW f, StateOK(s), StateOK(f), s.records = f.records,
         NEW P, NEW t \in Nat, NEW u \in Nat, u <= t
  PROVE  CopyOK(PruneExpiredRecords(s, u), f, P, t)
<1>1. CopyOK(s, f, P, t)
  BY DEF StateOK, CopyOK
<1>. QED
  BY <1>1, PrunedCopy DEF StateOK

\* What reads see is a copy of the file.
LEMMA CachedState ==
  ASSUME IInv, NEW u \in Nat, u <= now
  PROVE  CopyOK(PruneExpiredRecords(LoadCachedState, u), file, phantoms, now)
<1>1. CASE cache = NotLoaded
  BY <1>1, FreshState, PrunedFileIsCopy DEF LoadCachedState, IInv, Types
<1>2. CASE cache # NotLoaded
  BY <1>2, PrunedCopy DEF LoadCachedState, IInv, Types, StateOK
<1>. QED  BY <1>1, <1>2

\* A new record has a number above all others, and the state that it is put
\* in tells its records apart.
LEMMA InsertedState ==
  ASSUME NEW s, StateOK(s), NEW d \in Deliveries, NEW t \in Nat, Existing(s, d.key) = {},
         BridgeAssumption
  PROVE  /\ NewRecord(s, d, t) \in StoredBridgeRecord
         /\ NewRecord(s, d, t).key = d.key
         /\ NewRecord(s, d, t).sequence > s.latestSequence
         /\ StateOK(Inserted(s, NewRecord(s, d, t)))
         /\ Inserted(s, NewRecord(s, d, t)).latestSequence = NewRecord(s, d, t).sequence
         /\ Inserted(s, NewRecord(s, d, t)).records =
              (s.records \ EvictedToCapacity(s.records)) \cup {NewRecord(s, d, t)}
<1>. DEFINE r == NewRecord(s, d, t)
            n == NextSequence(s.latestSequence, t)
            kept == s.records \ EvictedToCapacity(s.records)
<1>1. s.latestSequence \in Nat
  BY DEF StateOK, StoreState
<1>2. n \in Nat /\ n > s.latestSequence
  <2>1. t * SeqPerTick \in Nat
    BY DEF BridgeAssumption
  <2>. QED  BY <1>1, <2>1 DEF NextSequence, Larger
<1>3. t + Ttl \in Nat
  BY DEF BridgeAssumption
<1>4. /\ r \in StoredBridgeRecord /\ r.key = d.key /\ r.sequence = n
  <2>1. d.key \in Keys /\ d.event \in Events /\ d.target \in Targets
    BY DEF Keys, Events, Targets
  <2>. HIDE DEF n
  <2>. QED  BY <1>2, <1>3, <2>1 DEF NewRecord, StoredBridgeRecord, n
<1>5. Inserted(s, r) = [latestSequence |-> r.sequence, records |-> kept \cup {r}]
  BY DEF Inserted
<1>. HIDE DEF r, kept, n
<1>6. kept \subseteq s.records
  BY DEF kept
<1>7. IsFiniteSet(kept \cup {r})
  BY <1>6, FS_Subset, FS_AddElement DEF StateOK
<1>8. \A q \in kept : q.sequence \in Nat /\ q.sequence < n /\ q.key # d.key
  BY <1>1, <1>2, <1>6 DEF StateOK, StoreState, StoredBridgeRecord, Existing
<1>9. StateOK(Inserted(s, r))
  <2>1. Inserted(s, r) \in StoreState
    BY <1>2, <1>4, <1>5, <1>6 DEF StateOK, StoreState
  <2>2. \A q \in kept \cup {r} : q.sequence <= r.sequence
    BY <1>2, <1>4, <1>8
  <2>3. \A p, q \in kept \cup {r} : p.key = q.key \/ p.sequence = q.sequence => p = q
    <3>. SUFFICES ASSUME NEW p \in kept \cup {r}, NEW q \in kept \cup {r},
                         p.key = q.key \/ p.sequence = q.sequence
                  PROVE  p = q
      OBVIOUS
    <3>1. CASE p \in kept /\ q \in kept
      BY <3>1, <1>6 DEF StateOK
    <3>2. CASE p = r \/ q = r
      BY <3>2, <1>2, <1>4, <1>8
    <3>. QED  BY <3>1, <3>2
  <2>. QED  BY <1>5, <1>7, <2>1, <2>2, <2>3 DEF StateOK
<1>. QED  BY <1>2, <1>4, <1>5, <1>9 DEF r, kept

\* A page is a prefix of the records in sequence order.
LEMMA PageIsPrefix ==
  ASSUME NEW R, IsFiniteSet(R), \A r \in R : r.sequence \in Nat,
         NEW q \in Page(R), NEW r \in R, r.sequence <= q.sequence, BridgeAssumption
  PROVE  r \in Page(R)
<1>. DEFINE below(x) == {y \in R : y.sequence < x.sequence}
<1>1. q \in R /\ Cardinality(below(q)) < ReadLimit
  BY DEF Page
<1>2. below(r) \subseteq below(q)
  BY <1>1
<1>3. IsFiniteSet(below(q))
  BY FS_Subset, below(q) \in SUBSET R
<1>4. /\ Cardinality(below(r)) <= Cardinality(below(q))
      /\ Cardinality(below(r)) \in Nat /\ Cardinality(below(q)) \in Nat
  BY <1>2, <1>3, FS_Subset, FS_CardinalityType
<1>5. Cardinality(below(r)) < ReadLimit
  BY <1>1, <1>4 DEF BridgeAssumption
<1>. QED  BY <1>5 DEF Page

\* What putIfAbsent starts from.
LEMMA PutStart ==
  ASSUME IInv, NEW h \in Handlers
  PROVE  /\ StateOK(PutState(h))
         /\ PutState(h).records = {r \in file.records : r.expiresAt > at[h]}
         /\ PutState(h).latestSequence \in Nat
         /\ PutState(h).latestSequence >= file.latestSequence
         /\ CopyOK(PutState(h), file, phantoms, now)
         /\ at[h] \in Nat /\ at[h] <= now
<1>1. at[h] \in Nat /\ at[h] <= now /\ boot \in Nat /\ now \in Nat
  BY DEF IInv, Types
<1>2. StateOK(file)
  BY DEF IInv
<1>3. /\ StateOK(LoadFreshState(boot)) /\ LoadFreshState(boot).records = file.records
      /\ LoadFreshState(boot).latestSequence >= file.latestSequence
  BY <1>1, <1>2, FreshState
<1>4. LoadFreshState(boot) \in StoreState
  BY <1>3 DEF StateOK
<1>5. StateOK(PutState(h)) /\ PutState(h).latestSequence = LoadFreshState(boot).latestSequence
      /\ PutState(h).records = {r \in file.records : r.expiresAt > at[h]}
  <2>1. PICK s \in StoreState : s = LoadFreshState(boot)
    BY <1>4
  <2>2. PICK t \in Nat : t = at[h]
    BY <1>1
  <2>3. PutState(h) = PruneExpiredRecords(s, t)
    BY <2>1, <2>2 DEF PutState
  <2>4. /\ StateOK(s) => StateOK(PruneExpiredRecords(s, t))
        /\ PruneExpiredRecords(s, t).latestSequence = s.latestSequence
        /\ PruneExpiredRecords(s, t).records = {r \in s.records : r.expiresAt > t}
    BY PrunedState
  <2>. QED  BY <1>3, <2>1, <2>2, <2>3, <2>4
<1>6. PutState(h).latestSequence \in Nat
  BY <1>5 DEF StateOK, StoreState
<1>7. CopyOK(PutState(h), file, phantoms, now)
  BY <1>1, <1>2, <1>3, PrunedFileIsCopy DEF PutState
<1>. QED  BY <1>1, <1>3, <1>5, <1>6, <1>7

\* The facts about the file survive when it is written with fewer records,
\* those that go being expired or taken out of the confirmations, and perhaps
\* a new one with a number above all.
LEMMA FileWritten ==
  ASSUME IInv, NEW f, StateOK(f), NEW C, NEW N, C \subseteq confirmed \cup N,
         N \subseteq f.records, \A r \in N : r.sequence > file.latestSequence,
         f.latestSequence >= file.latestSequence,
         f.records \subseteq file.records \cup N,
         \A r \in file.records : r \in f.records \/ r.expiresAt <= now \/ r \notin C
  PROVE  /\ ConfirmedOK(C, f, phantoms, now)
         /\ WrittenOK(written \cup N, f)
         /\ ReaderOK(cursor, read, f, phantoms, now)
<1>1. /\ file.latestSequence \in Nat /\ f.latestSequence \in Nat /\ cursor \in Nat
      /\ \A r \in file.records \cup f.records \cup written : r.sequence \in Nat
  BY DEF IInv, Types, StateOK, StoreState, StoredBridgeRecord
<1>2. ConfirmedOK(C, f, phantoms, now)
  BY DEF IInv, ConfirmedOK
<1>3. WrittenOK(written \cup N, f)
  BY <1>1 DEF IInv, WrittenOK, StateOK
<1>4. ReaderOK(cursor, read, f, phantoms, now)
  BY <1>1 DEF IInv, ReaderOK
<1>. QED  BY <1>2, <1>3, <1>4

\* putIfAbsent's new state, written to the file.
LEMMA FileInserted ==
  ASSUME IInv, NEW h \in Handlers, pc[h] = "put",
         Existing(PutState(h), delivery[h].key) = {}, BridgeAssumption,
         NEW C, C \subseteq (confirmed \ EvictedToCapacity(PutState(h).records)) \cup {PutRecord(h)}
  PROVE  LET f == Inserted(PutState(h), PutRecord(h))
         IN /\ StateOK(f)
            /\ PutRecord(h) \in StoredBridgeRecord
            /\ PutRecord(h).sequence > file.latestSequence
            /\ f.records \subseteq file.records \cup {PutRecord(h)}
            /\ WrittenOK(written \cup {PutRecord(h)}, f)
            /\ ConfirmedOK(C, f, phantoms, now)
            /\ ReaderOK(cursor, read, f, phantoms, now)
<1>. DEFINE s == PutState(h)
            r == PutRecord(h)
            f == Inserted(s, r)
            gone == EvictedToCapacity(s.records)
<1>1. delivery[h] \in Deliveries
  BY DEF IInv, Types
<1>2. /\ StateOK(s) /\ s.records = {q \in file.records : q.expiresAt > at[h]}
      /\ s.latestSequence \in Nat /\ s.latestSequence >= file.latestSequence
      /\ at[h] \in Nat /\ at[h] <= now
  BY PutStart
<1>3. /\ r \in StoredBridgeRecord /\ r.sequence > s.latestSequence
      /\ StateOK(f) /\ f.latestSequence = r.sequence
      /\ f.records = (s.records \ gone) \cup {r}
  <2>1. PICK z : z = PutState(h)
    OBVIOUS
  <2>2. PICK d \in Deliveries : d = delivery[h]
    BY <1>1
  <2>3. PICK t \in Nat : t = at[h]
    BY <1>2
  <2>4. PutRecord(h) = NewRecord(z, d, t)
    BY <2>1, <2>2, <2>3 DEF PutRecord
  <2>5. StateOK(z) /\ Existing(z, d.key) = {}
    BY <1>2, <2>1, <2>2
  <2>6. /\ NewRecord(z, d, t) \in StoredBridgeRecord
        /\ NewRecord(z, d, t).sequence > z.latestSequence
        /\ StateOK(Inserted(z, NewRecord(z, d, t)))
        /\ Inserted(z, NewRecord(z, d, t)).latestSequence = NewRecord(z, d, t).sequence
        /\ Inserted(z, NewRecord(z, d, t)).records =
             (z.records \ EvictedToCapacity(z.records)) \cup {NewRecord(z, d, t)}
    BY <2>5, InsertedState
  <2>. QED  BY <2>1, <2>4, <2>6
<1>. HIDE DEF s, r, f, gone
<1>4. /\ r.sequence \in Nat /\ file.latestSequence \in Nat /\ now \in Nat
      /\ \A q \in file.records : q.expiresAt \in Nat
  BY <1>3 DEF IInv, Types, StateOK, StoreState, StoredBridgeRecord
<1>5. /\ r.sequence > file.latestSequence /\ f.latestSequence >= file.latestSequence
      /\ {r} \subseteq f.records /\ f.records \subseteq file.records \cup {r}
  BY <1>2, <1>3, <1>4
<1>6. r \notin file.records
  BY <1>4, <1>5 DEF IInv, StateOK
<1>7. \A q \in file.records : q \in f.records \/ q.expiresAt <= now \/ q \notin C
  <2>. SUFFICES ASSUME NEW q \in file.records, ~(q.expiresAt <= now), q \in C
                PROVE  q \in f.records
    OBVIOUS
  <2>1. q \in s.records
    BY <1>2, <1>4
  <2>2. q \notin gone
    BY <1>6 DEF s, r, gone
  <2>. QED  BY <2>1, <2>2, <1>3
<1>8. C \subseteq confirmed \cup {r}
  BY DEF r
<1>9. /\ ConfirmedOK(C, f, phantoms, now) /\ ReaderOK(cursor, read, f, phantoms, now)
      /\ WrittenOK(written \cup {r}, f)
  BY ZenonT(40), <1>3, <1>5, <1>7, <1>8, FileWritten
<1>. QED  BY <1>3, <1>5, <1>9 DEF s, r, f

\* A record that the file holds, or whose write failed, may be confirmed.
LEMMA StoredMayBeConfirmed ==
  ASSUME NEW C, NEW f, NEW P, NEW t, StateOK(f), ConfirmedOK(C, f, P, t),
         NEW r, r \in f.records \cup P
  PROVE  ConfirmedOK(C \cup {r}, f, P, t)
BY DEF StateOK, ConfirmedOK

-----------------------------------------------------------------------------
(* The invariant.                                                          *)

LEMMA InitInv ==
  ASSUME BridgeAssumption, Init
  PROVE  IInv
<1>1. Types
  BY DEF Init, Types
<1>2. StateOK(file)
  BY FS_EmptySet DEF Init, Empty, StateOK, StoreState
<1>3. ConfirmedOK(confirmed, file, phantoms, now) /\ ReaderOK(cursor, read, file, phantoms, now)
  BY DEF Init, Empty, ConfirmedOK, ReaderOK
<1>4. WrittenOK(written, file)
  BY DEF Init, WrittenOK
<1>. QED  BY <1>1, <1>2, <1>3, <1>4 DEF Init, IInv

\* What the handlers hold, and the answers, stay of their types.
LEMMA FinishTypes ==
  ASSUME IInv, NEW h \in Handlers, Finish(h), UNCHANGED <<now, boot>>
  PROVE  /\ pc' \in [Handlers -> {"idle", "get", "put"}]
         /\ delivery' \in [Handlers -> Deliveries \cup {NoDelivery}]
         /\ at' \in [Handlers -> Nat]
         /\ \A g \in Handlers : pc'[g] # "idle" => delivery'[g] \in Deliveries
         /\ \A g \in Handlers : at'[g] <= now'
BY DEF IInv, Types, Finish

LEMMA NewProcessTypes ==
  ASSUME IInv, BridgeAssumption, NewProcess,
         \A S \in {confirmed', written'} : S \subseteq StoredBridgeRecord
  PROVE  Types' /\ cache' = NotLoaded
<1>1. now * SeqPerTick \in Nat
  BY DEF BridgeAssumption, IInv, Types
<1>. QED  BY <1>1 DEF IInv, Types, NewProcess, reader

\* The answer about a stored record: Get and PutExisting.
LEMMA ExistingAnswered ==
  ASSUME IInv, NEW h \in Handlers, NEW f, StateOK(f), NEW r \in f.records \cup phantoms,
         r \in StoredBridgeRecord, ResponseForExistingRecord(h, r),
         ConfirmedOK(confirmed, f, phantoms, now), UNCHANGED <<now, boot, reader, phantoms, written>>
  PROVE  Types' /\ ConfirmedOK(confirmed', f, phantoms, now)
<1>1. confirmed' \in {confirmed, confirmed \cup {r}} /\ Finish(h)
  BY DEF ResponseForExistingRecord
<1>2. ConfirmedOK(confirmed', f, phantoms, now)
  <2>1. ConfirmedOK(confirmed \cup {r}, f, phantoms, now)
    BY StoredMayBeConfirmed
  <2>. QED  BY <1>1, <2>1
<1>3. Types'
  BY <1>1, FinishTypes DEF IInv, Types, reader
<1>. QED  BY <1>2, <1>3

LEMMA GetStep ==
  ASSUME IInv, NEW h \in Handlers, Get(h)
  PROVE  IInv'
<1>. DEFINE s == PruneExpiredRecords(LoadCachedState, at[h])
<1>1. at[h] \in Nat /\ at[h] <= now
  BY DEF IInv, Types
<1>2. CopyOK(s, file, phantoms, now)
  BY <1>1, CachedState
<1>3. cache' = s /\ UNCHANGED <<now, boot, file, reader, phantoms, written>>
  BY DEF Get
<1>4. /\ s.records \subseteq file.records \cup phantoms
      /\ s.records \subseteq StoredBridgeRecord
  BY <1>2 DEF CopyOK, StoreState
<1>5. /\ StateOK(file) /\ ConfirmedOK(confirmed, file, phantoms, now)
      /\ WrittenOK(written, file) /\ ReaderOK(cursor, read, file, phantoms, now)
  BY DEF IInv
<1>6. Types' /\ ConfirmedOK(confirmed', file, phantoms, now)
  <2>1. CASE \E r \in s.records : ResponseForExistingRecord(h, r)
    BY <2>1, <1>3, <1>4, <1>5, ExistingAnswered
  <2>2. CASE pc' = [pc EXCEPT ![h] = "put"] /\ UNCHANGED <<delivery, at, confirmed>>
    BY <2>2, <1>3, <1>5 DEF IInv, Types, reader, Get
  <2>. HIDE DEF s
  <2>. QED  BY <2>1, <2>2 DEF Get, s
<1>. HIDE DEF s
<1>. QED  BY <1>2, <1>3, <1>5, <1>6 DEF IInv, reader

LEMMA PutExistingStep ==
  ASSUME IInv, NEW h \in Handlers, PutExisting(h)
  PROVE  IInv'
<1>. DEFINE s == PutState(h)
<1>1. /\ StateOK(s) /\ s.records = {q \in file.records : q.expiresAt > at[h]}
      /\ s.latestSequence \in Nat /\ s.latestSequence >= file.latestSequence
      /\ at[h] \in Nat /\ at[h] <= now
  BY PutStart
<1>. HIDE DEF s
<1>2. PICK r \in s.records : ResponseForExistingRecord(h, r)
  BY DEF PutExisting, Existing, s
<1>3. file' = s /\ cache' = s /\ UNCHANGED <<now, boot, reader, phantoms, written>>
  BY DEF PutExisting, s
<1>4. r \in StoredBridgeRecord
  BY <1>1 DEF StateOK, StoreState
<1>5. \A q \in file.records : q \in s.records \/ q.expiresAt <= now
  BY <1>1 DEF IInv, Types, StateOK, StoreState, StoredBridgeRecord
<1>6. /\ ConfirmedOK(confirmed, s, phantoms, now) /\ ReaderOK(cursor, read, s, phantoms, now)
      /\ WrittenOK(written, s)
  <2>1. PICK N : N = {}
    OBVIOUS
  <2>2. PICK C : C = confirmed
    OBVIOUS
  <2>3. /\ C \subseteq confirmed \cup N /\ N \subseteq s.records
        /\ \A q \in N : q.sequence > file.latestSequence
        /\ s.records \subseteq file.records \cup N
        /\ \A q \in file.records : q \in s.records \/ q.expiresAt <= now \/ q \notin C
    BY <1>1, <1>5, <2>1, <2>2
  <2>4. /\ ConfirmedOK(C, s, phantoms, now) /\ ReaderOK(cursor, read, s, phantoms, now)
        /\ WrittenOK(written \cup N, s)
    BY <1>1, <2>3, FileWritten
  <2>. QED  BY <2>1, <2>2, <2>4
<1>7. Types' /\ ConfirmedOK(confirmed', s, phantoms, now)
  BY <1>1, <1>2, <1>3, <1>4, <1>6, ExistingAnswered
<1>8. CopyOK(s, s, phantoms, now)
  BY <1>1 DEF StateOK, CopyOK
<1>. QED  BY <1>1, <1>3, <1>6, <1>7, <1>8 DEF IInv, reader

LEMMA PutInsertedStep ==
  ASSUME IInv, BridgeAssumption, NEW h \in Handlers, PutInserted(h)
  PROVE  IInv'
<1>. DEFINE f == Inserted(PutState(h), PutRecord(h))
<1>1. /\ file' = f /\ cache' = f /\ UNCHANGED <<now, boot, reader, phantoms>> /\ Finish(h)
      /\ written' = written \cup {PutRecord(h)}
      /\ confirmed' = (confirmed \ EvictedToCapacity(PutState(h).records)) \cup {PutRecord(h)}
  BY DEF PutInserted
<1>2. /\ StateOK(f) /\ PutRecord(h) \in StoredBridgeRecord
      /\ ConfirmedOK(confirmed', f, phantoms, now) /\ ReaderOK(cursor, read, f, phantoms, now)
      /\ WrittenOK(written', f)
  <2>1. PICK C : C = confirmed'
    OBVIOUS
  <2>. QED  BY <1>1, <2>1, FileInserted DEF PutInserted
<1>. HIDE DEF f
<1>3. CopyOK(f, f, phantoms, now)
  BY <1>2 DEF StateOK, CopyOK
<1>4. Types'
  BY <1>1, <1>2, FinishTypes DEF IInv, Types, reader
<1>. QED  BY <1>1, <1>2, <1>3, <1>4 DEF IInv, reader

LEMMA PutFailsStep ==
  ASSUME IInv, BridgeAssumption, NEW h \in Handlers, PutFails(h)
  PROVE  IInv'
<1>1. /\ UNCHANGED <<now, boot, file, reader, confirmed, written>> /\ Finish(h)
      /\ phantoms \subseteq phantoms'
  BY DEF PutFails
<1>2. /\ phantoms' \subseteq StoredBridgeRecord
      /\ cache' # NotLoaded => CopyOK(cache', file, phantoms', now)
  <2>1. CASE Existing(PutState(h), delivery[h].key) # {}
    BY <2>1, PutStart DEF PutFails, IInv, Types
  <2>2. CASE Existing(PutState(h), delivery[h].key) = {}
    <3>. DEFINE f == Inserted(PutState(h), PutRecord(h))
    <3>1. /\ cache' = f
          /\ phantoms' = phantoms \cup {PutRecord(h)}
      BY <2>2 DEF PutFails
    <3>2. StateOK(f) /\ PutRecord(h) \in StoredBridgeRecord
      <4>1. pc[h] = "put" /\ {} \subseteq (confirmed \ EvictedToCapacity(PutState(h).records)) \cup {PutRecord(h)}
        BY DEF PutFails
      <4>. QED  BY <2>2, <4>1, FileInserted
    <3>3. /\ f.records \subseteq PutState(h).records \cup {PutRecord(h)}
          /\ PutRecord(h).key = delivery[h].key
      BY DEF Inserted, PutRecord, NewRecord
    <3>4. /\ PutState(h).records = {q \in file.records : q.expiresAt > at[h]}
          /\ at[h] \in Nat /\ at[h] <= now
      BY PutStart
    <3>5. /\ \A q \in file.records : q.key = delivery[h].key => q.expiresAt <= now
          /\ \A p, q \in file.records : p.key = q.key => p = q
      BY <2>2, <3>4 DEF Existing, IInv, Types, StateOK, StoreState, StoredBridgeRecord
    <3>. HIDE DEF f
    <3>6. CopyOK(f, file, phantoms', now)
      BY <3>1, <3>2, <3>3, <3>4, <3>5 DEF CopyOK, StateOK
    <3>. QED  BY <3>1, <3>2, <3>6 DEF IInv, Types
  <2>. QED  BY <2>1, <2>2
<1>3. Types'
  BY <1>1, <1>2, FinishTypes DEF IInv, Types, reader
<1>4. ConfirmedOK(confirmed, file, phantoms', now) /\ ReaderOK(cursor, read, file, phantoms', now)
  BY <1>1 DEF IInv, ConfirmedOK, ReaderOK
<1>. QED  BY <1>1, <1>2, <1>3, <1>4 DEF IInv, reader

LEMMA RestartAfterPutStep ==
  ASSUME IInv, BridgeAssumption, NEW h \in Handlers, RestartAfterPut(h)
  PROVE  IInv'
<1>. DEFINE f == Inserted(PutState(h), PutRecord(h))
<1>1. /\ file' = f /\ NewProcess /\ UNCHANGED <<now, reader, phantoms>>
      /\ confirmed' = confirmed \ EvictedToCapacity(PutState(h).records)
      /\ written' = written \cup {PutRecord(h)}
  BY DEF RestartAfterPut, NewProcess
<1>2. /\ StateOK(f) /\ WrittenOK(written', f) /\ PutRecord(h) \in StoredBridgeRecord
      /\ ConfirmedOK(confirmed', f, phantoms, now) /\ ReaderOK(cursor, read, f, phantoms, now)
  <2>1. PICK C : C = confirmed'
    OBVIOUS
  <2>. QED  BY <1>1, <2>1, FileInserted DEF RestartAfterPut
<1>. HIDE DEF f
<1>3. Types' /\ cache' = NotLoaded
  <2>1. \A S \in {confirmed', written'} : S \subseteq StoredBridgeRecord
    BY <1>1, <1>2 DEF IInv, Types
  <2>. QED  BY <1>1, <2>1, NewProcessTypes
<1>. QED  BY <1>1, <1>2, <1>3 DEF IInv, reader

LEMMA ReadStep ==
  ASSUME IInv, BridgeAssumption, ReadInboundRecords
  PROVE  IInv'
<1>. DEFINE s == PruneExpiredRecords(LoadCachedState, now)
            later == {r \in s.records : r.target = ReaderTarget /\ r.sequence > cursor}
            taken == Page(later)
<1>1. /\ cache' = s /\ read' = read \cup taken
      /\ cursor' \in {cursor} \cup {r.sequence : r \in taken}
      /\ \A r \in taken : r.sequence <= cursor'
      /\ UNCHANGED <<now, boot, file, handlers, confirmed, phantoms, written>>
  BY DEF ReadInboundRecords
<1>2. CopyOK(s, file, phantoms, now)
  <2>1. PICK u \in Nat : u = now
    BY DEF IInv, Types
  <2>2. u <= now
    BY <2>1
  <2>3. CopyOK(PruneExpiredRecords(LoadCachedState, u), file, phantoms, now)
    BY <2>2, CachedState
  <2>. QED  BY <2>1, <2>3
<1>. HIDE DEF s
<1>3. /\ s.records \subseteq StoredBridgeRecord /\ IsFiniteSet(s.records)
      /\ s.records \ phantoms \subseteq file.records
  BY <1>2 DEF CopyOK, StoreState
<1>4. taken \subseteq later /\ later \subseteq s.records
  BY DEF Page
<1>5. IsFiniteSet(later) /\ \A r \in later : r.sequence \in Nat
  BY <1>3, <1>4, FS_Subset DEF StoredBridgeRecord
<1>6. cursor' \in Nat /\ cursor \in Nat /\ cursor' >= cursor
  <2>1. cursor \in Nat
    BY DEF IInv, Types
  <2>2. \A r \in taken : r.sequence \in Nat /\ r.sequence > cursor
    BY <1>4, <1>5
  <2>. HIDE DEF later
  <2>. QED  BY <1>1, <2>1, <2>2
<1>7. \A r \in later : r.sequence <= cursor' => r \in taken
  <2>. SUFFICES ASSUME NEW r \in later, r.sequence <= cursor'
                PROVE  r \in taken
    OBVIOUS
  <2>1. r.sequence > cursor
    OBVIOUS
  <2>2. cursor' # cursor
    BY <1>5, <1>6, <2>1
  <2>3. PICK q \in taken : q.sequence = cursor'
    BY <1>1, <2>2
  <2>4. r.sequence <= q.sequence
    BY <2>3
  <2>. HIDE DEF later
  <2>. QED  BY <1>5, <2>4, PageIsPrefix
<1>8. ReaderOK(cursor', read', file, phantoms, now)
  <2>. SUFFICES ASSUME phantoms = {}
                PROVE  /\ cursor' <= file.latestSequence
                       /\ \A r \in file.records : r.target = ReaderTarget /\ r.sequence <= cursor'
                            => r \in read' \/ r.expiresAt <= now
    BY DEF ReaderOK
  <2>1. /\ cursor <= file.latestSequence
        /\ \A r \in file.records : r.target = ReaderTarget /\ r.sequence <= cursor
             => r \in read \/ r.expiresAt <= now
    BY DEF IInv, ReaderOK
  <2>2. cursor' <= file.latestSequence
    BY ZenonT(40), <1>1, <1>3, <1>4, <2>1 DEF IInv, StateOK
  <2>3. ASSUME NEW r \in file.records, r.target = ReaderTarget, r.sequence <= cursor',
               ~(r.sequence <= cursor)
        PROVE  r \in taken \/ r.expiresAt <= now
    <3>1. r \in s.records \/ r.expiresAt <= now
      BY <1>2 DEF CopyOK
    <3>2. r.sequence \in Nat
      BY DEF IInv, StateOK, StoreState, StoredBridgeRecord
    <3>3. r \in s.records => r \in later
      BY <1>6, <2>3, <3>2
    <3>. QED  BY <1>7, <2>3, <3>1, <3>3
  <2>. QED  BY <1>1, <2>1, <2>2, <2>3
<1>9. Types'
  BY <1>1, <1>3, <1>4, <1>6 DEF IInv, Types, handlers
<1>. HIDE DEF later
<1>. QED  BY <1>1, <1>2, <1>8, <1>9 DEF IInv, handlers

LEMMA PruneExpiredStep ==
  ASSUME IInv, PruneExpired
  PROVE  IInv'
<1>1. now \in Nat /\ boot \in Nat /\ StateOK(file)
  BY DEF IInv, Types
<1>2. PICK s : s = LoadFreshState(boot)
  OBVIOUS
<1>3. PICK t \in Nat : t = now
  BY <1>1
<1>4. PICK p : p = PruneExpiredRecords(s, t)
  OBVIOUS
<1>5. /\ cache' = p /\ file' \in {file, p}
      /\ UNCHANGED <<now, boot, handlers, reader, confirmed, phantoms, written>>
  BY <1>2, <1>3, <1>4 DEF PruneExpired
<1>6. /\ StateOK(s) /\ s.records = file.records /\ s \in StoreState
      /\ s.latestSequence >= file.latestSequence
  BY <1>1, <1>2, FreshState DEF StateOK
<1>7. /\ StateOK(p) /\ p.records = {r \in file.records : r.expiresAt > t}
      /\ p.latestSequence = s.latestSequence
  BY <1>4, <1>6, PrunedState
<1>8. CopyOK(p, file, phantoms, now)
  <2>1. t <= now
    BY <1>3
  <2>. QED  BY <1>1, <1>4, <1>6, <2>1, PrunedFileIsCopy
<1>9. CopyOK(p, p, phantoms, now)
  BY <1>7 DEF StateOK, CopyOK
<1>10. /\ ConfirmedOK(confirmed, p, phantoms, now) /\ ReaderOK(cursor, read, p, phantoms, now)
       /\ WrittenOK(written, p)
  <2>1. PICK N : N = {}
    OBVIOUS
  <2>2. PICK C : C = confirmed
    OBVIOUS
  <2>3. \A q \in file.records : q \in p.records \/ q.expiresAt <= now
    BY <1>1, <1>3, <1>7 DEF StateOK, StoreState, StoredBridgeRecord
  <2>4. /\ C \subseteq confirmed \cup N /\ N \subseteq p.records
        /\ \A q \in N : q.sequence > file.latestSequence
        /\ p.records \subseteq file.records \cup N
        /\ p.latestSequence >= file.latestSequence
        /\ \A q \in file.records : q \in p.records \/ q.expiresAt <= now \/ q \notin C
    BY <1>6, <1>7, <2>1, <2>2, <2>3
  <2>5. /\ ConfirmedOK(C, p, phantoms, now) /\ ReaderOK(cursor, read, p, phantoms, now)
        /\ WrittenOK(written \cup N, p)
    BY <1>7, <2>4, FileWritten
  <2>. QED  BY <2>1, <2>2, <2>5
<1>11. Types'
  BY <1>5 DEF IInv, Types, handlers, reader
<1>. QED  BY <1>1, <1>5, <1>7, <1>8, <1>9, <1>10, <1>11 DEF IInv, handlers, reader

\* Time passes: more records are expired.
LEMMA TickStep ==
  ASSUME IInv, Tick
  PROVE  IInv'
<1>1. /\ now \in Nat /\ now' = now + 1
      /\ UNCHANGED <<boot, file, cache, handlers, reader, confirmed, phantoms, written>>
  BY DEF IInv, Types, Tick
<1>2. \A r \in StoredBridgeRecord : r.expiresAt <= now => r.expiresAt <= now'
  BY <1>1 DEF StoredBridgeRecord
<1>3. file.records \subseteq StoredBridgeRecord /\ confirmed \subseteq StoredBridgeRecord
  BY DEF IInv, Types, StateOK, StoreState
<1>4. cache # NotLoaded => CopyOK(cache, file, phantoms, now')
  BY <1>2, <1>3 DEF IInv, CopyOK
<1>5. ConfirmedOK(confirmed, file, phantoms, now') /\ ReaderOK(cursor, read, file, phantoms, now')
  BY <1>2, <1>3 DEF IInv, ConfirmedOK, ReaderOK
<1>6. Types'
  BY <1>1 DEF IInv, Types, handlers, reader
<1>. QED  BY <1>1, <1>4, <1>5, <1>6 DEF IInv, handlers, reader

LEMMA InvStep ==
  ASSUME IInv, BridgeAssumption, [Next]_vars
  PROVE  IInv'
<1>1. ASSUME NEW h \in Handlers, NEW d \in Deliveries, AcceptDelivery(h, d)
      PROVE  IInv'
  <2>1. /\ UNCHANGED <<now, boot, file, cache, reader, confirmed, phantoms, written>>
        /\ pc' = [pc EXCEPT ![h] = "get"] /\ delivery' = [delivery EXCEPT ![h] = d]
        /\ at' = [at EXCEPT ![h] = now]
    BY <1>1 DEF AcceptDelivery
  <2>2. Types'
    BY <2>1 DEF IInv, Types, reader
  <2>. QED  BY <2>1, <2>2 DEF IInv, reader
<1>2. ASSUME Restart
      PROVE  IInv'
  <2>1. UNCHANGED <<now, file, confirmed, phantoms, written, reader>> /\ NewProcess
    BY <1>2 DEF Restart, NewProcess
  <2>2. Types' /\ cache' = NotLoaded
    BY <2>1, NewProcessTypes DEF IInv, Types
  <2>. QED  BY <2>1, <2>2 DEF IInv, reader
<1>3. CASE UNCHANGED vars
  BY <1>3 DEF IInv, Types, vars
<1>. QED
  BY <1>1, <1>2, <1>3, GetStep, PutExistingStep, PutInsertedStep, PutFailsStep,
     RestartAfterPutStep, ReadStep, PruneExpiredStep, TickStep DEF Next, Handle

LEMMA Invariance == Spec => []IInv
<1>. USE BridgeAssumption
<1>1. Init => IInv
  BY InitInv
<1>2. IInv /\ [Next]_vars => IInv'
  BY InvStep
<1>. QED  BY <1>1, <1>2, PTL DEF Spec

-----------------------------------------------------------------------------
(* The properties.                                                         *)

\* Only putIfAbsent puts a record in the file.
LEMMA FileGrowsByPut ==
  ASSUME IInv, [Next]_vars
  PROVE  \/ file'.records \subseteq file.records
         \/ \E h \in Handlers : PutInserted(h) \/ RestartAfterPut(h)
<1>1. \A h \in Handlers : PutState(h).records \subseteq file.records
  BY PutStart
<1>2. ASSUME PruneExpired
      PROVE  file'.records \subseteq file.records
  <2>1. LoadFreshState(boot).records = file.records /\ LoadFreshState(boot) \in StoreState
    BY FreshState DEF IInv, Types, StateOK
  <2>2. PICK s \in StoreState : s = LoadFreshState(boot)
    BY <2>1
  <2>3. PICK t \in Nat : t = now
    BY DEF IInv, Types
  <2>4. PruneExpiredRecords(s, t).records = {r \in s.records : r.expiresAt > t}
    BY PrunedState
  <2>. QED  BY <1>2, <2>1, <2>2, <2>3, <2>4 DEF PruneExpired
<1>. QED
  BY <1>1, <1>2 DEF Next, Handle, AcceptDelivery, Get, PutExisting, PutFails,
     ReadInboundRecords, Restart, Tick, vars

\* putIfAbsent gives a record that is written a number above every number the
\* file has ever held: nextSequence goes above latestSequence, which the file
\* keeps when the records themselves have gone.
THEOREM BridgeSequencesNameRecords == Spec => SequencesNameRecords
<1>1. IInv /\ BridgeAssumption /\ [Next]_vars =>
        [\A r \in file'.records \ file.records, q \in written : q.sequence < r.sequence]_vars
  <2>. SUFFICES ASSUME IInv, BridgeAssumption, [Next]_vars,
                       NEW r \in file'.records \ file.records, NEW q \in written
                PROVE  q.sequence < r.sequence
    OBVIOUS
  <2>1. PICK h \in Handlers : PutInserted(h) \/ RestartAfterPut(h)
    BY FileGrowsByPut
  <2>2. /\ PutRecord(h).sequence > file.latestSequence
        /\ PutRecord(h) \in StoredBridgeRecord
        /\ Inserted(PutState(h), PutRecord(h)).records \subseteq file.records \cup {PutRecord(h)}
    <3>1. {} \subseteq (confirmed \ EvictedToCapacity(PutState(h).records)) \cup {PutRecord(h)}
      OBVIOUS
    <3>. QED  BY <2>1, <3>1, FileInserted DEF PutInserted, RestartAfterPut
  <2>3. r = PutRecord(h)
    BY <2>1, <2>2 DEF PutInserted, RestartAfterPut
  <2>4. /\ q.sequence <= file.latestSequence
        /\ q.sequence \in Nat /\ file.latestSequence \in Nat /\ r.sequence \in Nat
    BY <2>2, <2>3 DEF IInv, Types, WrittenOK, StateOK, StoreState, StoredBridgeRecord
  <2>. QED  BY <2>2, <2>3, <2>4
<1>. QED  BY <1>1, BridgeAssumption, Invariance, PTL DEF Spec, SequencesNameRecords

\* What acceptDelivery confirmed stays in the file until it expires or is
\* shifted out for capacity, if its write did not fail.
THEOREM BridgeConfirmedIsStored == Spec => []ConfirmedIsStored
<1>1. IInv => ConfirmedIsStored
  BY DEF IInv, ConfirmedOK, ConfirmedIsStored
<1>. QED  BY <1>1, Invariance, PTL

\* While no write has failed, the inbound reader's cursor passes over no live
\* record of its stream that it has not been given.
THEOREM BridgeReaderMissesNothing == Spec => []ReaderMissesNothing
<1>1. IInv => ReaderMissesNothing
  BY DEF IInv, ReaderOK, ReaderMissesNothing
<1>. QED  BY <1>1, Invariance, PTL

\* A step confirms no second delivery under an idempotency key whose record
\* is still alive.
LEMMA OneDeliveryStep ==
  ASSUME IInv, [Next]_vars,
         NEW q \in confirmed' \ confirmed, NEW r \in confirmed \ phantoms,
         r.key = q.key, ~SameDelivery(r, q)
  PROVE  r.expiresAt <= now
<1>1. (r \in file.records \/ r.expiresAt <= now) /\ r # q
  BY DEF IInv, ConfirmedOK, SameDelivery
<1>2. ASSUME NEW h \in Handlers, Get(h)
      PROVE  r.expiresAt <= now
  <2>. DEFINE s == PruneExpiredRecords(LoadCachedState, at[h])
  <2>1. at[h] \in Nat /\ at[h] <= now
    BY DEF IInv, Types
  <2>2. CopyOK(s, file, phantoms, now)
    BY <2>1, CachedState
  <2>3. q \in s.records
    BY <1>2 DEF Get, ResponseForExistingRecord
  <2>. HIDE DEF s
  <2>. QED  BY <1>1, <2>2, <2>3 DEF CopyOK
<1>3. ASSUME NEW h \in Handlers, PutExisting(h)
      PROVE  r.expiresAt <= now
  <2>1. q \in PutState(h).records
    BY <1>3 DEF PutExisting, Existing, ResponseForExistingRecord
  <2>2. CopyOK(PutState(h), file, phantoms, now)
    BY PutStart
  <2>. QED  BY <1>1, <2>1, <2>2 DEF CopyOK
<1>4. ASSUME NEW h \in Handlers, PutInserted(h)
      PROVE  r.expiresAt <= now
  <2>1. q = PutRecord(h) /\ Existing(PutState(h), delivery[h].key) = {}
    BY <1>4 DEF PutInserted
  <2>2. q.key = delivery[h].key
    BY <2>1 DEF PutRecord, NewRecord
  <2>3. /\ PutState(h).records = {x \in file.records : x.expiresAt > at[h]}
        /\ at[h] \in Nat /\ at[h] <= now
    BY PutStart
  <2>4. r \in file.records => ~(r.expiresAt > at[h])
    BY <2>1, <2>2, <2>3 DEF Existing
  <2>5. \A x \in file.records : x.expiresAt \in Nat
    BY DEF IInv, StateOK, StoreState, StoredBridgeRecord
  <2>. QED  BY <1>1, <2>3, <2>4, <2>5 DEF IInv, Types
<1>. QED
  BY <1>2, <1>3, <1>4 DEF Next, Handle, AcceptDelivery, PutFails, RestartAfterPut,
     ReadInboundRecords, PruneExpired, Restart, Tick, vars

\* One event per idempotency key, for any number of requests whose get and
\* putIfAbsent interleave.
THEOREM BridgeOneDeliveryPerKey == Spec => OneDeliveryPerKey
<1>1. IInv /\ [Next]_vars =>
        [\A q \in confirmed' \ confirmed, r \in confirmed \ phantoms :
           r.key = q.key /\ ~SameDelivery(r, q) => r.expiresAt <= now]_vars
  BY OneDeliveryStep
<1>. QED  BY <1>1, Invariance, PTL DEF Spec, OneDeliveryPerKey

\* A finite set with numbered members has one with the lowest number.
LEMMA LowestOfFinite ==
  ASSUME NEW R, IsFiniteSet(R), \A r \in R : r.sequence \in Nat,
         NEW K \in SUBSET R, K # {}
  PROVE  \E r \in K : \A q \in K : q.sequence >= r.sequence
<1>. DEFINE below(x) == {y \in R : y.sequence < x.sequence}
            T == {below(r) : r \in K}
<1>1. IsWellFoundedOn(StrictSubsetOrdering(R), FiniteSubsetsOf(R))
  BY FS_StrictSubsetOrderingWellFounded
<1>2. T \subseteq FiniteSubsetsOf(R) /\ T # {}
  <2>1. \A r \in K : below(r) \in SUBSET R /\ IsFiniteSet(below(r))
    BY FS_Subset
  <2>. QED  BY <2>1 DEF FiniteSubsetsOf
<1>. HIDE DEF T
<1>3. PICK x \in T : \A y \in T : ~(<<y, x>> \in StrictSubsetOrdering(R))
  BY <1>1, <1>2, WFMin
<1>4. PICK r \in K : x = below(r)
  BY <1>3 DEF T
<1>5. ASSUME NEW q \in K, ~(q.sequence >= r.sequence)
      PROVE  FALSE
  <2>1. q.sequence \in Nat /\ r.sequence \in Nat /\ q.sequence < r.sequence /\ q \in R
    BY <1>5
  <2>2. below(q) \subseteq below(r) /\ q \in below(r) /\ q \notin below(q)
    BY <2>1
  <2>3. below(q) \in T
    BY DEF T
  <2>4. <<below(q), x>> \in StrictSubsetOrdering(R)
    BY <1>4, <2>2 DEF StrictSubsetOrdering
  <2>. QED  BY <1>3, <2>3, <2>4
<1>. QED  BY <1>5

\* putIfAbsent shifts out enough records to make room for one.
LEMMA RoomIsMade ==
  ASSUME BridgeAssumption, NEW R, IsFiniteSet(R), \A r \in R : r.sequence \in Nat,
         \A r, q \in R : r.sequence = q.sequence => r = q
  PROVE  /\ IsFiniteSet(R \ EvictedToCapacity(R))
         /\ Cardinality(R \ EvictedToCapacity(R)) \in Nat
         /\ Cardinality(R \ EvictedToCapacity(R)) + 1 <= MaxRecords
<1>. DEFINE above(x) == {y \in R : y.sequence > x.sequence}
            K == R \ EvictedToCapacity(R)
<1>1. IsFiniteSet(K) /\ Cardinality(K) \in Nat /\ K \in SUBSET R
  BY FS_Subset, FS_CardinalityType, K \in SUBSET R
<1>2. \A r \in R : IsFiniteSet(above(r)) /\ Cardinality(above(r)) \in Nat
  BY FS_Subset, FS_CardinalityType, \A r \in R : above(r) \in SUBSET R
<1>3. \A r \in K : Cardinality(above(r)) + 1 < MaxRecords
  <2>. SUFFICES ASSUME NEW r \in K
                PROVE  Cardinality(above(r)) + 1 < MaxRecords
    OBVIOUS
  <2>1. r \in R /\ ~(Cardinality(above(r)) + 1 >= MaxRecords)
    BY DEF EvictedToCapacity
  <2>2. Cardinality(above(r)) \in Nat
    BY <1>2, <2>1
  <2>. HIDE DEF above
  <2>. QED  BY <2>1, <2>2 DEF BridgeAssumption
<1>. HIDE DEF K
<1>4. CASE K = {}
  BY <1>1, <1>4, FS_EmptySet DEF BridgeAssumption, K
<1>5. CASE K # {}
  <2>1. PICK r \in K : \A q \in K : q.sequence >= r.sequence
    BY <1>1, <1>5, LowestOfFinite
  <2>2. K \ {r} \subseteq above(r)
    BY <1>1, <2>1
  <2>3. Cardinality(K \ {r}) = Cardinality(K) - 1
    BY <1>1, FS_RemoveElement
  <2>4. Cardinality(K \ {r}) <= Cardinality(above(r))
    BY <1>1, <1>2, <2>2, FS_Subset
  <2>5. Cardinality(above(r)) + 1 < MaxRecords /\ Cardinality(above(r)) \in Nat
    BY <1>1, <1>2, <1>3
  <2>. HIDE DEF above
  <2>6. Cardinality(K) + 1 <= MaxRecords
    BY <1>1, <2>3, <2>4, <2>5 DEF BridgeAssumption
  <2>. QED  BY <1>1, <2>6 DEF K
<1>. QED  BY <1>4, <1>5

\* The file never outgrows its capacity.
LEMMA CapacityStep ==
  ASSUME BridgeAssumption, IInv, [Next]_vars, Cardinality(file.records) <= MaxRecords
  PROVE  Cardinality(file'.records) <= MaxRecords
<1>1. ASSUME file'.records \subseteq file.records
      PROVE  Cardinality(file'.records) <= MaxRecords
  <2>1. IsFiniteSet(file.records)
    BY DEF IInv, StateOK
  <2>2. /\ Cardinality(file'.records) <= Cardinality(file.records)
        /\ Cardinality(file'.records) \in Nat /\ Cardinality(file.records) \in Nat
    BY <1>1, <2>1, FS_Subset, FS_CardinalityType
  <2>. QED  BY <2>2 DEF BridgeAssumption
<1>2. ASSUME NEW h \in Handlers, file' = Inserted(PutState(h), PutRecord(h))
      PROVE  Cardinality(file'.records) <= MaxRecords
  <2>1. PICK R : R = PutState(h).records
    OBVIOUS
  <2>2. /\ IsFiniteSet(R) /\ \A r \in R : r.sequence \in Nat
        /\ \A r, q \in R : r.sequence = q.sequence => r = q
    BY <2>1, PutStart DEF StateOK, StoreState, StoredBridgeRecord
  <2>3. PICK K : K = R \ EvictedToCapacity(R)
    OBVIOUS
  <2>4. IsFiniteSet(K) /\ Cardinality(K) \in Nat /\ Cardinality(K) + 1 <= MaxRecords
    BY <2>2, <2>3, RoomIsMade
  <2>5. file'.records = K \cup {PutRecord(h)}
    BY <1>2, <2>1, <2>3 DEF Inserted
  <2>6. Cardinality(K \cup {PutRecord(h)}) \in {Cardinality(K), Cardinality(K) + 1}
    BY <2>4, FS_AddElement
  <2>. QED  BY <2>4, <2>5, <2>6 DEF BridgeAssumption
<1>3. file'.records \subseteq file.records
      \/ \E h \in Handlers : file' = Inserted(PutState(h), PutRecord(h))
  BY FileGrowsByPut DEF PutInserted, RestartAfterPut
<1>. QED  BY <1>1, <1>2, <1>3

\* Type correctness, and the capacity of the file: putIfAbsent shifts records
\* out before it pushes the new one.
THEOREM BridgeTypeCorrect == Spec => []TypeOK
<1>. DEFINE Fits == Cardinality(file.records) <= MaxRecords
<1>. USE BridgeAssumption
<1>1. Init => Fits
  BY FS_EmptySet DEF Init, Empty, BridgeAssumption
<1>2. IInv /\ Fits /\ [Next]_vars => Fits'
  BY CapacityStep
<1>3. IInv /\ Fits => TypeOK
  BY DEF IInv, Types, StateOK, CopyOK, TypeOK, BridgeAssumption
<1>. HIDE DEF Fits
<1>. QED  BY <1>1, <1>2, <1>3, Invariance, PTL DEF Spec

-----------------------------------------------------------------------------
(* Sequences.                                                              *)

\* What a sequence holds, and where.
LEMMA PlaceOf ==
  ASSUME NEW S, NEW s \in Seq(S), NEW i \in DOMAIN s
  PROVE  i \in Nat \ {0} /\ i <= Len(s) /\ Len(s) \in Nat /\ s[i] \in S
OBVIOUS

-----------------------------------------------------------------------------
(* The token registry.                                                     *)

\* The saves that run, each with a copy that lacks what it revokes.
SavesAreTyped ==
  /\ tokenSaves \in Seq([copy: SUBSET Tokens, revoking: Ids(Tokens) \cup {NoId}])
  /\ \A i \in DOMAIN tokenSaves :
       tokenSaves[i].revoking # NoId => tokenSaves[i].revoking \notin Ids(tokenSaves[i].copy)

\* A bridge that is down has no tokens and no saves.
DownIsEmpty == ~tokenUp => tokens = {} /\ tokenSaves = <<>>

\* Where a revoked identifier is not.
Nowhere(id) ==
  /\ id \notin Ids(tokens)
  /\ \A i \in DOMAIN tokenSaves : id \notin Ids(tokenSaves[i].copy)
  /\ tokenFile # NoFile /\ id \notin Ids(tokenFile)

RevokedIsNowhere == ~overtaken => \A id \in revoked : Nowhere(id)

SetsAreTyped == tokens \subseteq Tokens /\ (tokenFile = NoFile \/ tokenFile \subseteq Tokens)

TInv == SavesAreTyped /\ SetsAreTyped /\ DownIsEmpty /\ RevokedIsNowhere

-----------------------------------------------------------------------------
(* Sequences.                                                              *)

\* What is left of a sequence without one of its elements.
LEMMA WithoutOne ==
  ASSUME NEW S, NEW s \in Seq(S), NEW i \in DOMAIN s
  PROVE  /\ RemoveAt(s, i) \in Seq(S)
         /\ \A j \in DOMAIN RemoveAt(s, i) :
              \E k \in DOMAIN s :
                RemoveAt(s, i)[j] = s[k] /\ k # i /\ k = IF j < i THEN j ELSE j + 1
<1> DEFINE front == SubSeq(s, 1, i - 1)
           back == SubSeq(s, i + 1, Len(s))
<1>1. i \in 1..Len(s) /\ Len(s) \in Nat
  OBVIOUS
<1>2. /\ front \in Seq(S) /\ Len(front) = i - 1
      /\ \A j \in 1..(i - 1) : front[j] = s[j]
  BY <1>1
<1>3. /\ back \in Seq(S) /\ Len(back) = Len(s) - i
      /\ \A j \in 1..(Len(s) - i) : back[j] = s[i + j]
  BY <1>1
<1>4. RemoveAt(s, i) = front \o back
  BY DEF RemoveAt
<1> HIDE DEF front, back
<1>5. /\ front \o back \in Seq(S) /\ Len(front \o back) = Len(s) - 1
      /\ \A j \in 1..(Len(s) - 1) :
           (front \o back)[j] = IF j < i THEN front[j] ELSE back[j - (i - 1)]
  BY SMTT(30), <1>1, <1>2, <1>3
<1>6. ASSUME NEW j \in 1..(Len(s) - 1)
      PROVE  (front \o back)[j] = s[IF j < i THEN j ELSE j + 1]
  <2>1. CASE j < i
    BY <2>1, <1>1, <1>2, <1>5
  <2>2. CASE ~(j < i)
    <3>1. j - (i - 1) \in 1..(Len(s) - i) /\ i + (j - (i - 1)) = j + 1
      BY <2>2, <1>1
    <3>2. back[j - (i - 1)] = s[i + (j - (i - 1))]
      BY <3>1, <1>3
    <3>3. (front \o back)[j] = back[j - (i - 1)]
      BY <2>2, <1>5
    <3> QED BY <2>2, <3>1, <3>2, <3>3
  <2> QED BY <2>1, <2>2
<1>7. DOMAIN RemoveAt(s, i) = 1..(Len(s) - 1)
  BY <1>1, <1>4, <1>5
<1>8. ASSUME NEW j \in DOMAIN RemoveAt(s, i)
      PROVE  LET k == IF j < i THEN j ELSE j + 1
             IN  k \in DOMAIN s /\ k # i /\ RemoveAt(s, i)[j] = s[k]
  <2>1. j \in 1..(Len(s) - 1) /\ DOMAIN s = 1..Len(s)
    BY <1>7
  <2>2. RemoveAt(s, i)[j] = s[IF j < i THEN j ELSE j + 1]
    BY <2>1, <1>4, <1>6
  <2> QED BY <2>1, <2>2, <1>1
<1> QED BY <1>4, <1>5, <1>8

-----------------------------------------------------------------------------
\* At first no token is revoked, and none is in a file or on its way there.
LEMMA TokenInitInv == TokenInit => TInv
BY TokenAssumption DEF TokenAssumption, TokenInit, TInv, SavesAreTyped, SetsAreTyped, DownIsEmpty, RevokedIsNowhere

\* Memory changes to a set that lacks what is being revoked, and what is still revoked.
LEMMA PersistKeeps ==
  ASSUME TInv, NEW set \in SUBSET Tokens, NEW id \in Ids(Tokens) \cup {NoId},
         Persist(set, id), id # NoId => id \notin Ids(set),
         revoked' \subseteq revoked,
         \A x \in revoked' : x \notin Ids(tokens) => x \notin Ids(set)
  PROVE  TInv'
<1> DEFINE save == [copy |-> set, revoking |-> id]
<1>1. tokenSaves' = Append(tokenSaves, save) /\ tokens' = set /\ tokenUp /\ tokenUp' = tokenUp
      /\ tokenFile' = tokenFile /\ overtaken' = overtaken
  BY DEF Persist
<1>2. save \in [copy: SUBSET Tokens, revoking: Ids(Tokens) \cup {NoId}]
  OBVIOUS
<1>3. /\ tokenSaves' \in Seq([copy: SUBSET Tokens, revoking: Ids(Tokens) \cup {NoId}])
      /\ \A i \in DOMAIN tokenSaves' :
           tokenSaves'[i] = save \/ (i \in DOMAIN tokenSaves /\ tokenSaves'[i] = tokenSaves[i])
  BY <1>1, <1>2 DEF TInv, SavesAreTyped
<1>4. SavesAreTyped'
  BY <1>3 DEF TInv, SavesAreTyped, Ids
<1>5. DownIsEmpty' /\ SetsAreTyped'
  BY <1>1 DEF TInv, SetsAreTyped, DownIsEmpty
<1>6. RevokedIsNowhere'
  BY <1>1, <1>3 DEF TInv, RevokedIsNowhere, Nowhere, Ids
<1> QED BY <1>4, <1>5, <1>6 DEF TInv

\* Saves that go leave the others as they are.
LEMMA FewerSaves ==
  ASSUME TInv, NEW i \in DOMAIN tokenSaves, tokenSaves' = RemoveAt(tokenSaves, i)
  PROVE  /\ SavesAreTyped'
         /\ \A j \in DOMAIN tokenSaves' :
              \E k \in DOMAIN tokenSaves : tokenSaves'[j] = tokenSaves[k] /\ (i = 1 => k > i)
<1> DEFINE Save == [copy: SUBSET Tokens, revoking: Ids(Tokens) \cup {NoId}]
<1>1. tokenSaves \in Seq(Save)
  BY DEF TInv, SavesAreTyped
<1>2. /\ tokenSaves' \in Seq(Save)
      /\ \A j \in DOMAIN tokenSaves' :
           \E k \in DOMAIN tokenSaves :
             tokenSaves'[j] = tokenSaves[k] /\ k # i /\ k = IF j < i THEN j ELSE j + 1
  BY <1>1, WithoutOne
<1>3. DOMAIN tokenSaves \subseteq Nat \ {0}
  BY <1>1
<1> QED BY <1>2, <1>3 DEF TInv, SavesAreTyped, Ids

\* A save lands: unless it overtook another, it puts back nothing that was revoked, and
\* what it revokes is in no copy after it.
LEMMA LandingKeeps ==
  ASSUME TInv, NEW i \in DOMAIN tokenSaves, SaveLands(i)
  PROVE  TInv'
<1> DEFINE save == tokenSaves[i]
<1>1. /\ tokenFile' = save.copy /\ tokenSaves' = RemoveAt(tokenSaves, i)
      /\ overtaken' = (overtaken \/ i > 1) /\ tokens' = tokens /\ tokenUp' = tokenUp
  BY DEF SaveLands
<1>2. /\ SavesAreTyped'
      /\ \A j \in DOMAIN tokenSaves' :
           \E k \in DOMAIN tokenSaves : tokenSaves'[j] = tokenSaves[k] /\ (i = 1 => k > i)
  BY <1>1, FewerSaves
<1>3. /\ save.copy \subseteq Tokens /\ save.copy # NoFile /\ i \in Nat \ {0}
      /\ save.revoking # NoId => save.revoking \notin Ids(save.copy)
  <2>1. tokenSaves \in Seq([copy: SUBSET Tokens, revoking: Ids(Tokens) \cup {NoId}])
    BY DEF TInv, SavesAreTyped
  <2>2. save \in [copy: SUBSET Tokens, revoking: Ids(Tokens) \cup {NoId}] /\ i \in Nat \ {0}
    BY <2>1, PlaceOf
  <2> QED BY <2>2, TokenAssumption DEF TInv, SavesAreTyped, TokenAssumption
<1>4. DownIsEmpty' /\ SetsAreTyped'
  BY <1>1, <1>3 DEF TInv, DownIsEmpty, SetsAreTyped
<1>5. ASSUME ~overtaken', NEW id \in revoked'
      PROVE  Nowhere(id)'
  <2>1. ~overtaken /\ i = 1
    <3>1. ~overtaken /\ ~(i > 1)
      BY <1>1, <1>5, Zenon
    <3> QED BY <3>1, <1>3
  <2>3. CASE id \in revoked
    BY <2>1, <2>3, <1>1, <1>2, <1>3 DEF TInv, RevokedIsNowhere, Nowhere, Ids
  <2>4. CASE id \notin revoked
    <3>1. /\ id = save.revoking /\ id # NoId /\ id \notin Ids(tokens)
          /\ \A j \in DOMAIN tokenSaves : j > i => id \notin Ids(tokenSaves[j].copy)
      BY <2>4 DEF SaveLands, Ids
    <3>2. id \notin Ids(save.copy)
      BY <3>1, <1>3
    <3> QED BY <2>1, <3>1, <3>2, <1>1, <1>2, <1>3 DEF Nowhere, Ids
  <2> QED BY <2>3, <2>4
<1> QED BY <1>2, <1>4, <1>5 DEF TInv, RevokedIsNowhere

-----------------------------------------------------------------------------
\* Every step of the registry keeps the invariant.
LEMMA TokenStepInv == TInv /\ [TokenNext]_tokenVars => TInv'
<1> SUFFICES ASSUME TInv, [TokenNext]_tokenVars PROVE TInv'
  OBVIOUS
<1> USE DEF TInv
<1>1. ASSUME NEW t \in Tokens, addToken(t) PROVE TInv'
  <2>1. tokens \cup {t} \in SUBSET Tokens /\ NoId \in Ids(Tokens) \cup {NoId}
    BY DEF SetsAreTyped
  <2>2. /\ Persist(tokens \cup {t}, NoId)
        /\ revoked' = revoked \ {t.id}
    BY <1>1 DEF addToken
  <2>3. \A x \in revoked' : x \notin Ids(tokens) => x \notin Ids(tokens \cup {t})
    BY <2>2 DEF Ids
  <2> QED BY <2>1, <2>2, <2>3, PersistKeeps
<1>2. ASSUME NEW id \in Ids(Tokens), revokeToken(id) PROVE TInv'
  <2> DEFINE rest == {t \in tokens : t.id # id}
  <2>1. rest \in SUBSET Tokens /\ id \in Ids(Tokens) \cup {NoId} /\ id \notin Ids(rest)
    BY DEF SetsAreTyped, Ids
  <2>2. Persist(rest, id) /\ revoked' = revoked
    BY <1>2 DEF revokeToken
  <2>3. \A x \in revoked' : x \notin Ids(tokens) => x \notin Ids(rest)
    BY DEF Ids
  <2> HIDE DEF rest
  <2> QED BY <2>1, <2>2, <2>3, PersistKeeps
<1>3. ASSUME NEW i \in DOMAIN tokenSaves, SaveLands(i) PROVE TInv'
  BY <1>3, LandingKeeps
<1>4. ASSUME NEW i \in DOMAIN tokenSaves, SaveFails(i) PROVE TInv'
  <2>1. /\ tokenSaves' = RemoveAt(tokenSaves, i)
        /\ UNCHANGED <<tokens, tokenFile, tokenUp, revoked, overtaken>>
    BY <1>4 DEF SaveFails
  <2>2. /\ SavesAreTyped'
        /\ \A j \in DOMAIN tokenSaves' :
             \E k \in DOMAIN tokenSaves : tokenSaves'[j] = tokenSaves[k]
    BY <2>1, FewerSaves
  <2>3. tokenSaves # <<>>
    BY <1>4
  <2> QED BY <2>1, <2>2, <2>3 DEF SetsAreTyped, DownIsEmpty, RevokedIsNowhere, Nowhere, Ids
<1>5. CASE TokenCrash
  BY <1>5 DEF TokenCrash, SavesAreTyped, SetsAreTyped, DownIsEmpty, RevokedIsNowhere, Nowhere, Ids
<1>6. CASE TokenStart
  <2>1. tokenSaves = <<>> /\ tokenSaves' = <<>> /\ tokenUp'
    BY <1>6 DEF TokenStart, DownIsEmpty
  <2>2. SavesAreTyped' /\ DownIsEmpty'
    BY <2>1 DEF SavesAreTyped, DownIsEmpty
  <2>3. SetsAreTyped'
    BY <1>6, TokenAssumption DEF TokenStart, Loaded, SetsAreTyped, TokenAssumption
  <2> QED BY <1>6, <2>1, <2>2, <2>3, TokenAssumption
          DEF TokenStart, Loaded, RevokedIsNowhere, Nowhere, Ids, TokenAssumption
<1>7. CASE TokenTick \/ UNCHANGED tokenVars
  BY <1>7 DEF TokenTick, tokenVars, SavesAreTyped, SetsAreTyped, DownIsEmpty, RevokedIsNowhere, Nowhere, Ids
<1> QED BY <1>1, <1>2, <1>3, <1>4, <1>5, <1>6, <1>7 DEF TokenNext

\* A token whose revocation has returned is not accepted again, whatever saves fail and
\* whenever the bridge stops and starts, as long as no save overtook another.
THEOREM TokenRevokedStaysOut == TokenSpec => []RevokedStaysOut
<1>1. TInv => RevokedStaysOut
  BY DEF TInv, RevokedIsNowhere, Nowhere, RevokedStaysOut, validates, Ids
<1> QED BY <1>1, TokenInitInv, TokenStepInv, PTL DEF TokenSpec

-----------------------------------------------------------------------------
(* The SQL store.                                                          *)

Operation == [op: {"put", "look"}, key: SqlKeys, at: Times]

\* No two records of a set have one sequence number.
Distinct(set) == \A r, s \in set : r.sequence = s.sequence => r = s

\* What is committed: no number is given twice, and none is above the row's.
TablesAgree ==
  /\ records \subseteq Stored!StoreRecord /\ IsFiniteSet(records) /\ Distinct(records)
  /\ sequenceRow \in Nat \cup {NoRow}
  /\ initialized => sequenceRow \in Nat
  /\ \A r \in records : sequenceRow \in Nat /\ r.sequence <= sequenceRow

\* The operations that wait, and the clock a store began with.
QueueIsTyped ==
  /\ queue \in Seq(Operation)
  /\ initialized \in BOOLEAN
  /\ \E tick \in Times : initialSequence = tick * SqlPerTick
  /\ step \in {"start", "pruned", "evicted", "reserved"}

Live == Stored!Unexpired(records, Running.at)

\* What the transaction of the running operation sees after each of its statements.
TxFollows ==
  /\ step = "start" => tx = NoTx
  /\ step # "start" => queue # <<>> /\ initialized /\ Running.op = "put"
  /\ step = "pruned" => tx = [records |-> Live, sequence |-> sequenceRow]
  /\ step \in {"evicted", "reserved"} =>
       ~Stored!HasKey(Live, Running.key) /\ tx.records = RowsWithinRoom(Live)
  /\ step = "evicted" => tx = [records |-> tx.records, sequence |-> sequenceRow]
  /\ step = "reserved" =>
       tx = [records |-> tx.records, sequence |-> Stored!NextNumber(sequenceRow, Running.at)]

SqlInv == TablesAgree /\ QueueIsTyped /\ TxFollows

-----------------------------------------------------------------------------
(* The operators of the two stores.                                        *)

\* The larger of two numbers is one of them.
LEMMA MaxOfTwo ==
  ASSUME NEW a \in Nat, NEW b \in Nat
  PROVE  /\ Max({a, b}) \in {a, b} /\ Max({a, b}) >= a /\ Max({a, b}) >= b
         /\ Stored!Max({a, b}) = Max({a, b})
<1>1. \E x \in {a, b} : \A y \in {a, b} : x >= y
  <2>1. CASE a >= b
    BY <2>1
  <2>2. CASE b >= a
    BY <2>2
  <2> QED BY <2>1, <2>2
<1>2. Max({a, b}) \in {a, b} /\ \A y \in {a, b} : Max({a, b}) >= y
  BY <1>1 DEF Max
<1>3. Stored!Max({a, b}) = Max({a, b})
  BY DEF Stored!Max, Max
<1> QED BY <1>2, <1>3

\* The number after another, at a time.
LEMMA NumbersRise ==
  ASSUME NEW number \in Nat, NEW moment \in Times
  PROVE  Stored!NextNumber(number, moment) \in Nat /\ Stored!NextNumber(number, moment) > number
<1> DEFINE tick == moment * SqlPerTick
           next == number + 1
<1>1. tick \in Nat /\ next \in Nat /\ next > number
  BY SqlAssumption DEF SqlAssumption, Times
<1>2. Stored!NextNumber(number, moment) = Stored!Max({next, tick})
  BY DEF Stored!NextNumber
<1> HIDE DEF tick, next
<1>3. Stored!Max({next, tick}) \in Nat /\ Stored!Max({next, tick}) >= next
  BY <1>1, MaxOfTwo
<1> QED BY <1>1, <1>2, <1>3

\* Of a record of a set without numbers twice, those below it, those above it and itself
\* make up the set.
LEMMA BelowAndAbove ==
  ASSUME NEW set, IsFiniteSet(set), set \subseteq Stored!StoreRecord, Distinct(set),
         NEW r \in set
  PROVE  LET below == {s \in set : s.sequence < r.sequence}
             above == {s \in set : s.sequence > r.sequence}
         IN  /\ Cardinality(below) \in Nat /\ Cardinality(above) \in Nat
             /\ Cardinality(set) \in Nat
             /\ Cardinality(set) = Cardinality(below) + Cardinality(above) + 1
<1> DEFINE below == {s \in set : s.sequence < r.sequence}
           above == {s \in set : s.sequence > r.sequence}
           rest == below \cup above
<1>1. \A s \in set : s.sequence \in Nat
  BY DEF Stored!StoreRecord
<1>2. /\ IsFiniteSet(below) /\ IsFiniteSet(above)
  <2>1. below \in SUBSET set /\ above \in SUBSET set
    OBVIOUS
  <2> QED BY <2>1, FS_Subset
<1>3. below \cap above = {}
  BY <1>1
<1>4. set = rest \cup {r} /\ r \notin rest
  BY <1>1 DEF Distinct
<1> HIDE DEF below, above
<1>5. IsFiniteSet(rest) /\ Cardinality(rest) = Cardinality(below) + Cardinality(above) - Cardinality({})
  BY <1>2, <1>3, FS_Union
<1>6. /\ Cardinality(below) \in Nat /\ Cardinality(above) \in Nat /\ Cardinality(rest) \in Nat
      /\ Cardinality({}) = 0
  BY <1>2, <1>5, FS_CardinalityType, FS_EmptySet
<1> HIDE DEF rest
<1>7. Cardinality(set) = Cardinality(rest) + 1
  BY <1>4, <1>5, FS_AddElement
<1>8. /\ Cardinality(below) \in Nat /\ Cardinality(above) \in Nat /\ Cardinality(set) \in Nat
      /\ Cardinality(set) = Cardinality(below) + Cardinality(above) + 1
  BY <1>5, <1>6, <1>7
<1> QED BY <1>8 DEF below, above

\* The deletion of the oldest rows leaves those that the in-memory store keeps.
LEMMA RoomIsTheSame ==
  ASSUME NEW set, IsFiniteSet(set), set \subseteq Stored!StoreRecord, Distinct(set)
  PROVE  RowsWithinRoom(set) = Stored!MadeRoom(set)
<1>1. ASSUME NEW S PROVE Stored!Cardinality(S) = Cardinality(S)
  BY DEF Stored!Cardinality, Cardinality
<1>2. ASSUME NEW r \in set
      PROVE  Cardinality({s \in set : s.sequence < r.sequence}) >= Cardinality(set) - (SqlRoom - 1)
               <=> Cardinality({s \in set : s.sequence > r.sequence}) < SqlRoom - 1
  <2> DEFINE below == {s \in set : s.sequence < r.sequence}
             above == {s \in set : s.sequence > r.sequence}
  <2>1. /\ Cardinality(below) \in Nat /\ Cardinality(above) \in Nat /\ Cardinality(set) \in Nat
        /\ Cardinality(set) = Cardinality(below) + Cardinality(above) + 1
    BY BelowAndAbove
  <2>2. SqlRoom \in Nat
    BY SqlAssumption DEF SqlAssumption
  <2> HIDE DEF below, above
  <2>3. Cardinality(below) >= Cardinality(set) - (SqlRoom - 1) <=> Cardinality(above) < SqlRoom - 1
    BY <2>1, <2>2
  <2> QED BY <2>3 DEF below, above
<1> QED BY <1>1, <1>2 DEF RowsWithinRoom, Stored!MadeRoom

-----------------------------------------------------------------------------
(* The invariant.                                                          *)

\* At first the tables are those of a new store and no transaction runs.
LEMMA SqlInitInv == SqlInit => SqlInv
<1> SUFFICES ASSUME SqlInit PROVE SqlInv
  OBVIOUS
<1>1. TablesAgree
  BY FS_EmptySet DEF SqlInit, TablesAgree, Distinct
<1>2. QueueIsTyped
  <2>1. 0 \in Times /\ 0 = 0 * SqlPerTick
    BY SqlAssumption DEF SqlAssumption, Times
  <2>2. queue \in Seq(Operation)
    BY DEF SqlInit
  <2> QED BY <2>1, <2>2 DEF SqlInit, QueueIsTyped
<1>3. TxFollows
  BY DEF SqlInit, TxFollows
<1> QED BY <1>1, <1>2, <1>3 DEF SqlInv

\* What is not expired, and what is left of that.
LEMMA Subsets ==
  ASSUME TablesAgree, NEW tick
  PROVE  LET live == Stored!Unexpired(records, tick)
         IN  /\ live \subseteq records /\ RowsWithinRoom(live) \subseteq live
             /\ IsFiniteSet(live) /\ IsFiniteSet(RowsWithinRoom(live))
             /\ Distinct(live) /\ live \subseteq Stored!StoreRecord
<1> DEFINE live == Stored!Unexpired(records, tick)
<1>1. live \in SUBSET records /\ RowsWithinRoom(live) \in SUBSET live
  BY DEF Stored!Unexpired, RowsWithinRoom
<1>2. IsFiniteSet(live)
  BY <1>1, FS_Subset DEF TablesAgree
<1>3. IsFiniteSet(RowsWithinRoom(live))
  BY <1>1, <1>2, FS_Subset
<1> HIDE DEF live
<1>4. Distinct(live) /\ live \subseteq Stored!StoreRecord
  BY <1>1 DEF TablesAgree, Distinct
<1>5. /\ live \subseteq records /\ RowsWithinRoom(live) \subseteq live
      /\ IsFiniteSet(live) /\ IsFiniteSet(RowsWithinRoom(live))
      /\ Distinct(live) /\ live \subseteq Stored!StoreRecord
  BY <1>1, <1>2, <1>3, <1>4
<1> QED BY <1>5 DEF live

\* The tables may lose records.
LEMMA FewerRecords ==
  ASSUME TablesAgree, records' \subseteq records, UNCHANGED <<sequenceRow, initialized>>
  PROVE  TablesAgree'
<1>1. IsFiniteSet(records')
  BY FS_Subset DEF TablesAgree
<1> QED BY <1>1 DEF TablesAgree, Distinct

\* The operation that runs.
LEMMA RunningIsTyped ==
  ASSUME QueueIsTyped, queue # <<>>
  PROVE  Running \in Operation /\ Tail(queue) \in Seq(Operation)
BY DEF QueueIsTyped, Running

\* An operation that ends leaves no transaction.
LEMMA EndsKeeps ==
  ASSUME QueueIsTyped, queue # <<>>, Ends, UNCHANGED <<initialized, initialSequence>>
  PROVE  QueueIsTyped' /\ TxFollows'
<1>1. Tail(queue) \in Seq(Operation)
  BY RunningIsTyped
<1> QED BY <1>1 DEF Ends, QueueIsTyped, TxFollows

\* A record that is added has a number of its own.
LEMMA InsertKeeps ==
  ASSUME SqlInv, InsertAndCommit
  PROVE  TablesAgree'
<1> DEFINE left == RowsWithinRoom(Live)
           new == [key |-> Running.key, sequence |-> tx.sequence, expires |-> Running.at + SqlTtl]
<1>1. /\ step = "reserved" /\ queue # <<>> /\ initialized /\ initialized' = initialized
      /\ records' = tx.records \cup {new} /\ sequenceRow' = tx.sequence
  BY DEF InsertAndCommit, At
<1>2. Running \in Operation /\ sequenceRow \in Nat
  BY <1>1, RunningIsTyped DEF SqlInv, TablesAgree
<1>3. tx.records = left /\ tx.sequence = Stored!NextNumber(sequenceRow, Running.at)
  BY <1>1 DEF SqlInv, TxFollows
<1>4. tx.sequence \in Nat /\ tx.sequence > sequenceRow
  BY <1>2, <1>3, NumbersRise DEF Operation
<1>5. new \in Stored!StoreRecord
  BY <1>2, <1>4, SqlAssumption DEF SqlAssumption, Operation, Stored!StoreRecord, Times
<1>6. left \subseteq records /\ IsFiniteSet(left)
  BY Subsets DEF Live, SqlInv
<1> HIDE DEF left
<1>7. IsFiniteSet(records')
  BY <1>1, <1>3, <1>6, FS_AddElement
<1>8. \A r \in left : r.sequence \in Nat /\ r.sequence <= sequenceRow
  BY <1>6 DEF SqlInv, TablesAgree, Stored!StoreRecord
<1>9. new.sequence = tx.sequence
  OBVIOUS
<1> HIDE DEF new
<1>10. Distinct(records')
  <2>1. Distinct(left)
    BY <1>6 DEF SqlInv, TablesAgree, Distinct
  <2>2. \A r \in left : r.sequence # new.sequence
    BY <1>2, <1>4, <1>8, <1>9
  <2> QED BY <2>1, <2>2, <1>1, <1>3 DEF Distinct
<1>11. \A r \in records' : r.sequence <= sequenceRow'
  BY <1>1, <1>2, <1>3, <1>4, <1>8, <1>9
<1> QED BY <1>1, <1>3, <1>4, <1>5, <1>6, <1>7, <1>10, <1>11 DEF SqlInv, TablesAgree

\* Every statement, failure and restart keeps the invariant.
LEMMA SqlStepInv == SqlInv /\ [SqlNext]_sqlVars => SqlInv'
<1> SUFFICES ASSUME SqlInv, [SqlNext]_sqlVars PROVE SqlInv'
  OBVIOUS
<1> USE DEF SqlInv
<1>1. ASSUME NEW op \in {"put", "look"}, NEW k \in SqlKeys, NEW tick \in Times, WithLock(op, k, tick)
      PROVE  SqlInv'
  <2> DEFINE new == [op |-> op, key |-> k, at |-> tick]
  <2>1. /\ new \in Operation /\ queue' = Append(queue, new)
        /\ UNCHANGED <<records, sequenceRow, tx, step, initialized, initialSequence>>
    BY <1>1 DEF WithLock, Operation
  <2>2. queue' \in Seq(Operation) /\ (queue # <<>> => Head(queue') = Head(queue) /\ queue' # <<>>)
    BY <2>1 DEF QueueIsTyped
  <2>3. TablesAgree' /\ QueueIsTyped'
    BY <2>1, <2>2 DEF TablesAgree, QueueIsTyped
  <2>4. TxFollows'
    BY <2>1, <2>2 DEF QueueIsTyped, TxFollows, Live, Running
  <2> QED BY <2>3, <2>4
<1>2. CASE Initialize
  <2>1. /\ queue # <<>> /\ ~initialized /\ initialized'
        /\ sequenceRow' = IF sequenceRow = NoRow THEN initialSequence
                          ELSE Max({sequenceRow, initialSequence})
        /\ UNCHANGED <<records, tx, queue, step, initialSequence>>
    BY <1>2 DEF Initialize
  <2>2. initialSequence \in Nat
    BY SqlAssumption DEF QueueIsTyped, SqlAssumption, Times
  <2>3. /\ sequenceRow' \in Nat
        /\ sequenceRow \in Nat => sequenceRow' >= sequenceRow
    BY <2>1, <2>2, MaxOfTwo, SqlAssumption DEF TablesAgree, SqlAssumption
  <2>4. \A r \in records : r.sequence \in Nat /\ sequenceRow \in Nat /\ r.sequence <= sequenceRow
    BY DEF TablesAgree, Stored!StoreRecord
  <2>5. \A r \in records : r.sequence <= sequenceRow'
    BY <2>3, <2>4
  <2>6. TablesAgree'
    BY <2>1, <2>3, <2>5 DEF TablesAgree, Distinct
  <2>7. QueueIsTyped' /\ TxFollows'
    BY <1>2, <2>1 DEF Initialize, QueueIsTyped, TxFollows
  <2> QED BY <2>6, <2>7
<1>3. CASE LookUp
  <2>1. /\ queue # <<>> /\ records' = Stored!Unexpired(records, Running.at) /\ Ends
        /\ UNCHANGED <<sequenceRow, initialized, initialSequence>>
    BY <1>3 DEF LookUp, At
  <2>2. TablesAgree'
    BY <2>1, FewerRecords DEF Stored!Unexpired
  <2> QED BY <2>1, <2>2, EndsKeeps
<1>4. CASE BeginPut
  BY <1>4 DEF BeginPut, At, TablesAgree, QueueIsTyped, TxFollows, Live, Running
<1>5. CASE FindExisting
  <2>1. /\ queue # <<>> /\ step = "pruned" /\ records' = tx.records /\ Ends
        /\ UNCHANGED <<sequenceRow, initialized, initialSequence>>
    BY <1>5 DEF FindExisting, At
  <2>2. records' \subseteq records
    BY <2>1 DEF TxFollows, Live, Stored!Unexpired
  <2> QED BY <2>1, <2>2, FewerRecords, EndsKeeps
<1>6. CASE Evict
  BY <1>6 DEF Evict, At, TablesAgree, QueueIsTyped, TxFollows, Live, Running
<1>7. CASE ReserveSequence
  BY <1>7 DEF ReserveSequence, At, TablesAgree, QueueIsTyped, TxFollows, Live, Running
<1>8. CASE InsertAndCommit
  <2>1. queue # <<>> /\ Ends /\ UNCHANGED <<initialized, initialSequence>>
    BY <1>8 DEF InsertAndCommit, At
  <2> QED BY <1>8, <2>1, InsertKeeps, EndsKeeps
<1>9. CASE StatementFails
  <2>1. queue # <<>> /\ Ends /\ UNCHANGED <<records, sequenceRow, initialized, initialSequence>>
    BY <1>9 DEF StatementFails
  <2> QED BY <2>1, FewerRecords, EndsKeeps
<1>10. ASSUME NEW tick \in Times, SqlRestart(tick) PROVE SqlInv'
  <2>1. queue' \in Seq(Operation)
    BY <1>10 DEF SqlRestart
  <2> QED BY <1>10, <2>1 DEF SqlRestart, TablesAgree, QueueIsTyped, TxFollows
<1>11. CASE UNCHANGED sqlVars
  BY <1>11 DEF sqlVars, TablesAgree, QueueIsTyped, TxFollows, Live, Running
<1> QED BY <1>1, <1>2, <1>3, <1>4, <1>5, <1>6, <1>7, <1>8, <1>9, <1>10, <1>11 DEF SqlNext

\* The invariant of the SQL store holds at all times.
LEMMA SqlInvariant == SqlSpec => []SqlInv
BY SqlInitInv, SqlStepInv, PTL DEF SqlSpec

\* The tables, the transaction and the queue keep their types.
THEOREM SqlTypeCorrect == SqlSpec => []SqlTypeOK
<1>1. ASSUME SqlInv PROVE SqlTypeOK
  <2>1. Stored!Unexpired(records, Running.at) \subseteq Stored!StoreRecord
        /\ RowsWithinRoom(Live) \subseteq Stored!StoreRecord
    BY <1>1, Subsets DEF Live, SqlInv
  <2>2. initialSequence \in Nat
    BY <1>1, SqlAssumption DEF SqlInv, QueueIsTyped, SqlAssumption, Times
  <2>3. tx = NoTx \/ (tx.records \subseteq Stored!StoreRecord /\ tx.sequence \in Nat)
    <3>1. CASE step = "start"
      BY <1>1, <3>1 DEF SqlInv, TxFollows
    <3>2. CASE step # "start"
      <4>1. queue # <<>> /\ sequenceRow \in Nat /\ Running \in Operation
        BY <1>1, <3>2, RunningIsTyped DEF SqlInv, TxFollows, TablesAgree
      <4>2. Stored!NextNumber(sequenceRow, Running.at) \in Nat
        BY <4>1, NumbersRise DEF Operation
      <4> QED BY <1>1, <2>1, <3>2, <4>1, <4>2 DEF SqlInv, QueueIsTyped, TxFollows, Live
    <3> QED BY <3>1, <3>2
  <2>4. \A i \in DOMAIN queue : queue[i] \in Operation
    BY <1>1 DEF SqlInv, QueueIsTyped
  <2> QED BY <1>1, <2>2, <2>3, <2>4 DEF SqlInv, TablesAgree, QueueIsTyped, SqlTypeOK, Operation
<1> QED BY <1>1, SqlInvariant, PTL

\* No two records in the database have one sequence number, and none has a number that is
\* still to be given.
THEOREM SqlNumbersNameRecords ==
  SqlSpec => [](Distinct(records) /\ \A r \in records : r.sequence <= sequenceRow)
<1>1. SqlInv => Distinct(records) /\ \A r \in records : r.sequence <= sequenceRow
  BY DEF SqlInv, TablesAgree
<1> QED BY <1>1, SqlInvariant, PTL

-----------------------------------------------------------------------------
(* The refinement.                                                         *)

\* What the database has committed, as the in-memory store sees it.
Latest == IF sequenceRow = NoRow THEN 0 ELSE sequenceRow

\* The creation of the tables is the start of a store.
LEMMA InitializeRestarts ==
  ASSUME SqlInv, Initialize
  PROVE  \E tick \in Times : Stored!Restart(tick * SqlPerTick)
<1>1. PICK tick \in Times : initialSequence = tick * SqlPerTick
  BY DEF SqlInv, QueueIsTyped
<1>2. initialSequence \in Nat /\ Latest \in Nat
  BY <1>1, SqlAssumption DEF SqlAssumption, Times, SqlInv, TablesAgree, Latest
<1>3. /\ sequenceRow' = IF sequenceRow = NoRow THEN initialSequence
                         ELSE Max({sequenceRow, initialSequence})
      /\ records' = records
  BY DEF Initialize
<1>4. /\ Max({Latest, initialSequence}) \in Nat
      /\ Stored!Max({Latest, initialSequence}) = Max({Latest, initialSequence})
      /\ Latest = 0 => Max({Latest, initialSequence}) = initialSequence
  BY <1>2, MaxOfTwo
<1>5. sequenceRow' = Max({Latest, initialSequence}) /\ sequenceRow' # NoRow
  BY <1>2, <1>3, <1>4, SqlAssumption DEF SqlAssumption, Latest
<1>6. Latest' = Stored!Max({Latest, initialSequence})
  BY <1>4, <1>5 DEF Latest
<1> QED BY <1>1, <1>3, <1>6 DEF Stored!Restart, Latest

\* What a look-up deletes is what has expired.
LEMMA LookUpLooks ==
  ASSUME SqlInv, LookUp
  PROVE  \E tick \in Times : Stored!Look(tick)
<1>1. queue # <<>> /\ Running \in Operation
  BY RunningIsTyped DEF LookUp, At, SqlInv
<1> QED BY <1>1 DEF LookUp, Stored!Look, Operation

\* A put whose key is there commits what it has pruned.
LEMMA FindExistingPuts ==
  ASSUME SqlInv, FindExisting
  PROVE  \E k \in SqlKeys, tick \in Times : Stored!PutIfAbsent(k, tick)
<1>1. queue # <<>> /\ Running \in Operation /\ step = "pruned"
  BY RunningIsTyped DEF FindExisting, At, SqlInv
<1>2. tx.records = Live
  BY <1>1 DEF SqlInv, TxFollows
<1>3. Stored!HasKey(Live, Running.key) /\ records' = Live /\ sequenceRow' = sequenceRow
  BY <1>2 DEF FindExisting
<1>4. Stored!PutIfAbsent(Running.key, Running.at)
  BY <1>3 DEF Live, Stored!PutIfAbsent
<1> QED BY <1>1, <1>4 DEF Operation

\* The commit of a new record does all that the operation in memory does, in one step.
LEMMA InsertPuts ==
  ASSUME SqlInv, InsertAndCommit
  PROVE  \E k \in SqlKeys, tick \in Times : Stored!PutIfAbsent(k, tick)
<1>1. /\ queue # <<>> /\ Running \in Operation /\ step = "reserved" /\ initialized
      /\ sequenceRow \in Nat
  BY RunningIsTyped DEF InsertAndCommit, At, SqlInv, TxFollows, TablesAgree
<1>2. /\ ~Stored!HasKey(Live, Running.key) /\ tx.records = RowsWithinRoom(Live)
      /\ tx.sequence = Stored!NextNumber(sequenceRow, Running.at)
  BY <1>1 DEF SqlInv, TxFollows
<1>3. RowsWithinRoom(Live) = Stored!MadeRoom(Live)
  <2>1. IsFiniteSet(Live) /\ Distinct(Live) /\ Live \subseteq Stored!StoreRecord
    BY Subsets DEF Live, SqlInv
  <2> HIDE DEF Live
  <2> QED BY <2>1, RoomIsTheSame
<1>4. sequenceRow # NoRow /\ tx.sequence # NoRow
  BY <1>1, <1>2, NumbersRise, SqlAssumption DEF SqlAssumption, Operation
<1>5. /\ records' = Stored!MadeRoom(Live) \cup
           {[key |-> Running.key, sequence |-> tx.sequence, expires |-> Running.at + SqlTtl]}
      /\ sequenceRow' = tx.sequence
  BY <1>2, <1>3 DEF InsertAndCommit
<1>6. Stored!PutIfAbsent(Running.key, Running.at)
  BY <1>2, <1>4, <1>5 DEF Live, Stored!PutIfAbsent
<1> QED BY <1>1, <1>6 DEF Operation

\* Every committed step is one of the store in memory, and no other step is seen.
LEMMA SqlStepImplements ==
  SqlInv /\ [SqlNext]_sqlVars => [Stored!StoreNext]_<<records, Latest>>
<1> SUFFICES ASSUME SqlInv, [SqlNext]_sqlVars
             PROVE  Stored!StoreNext \/ UNCHANGED <<records, Latest>>
  OBVIOUS
<1>1. CASE Initialize
  BY <1>1, InitializeRestarts DEF Stored!StoreNext
<1>2. CASE LookUp
  BY <1>2, LookUpLooks DEF Stored!StoreNext
<1>3. CASE FindExisting
  BY <1>3, FindExistingPuts DEF Stored!StoreNext
<1>4. CASE InsertAndCommit
  BY <1>4, InsertPuts DEF Stored!StoreNext
<1>5. CASE BeginPut \/ Evict \/ ReserveSequence \/ StatementFails
  BY <1>5 DEF BeginPut, Evict, ReserveSequence, StatementFails, Latest
<1>6. CASE \/ \E op \in {"put", "look"}, k \in SqlKeys, tick \in Times : WithLock(op, k, tick)
           \/ \E tick \in Times : SqlRestart(tick)
           \/ UNCHANGED sqlVars
  BY <1>6 DEF WithLock, SqlRestart, sqlVars, Latest
<1> QED BY <1>1, <1>2, <1>3, <1>4, <1>5, <1>6 DEF SqlNext

\* The database goes through the states of a store whose every operation is one step,
\* whatever statements fail and whenever the process ends, for any keys, capacity and
\* times.
THEOREM SqlStoreImplements == SqlSpec => SqlImplementsStore
<1>1. SqlInit => Stored!StoreInit
  BY SqlAssumption DEF SqlInit, Stored!StoreInit
<1>2. SqlInv /\ [SqlNext]_sqlVars => [Stored!StoreNext]_<<records, Latest>>
  BY SqlStepImplements
<1> QED BY <1>1, <1>2, SqlInvariant, PTL DEF SqlSpec, SqlImplementsStore, Stored!StoreSpec, Latest

-----------------------------------------------------------------------------
(* The durable streams.                                                    *)

\* The frames of w follow the cursor from: each has records behind the one before it, of
\* which it leaves out none up to its cursor but what was lost.
Before(w, i, from) == IF i = 1 THEN from ELSE w[i - 1].cursor

FollowsOn(w, from, lost) ==
  \A i \in DOMAIN w :
    /\ from <= w[i].cursor
    /\ \A r \in w[i].records : from < r /\ r <= w[i].cursor
    /\ \A j \in DOMAIN w : i < j =>
         w[i].cursor <= w[j].cursor /\ \A q \in w[j].records : w[i].cursor < q
    /\ \A r \in Nat : Before(w, i, from) < r /\ r <= w[i].cursor => r \in w[i].records \cup lost

\* The cursor that a client has when it has taken w.
LastCursor(w, from) == IF w = <<>> THEN from ELSE w[Len(w)].cursor

\* The backlog that was read, up to m; what it leaves out is in the buffer, or it is full.
PageIs(c, m) ==
  /\ m \in asked[c]..latest /\ page[c] = (asked[c] + 1)..m
  /\ Cardinality(page[c]) # BacklogLimit /\ conn[c] # "closed" =>
       \A r \in (m + 1)..latest : r \in buffer[c]

\* Where a connection is.
ConnFollows(c) ==
  /\ conn[c] = "new" <=> c > link
  /\ conn[c] = "new" => phase[c] = "none" /\ sub[c] = "none" /\ ~open[c] /\ buffer[c] = {}
  /\ phase[c] # "done" => wire[c] = <<>> /\ sub[c] # "live"
  /\ phase[c] # "done" /\ c = link => asked[c] = clientCursor
  /\ phase[c] = "none" => sub[c] \in {"none", "closed"}
  /\ phase[c] \in {"reading", "read"} /\ conn[c] # "closed" =>
       conn[c] = "opening" /\ sub[c] = "buffering"
  /\ conn[c] = "subscribed" => phase[c] = "done" /\ (open[c] => sub[c] = "live")
  /\ sub[c] = "live" => conn[c] = "subscribed"
  /\ asked[c] <= latest
  /\ buffer[c] \subseteq 1..latest
  /\ phase[c] = "read" => \E m \in Nat : PageIs(c, m)

\* Where the client is, and what is on its way to it.
ClientFollows ==
  /\ clientCursor <= latest /\ received \subseteq 1..clientCursor
  /\ \A r \in 1..clientCursor : r \in received \cup cutOff
  /\ link > 0 =>
       /\ FollowsOn(wire[link], clientCursor, cutOff)
       /\ LastCursor(wire[link], clientCursor) <= latest
       /\ sub[link] = "live" =>
            \A r \in 1..latest : r > LastCursor(wire[link], clientCursor) => r \in cutOff

StreamInv == StreamTypeOK /\ (\A c \in Conns : ConnFollows(c)) /\ ClientFollows

\* The last place of a sequence.
LEMMA LastPlace ==
  ASSUME NEW S, NEW s \in Seq(S), s # <<>>
  PROVE  Len(s) \in DOMAIN s /\ Len(s) \in Nat /\ (1 < Len(s) \/ Len(s) = 1)
OBVIOUS

\* What a frame holds.
LEMMA FrameOf ==
  ASSUME NEW w \in Seq(Frame), NEW i \in DOMAIN w
  PROVE  /\ i \in Nat \ {0} /\ i <= Len(w) /\ Len(w) \in Nat
         /\ w[i].cursor \in Nat /\ w[i].records \subseteq Nat
<1>1. i \in Nat \ {0} /\ i <= Len(w) /\ Len(w) \in Nat /\ w[i] \in Frame
  BY PlaceOf
<1> QED BY <1>1 DEF Frame

\* What is left when the first frame was taken follows its cursor.
LEMMA TailFollowsOn ==
  ASSUME NEW w \in Seq(Frame), w # <<>>, NEW from \in Nat, NEW lost, FollowsOn(w, from, lost)
  PROVE  /\ FollowsOn(Tail(w), w[1].cursor, lost)
         /\ LastCursor(Tail(w), w[1].cursor) = LastCursor(w, from)
<1>1. /\ Tail(w) \in Seq(Frame) /\ Len(Tail(w)) = Len(w) - 1 /\ 1 \in DOMAIN w
      /\ \A i \in DOMAIN Tail(w) : Tail(w)[i] = w[i + 1] /\ i + 1 \in DOMAIN w
  OBVIOUS
<1>0. PICK t : t = Tail(w)
  OBVIOUS
<1>a. /\ t \in Seq(Frame) /\ Len(t) = Len(w) - 1 /\ 1 \in DOMAIN w
      /\ \A i \in DOMAIN t : t[i] = w[i + 1] /\ i + 1 \in DOMAIN w
  BY <1>0, <1>1
<1>2. ASSUME NEW i \in DOMAIN t
      PROVE  Before(t, i, w[1].cursor) = Before(w, i + 1, from)
  <2>1. i \in Nat \ {0} /\ i <= Len(t) /\ Len(t) \in Nat
    BY <1>a, PlaceOf
  <2>2. CASE i = 1
    BY <2>2 DEF Before
  <2>3. CASE i # 1
    <3>1. i - 1 \in DOMAIN t
      BY <1>a, <2>1, <2>3
    <3>2. t[i - 1] = w[(i - 1) + 1] /\ (i - 1) + 1 = i /\ (i + 1) - 1 = i /\ i + 1 # 1
      BY SMTT(30), <1>a, <2>1, <3>1
    <3> QED BY <2>3, <3>2 DEF Before
  <2> QED BY <2>2, <2>3
<1>3. FollowsOn(t, w[1].cursor, lost)
  <2>1. SUFFICES ASSUME NEW i \in DOMAIN t
                 PROVE  /\ w[1].cursor <= t[i].cursor
                        /\ \A r \in t[i].records : w[1].cursor < r /\ r <= t[i].cursor
                        /\ \A j \in DOMAIN t : i < j =>
                             t[i].cursor <= t[j].cursor /\ \A q \in t[j].records : t[i].cursor < q
                        /\ \A r \in Nat : Before(t, i, w[1].cursor) < r /\ r <= t[i].cursor =>
                             r \in t[i].records \cup lost
    BY DEF FollowsOn
  <2>2. i \in Nat \ {0} /\ t[i] = w[i + 1] /\ i + 1 \in DOMAIN w /\ 1 < i + 1
    BY <1>a, PlaceOf
  <2>3. w[1].cursor <= t[i].cursor /\ \A r \in t[i].records : w[1].cursor < r
    BY <1>a, <2>2 DEF FollowsOn
  <2>4. \A r \in t[i].records : r <= t[i].cursor
    BY <2>2 DEF FollowsOn
  <2>5. ASSUME NEW j \in DOMAIN t, i < j
        PROVE  t[i].cursor <= t[j].cursor /\ \A q \in t[j].records : t[i].cursor < q
    <3>1. j \in Nat /\ t[j] = w[j + 1] /\ j + 1 \in DOMAIN w
      BY <1>a, PlaceOf
    <3>2. i + 1 < j + 1
      BY <2>2, <2>5, <3>1
    <3> QED BY <2>2, <3>1, <3>2 DEF FollowsOn
  <2>6. \A r \in Nat : Before(t, i, w[1].cursor) < r /\ r <= t[i].cursor => r \in t[i].records \cup lost
    BY <1>2, <2>2 DEF FollowsOn
  <2> QED BY <2>3, <2>4, <2>5, <2>6
<1>4. LastCursor(Tail(w), w[1].cursor) = LastCursor(w, from)
  <2>1. CASE Len(w) = 1
    BY <1>1, <2>1 DEF LastCursor
  <2>2. CASE Len(w) > 1
    <3>1. t # <<>> /\ Len(t) \in DOMAIN t /\ Len(t) + 1 = Len(w)
      BY <1>a, <2>2
    <3>2. t[Len(t)] = w[Len(w)]
      BY <1>a, <3>1
    <3> QED BY <1>0, <3>1, <3>2 DEF LastCursor
  <2> QED BY <1>1, <2>1, <2>2
<1> QED BY <1>0, <1>3, <1>4

\* A frame that follows the last one.
LEMMA AppendFollowsOn ==
  ASSUME NEW w \in Seq(Frame), NEW from \in Nat, NEW lost, FollowsOn(w, from, lost),
         NEW f \in Frame, LastCursor(w, from) <= f.cursor,
         \A r \in f.records : LastCursor(w, from) < r /\ r <= f.cursor,
         \A r \in Nat : LastCursor(w, from) < r /\ r <= f.cursor => r \in f.records \cup lost
  PROVE  /\ FollowsOn(Append(w, f), from, lost)
         /\ LastCursor(Append(w, f), from) = f.cursor
<1>1. PICK v : v = Append(w, f)
  OBVIOUS
<1>2. /\ v \in Seq(Frame) /\ Len(v) = Len(w) + 1 /\ v[Len(w) + 1] = f /\ Len(w) \in Nat
      /\ DOMAIN v = 1..(Len(w) + 1)
      /\ \A i \in 1..Len(w) : v[i] = w[i] /\ i \in DOMAIN w
  BY <1>1
<1>3. LastCursor(v, from) = f.cursor
  BY <1>2 DEF LastCursor
<1>4. /\ from <= LastCursor(w, from) /\ LastCursor(w, from) \in Nat
      /\ \A i \in 1..Len(w) : w[i].cursor <= LastCursor(w, from)
  <2>1. CASE w = <<>>
    BY <2>1 DEF LastCursor
  <2>2. CASE w # <<>>
    <3>1. Len(w) \in DOMAIN w /\ LastCursor(w, from) = w[Len(w)].cursor
      BY <2>2 DEF LastCursor
    <3> QED BY <1>2, <3>1, FrameOf DEF FollowsOn
  <2> QED BY <2>1, <2>2
<1>5. Before(v, Len(w) + 1, from) = LastCursor(w, from)
  BY <1>2 DEF Before, LastCursor
<1>6. f.cursor \in Nat /\ f.records \subseteq Nat
  BY DEF Frame
<1>7. ASSUME NEW i \in 1..Len(w)
      PROVE  /\ from <= v[i].cursor
             /\ \A r \in v[i].records : from < r /\ r <= v[i].cursor
             /\ \A j \in DOMAIN v : i < j =>
                  v[i].cursor <= v[j].cursor /\ \A q \in v[j].records : v[i].cursor < q
             /\ \A r \in Nat : Before(v, i, from) < r /\ r <= v[i].cursor =>
                  r \in v[i].records \cup lost
  <2>1. v[i] = w[i] /\ i \in DOMAIN w /\ w[i].cursor \in Nat /\ Before(v, i, from) = Before(w, i, from)
    BY <1>2, FrameOf DEF Before
  <2>2. ASSUME NEW j \in DOMAIN v, i < j
        PROVE  v[i].cursor <= v[j].cursor /\ \A q \in v[j].records : v[i].cursor < q
    <3>1. CASE j \in 1..Len(w)
      BY <1>2, <2>1, <2>2, <3>1 DEF FollowsOn
    <3>2. CASE j = Len(w) + 1
      BY <1>2, <1>4, <1>6, <2>1, <3>2
    <3> QED BY <1>2, <3>1, <3>2
  <2> QED BY <2>1, <2>2 DEF FollowsOn
<1>8. /\ from <= v[Len(w) + 1].cursor
      /\ \A r \in v[Len(w) + 1].records : from < r /\ r <= v[Len(w) + 1].cursor
      /\ \A r \in Nat : Before(v, Len(w) + 1, from) < r /\ r <= v[Len(w) + 1].cursor =>
           r \in v[Len(w) + 1].records \cup lost
  BY <1>2, <1>4, <1>5, <1>6
<1>9. FollowsOn(v, from, lost)
  BY <1>2, <1>7, <1>8 DEF FollowsOn
<1> QED BY <1>1, <1>3, <1>9

\* More may be lost.
LEMMA MoreIsLost ==
  ASSUME NEW w, NEW from, NEW lost, NEW more, FollowsOn(w, from, lost), lost \subseteq more
  PROVE  FollowsOn(w, from, more)
BY DEF FollowsOn

\* What may happen to a connection besides what its handler does for it: nothing but that
\* its socket stops taking data; it is closed; its handler gives up.
Stays(c) ==
  /\ conn'[c] = conn[c] /\ (open'[c] => open[c]) /\ phase'[c] = phase[c]
  /\ sub'[c] = sub[c] /\ buffer'[c] = buffer[c]

IsClosed(c) ==
  /\ conn[c] # "new" /\ conn'[c] = "closed" /\ ~open'[c] /\ phase'[c] \in {phase[c], "done"}
  /\ sub'[c] = (IF sub[c] = "none" THEN "none" ELSE "closed") /\ buffer'[c] = {}

GivesUp(c) ==
  /\ conn[c] = "closed" /\ conn'[c] = conn[c] /\ open'[c] = open[c] /\ phase'[c] = "done"
  /\ sub'[c] = sub[c] /\ buffer'[c] = buffer[c]

\* A step that does no more than that keeps the invariant.
LEMMA QuietKeeps ==
  ASSUME StreamInv, UNCHANGED <<latest, link, asked, page, wire, client, cutOff>>,
         conn' \in [Conns -> {"new", "opening", "subscribed", "closed"}],
         open' \in [Conns -> BOOLEAN],
         phase' \in [Conns -> {"none", "reading", "read", "done"}],
         sub' \in [Conns -> {"none", "buffering", "live", "closed", "overflowed"}],
         buffer' \in [Conns -> SUBSET Nat],
         \A c \in Conns : Stays(c) \/ IsClosed(c) \/ GivesUp(c)
  PROVE  StreamInv'
<1>1. /\ clientCursor' = clientCursor /\ received' = received
      /\ latest' = latest /\ link' = link /\ asked' = asked /\ page' = page /\ wire' = wire
      /\ cutOff' = cutOff
  BY DEF client
<1>2. StreamTypeOK'
  <2>1. Cardinality({}) = 0 /\ MaxBuffered \in Nat
    BY FS_EmptySet, StreamAssumption
  <2>2. ASSUME NEW c \in Conns
        PROVE  Cardinality(buffer'[c]) <= MaxBuffered
    <3>1. buffer'[c] = buffer[c] \/ buffer'[c] = {}
      BY DEF Stays, IsClosed, GivesUp
    <3>2. Cardinality(buffer[c]) <= MaxBuffered
      BY DEF StreamInv, StreamTypeOK
    <3> QED BY <2>1, <3>1, <3>2
  <2> QED BY <1>1, <2>2 DEF StreamInv, StreamTypeOK
<1>3. ASSUME NEW c \in Conns
      PROVE  ConnFollows(c)'
  <2>1. ConnFollows(c) /\ latest \in Nat
    BY DEF StreamInv, StreamTypeOK
  <2>2. CASE Stays(c)
    BY <1>1, <2>1, <2>2 DEF Stays, ConnFollows, PageIs
  <2>3. CASE IsClosed(c)
    BY <1>1, <2>1, <2>3 DEF IsClosed, ConnFollows, PageIs
  <2>4. CASE GivesUp(c)
    BY <1>1, <2>1, <2>4 DEF GivesUp, ConnFollows, PageIs
  <2> QED BY <2>2, <2>3, <2>4
<1>4. ClientFollows'
  <2>1. ClientFollows /\ link \in 0..MaxConns /\ MaxConns \in Nat
    BY StreamAssumption DEF StreamInv, StreamTypeOK
  <2>2. ASSUME link > 0, sub'[link] = "live"
        PROVE  sub[link] = "live"
    BY <2>1, <2>2 DEF Conns, Stays, IsClosed, GivesUp
  <2> QED BY <1>1, <2>1, <2>2 DEF ClientFollows
<1> QED BY <1>2, <1>3, <1>4 DEF StreamInv

\* close() of one adapter, its handler giving up or not, is such a step.
LEMMA CloseKeeps ==
  ASSUME StreamInv, NEW c \in Conns, conn[c] \notin {"new", "closed"}, Close({c}),
         UNCHANGED <<latest, link, asked, page, wire, client, cutOff>>,
         phase' = phase \/ phase' = [phase EXCEPT ![c] = "done"]
  PROVE  StreamInv'
<1>1. /\ conn' = [d \in Conns |-> IF d = c THEN "closed" ELSE conn[d]]
      /\ open' = [d \in Conns |-> open[d] /\ d # c]
      /\ sub' = [d \in Conns |-> IF d = c /\ sub[d] # "none" THEN "closed" ELSE sub[d]]
      /\ buffer' = [d \in Conns |-> IF d = c THEN {} ELSE buffer[d]]
  <2>1. {d \in {c} : conn[d] # "closed"} = {c}
    OBVIOUS
  <2> QED BY <2>1 DEF Close, Unsubscribed
<1>2. StreamTypeOK
  BY DEF StreamInv
<1>3. /\ conn' \in [Conns -> {"new", "opening", "subscribed", "closed"}]
      /\ open' \in [Conns -> BOOLEAN]
      /\ phase' \in [Conns -> {"none", "reading", "read", "done"}]
      /\ sub' \in [Conns -> {"none", "buffering", "live", "closed", "overflowed"}]
      /\ buffer' \in [Conns -> SUBSET Nat]
  BY <1>1, <1>2 DEF StreamTypeOK
<1>4. ASSUME NEW d \in Conns
      PROVE  Stays(d) \/ IsClosed(d)
  BY <1>1, <1>2 DEF StreamTypeOK, Stays, IsClosed
<1> QED BY <1>3, <1>4, QuietKeeps

\* Sockets close and break, reads fail and are given up, the bridge starts anew.
LEMMA EndingsKeep ==
  ASSUME StreamInv,
         \/ StreamRestart
         \/ \E c \in Conns : \/ CloseSocket(c) \/ SocketBreaks(c) \/ ReadFails(c)
                             \/ AbandonBacklog(c) \/ BacklogNotSent(c)
  PROVE  StreamInv'
<1>1. StreamTypeOK /\ \A c \in Conns : ConnFollows(c)
  BY DEF StreamInv
<1>2. CASE StreamRestart
  <2>1. /\ conn' \in [Conns -> {"new", "opening", "subscribed", "closed"}]
        /\ open' \in [Conns -> BOOLEAN]
        /\ phase' \in [Conns -> {"none", "reading", "read", "done"}]
        /\ sub' \in [Conns -> {"none", "buffering", "live", "closed", "overflowed"}]
        /\ buffer' \in [Conns -> SUBSET Nat]
    BY <1>1, <1>2 DEF StreamTypeOK, StreamRestart
  <2>2. ASSUME NEW c \in Conns
        PROVE  Stays(c) \/ IsClosed(c)
    BY <1>1, <1>2 DEF StreamTypeOK, StreamRestart, ConnFollows, Stays, IsClosed
  <2> QED BY <1>2, <2>1, <2>2, QuietKeeps DEF StreamRestart
<1>3. ASSUME NEW c \in Conns, CloseSocket(c)
      PROVE  StreamInv'
  BY <1>3, CloseKeeps DEF CloseSocket, handler
<1>4. ASSUME NEW c \in Conns, SocketBreaks(c)
      PROVE  StreamInv'
  <2>1. /\ conn' = conn /\ phase' = phase /\ sub' = sub /\ buffer' = buffer
        /\ asked' = asked /\ page' = page /\ open' = [open EXCEPT ![c] = FALSE]
    BY <1>4 DEF SocketBreaks, handler
  <2>2. open' \in [Conns -> BOOLEAN] /\ \A d \in Conns : Stays(d)
    BY <1>1, <2>1 DEF StreamTypeOK, Stays
  <2>3. UNCHANGED <<latest, link, asked, page, wire, client, cutOff>>
    BY <1>4, <2>1 DEF SocketBreaks
  <2> QED BY <1>1, <2>1, <2>2, <2>3, QuietKeeps DEF StreamTypeOK
<1>5. ASSUME NEW c \in Conns, ReadFails(c) \/ BacklogNotSent(c)
      PROVE  StreamInv'
  <2>1. CASE conn[c] = "closed"
    <3>1. {d \in {c} : conn[d] # "closed"} = {} /\ ReadFails(c)
      BY <1>5, <2>1 DEF BacklogNotSent
    <3>2. /\ conn' = [d \in Conns |-> conn[d]] /\ open' = [d \in Conns |-> open[d]]
          /\ sub' = [d \in Conns |-> sub[d]] /\ buffer' = [d \in Conns |-> buffer[d]]
      BY <1>1, <3>1 DEF ReadFails, Close, Unsubscribed, StreamTypeOK
    <3>3. conn' = conn /\ open' = open /\ sub' = sub /\ buffer' = buffer
      BY <1>1, <3>2 DEF StreamTypeOK
    <3>4. phase' = [phase EXCEPT ![c] = "done"]
      BY <3>1 DEF ReadFails
    <3>5. phase' \in [Conns -> {"none", "reading", "read", "done"}]
      BY <1>1, <3>4 DEF StreamTypeOK
    <3>6. ASSUME NEW d \in Conns
          PROVE  Stays(d) \/ GivesUp(d)
      BY <1>1, <2>1, <3>3, <3>4 DEF Stays, GivesUp, StreamTypeOK
    <3> QED BY <1>1, <3>1, <3>3, <3>5, <3>6, QuietKeeps DEF StreamTypeOK, ReadFails
  <2>2. CASE conn[c] # "closed"
    <3>1. conn[c] # "new"
      BY <1>1, <1>5 DEF ConnFollows, ReadFails, BacklogNotSent
    <3> QED BY <1>5, <2>2, <3>1, CloseKeeps DEF ReadFails, BacklogNotSent
  <2> QED BY <2>1, <2>2
<1>6. ASSUME NEW c \in Conns, AbandonBacklog(c)
      PROVE  StreamInv'
  <2>1. /\ conn' = conn /\ open' = open /\ sub' = sub /\ buffer' = buffer
        /\ phase' = [phase EXCEPT ![c] = "done"] /\ conn[c] = "closed"
    BY <1>6 DEF AbandonBacklog, adapter
  <2>2. phase' \in [Conns -> {"none", "reading", "read", "done"}]
    BY <1>1, <2>1 DEF StreamTypeOK
  <2>3. ASSUME NEW d \in Conns
        PROVE  Stays(d) \/ GivesUp(d)
    BY <1>1, <2>1 DEF Stays, GivesUp, StreamTypeOK
  <2> QED BY <1>1, <1>6, <2>1, <2>2, <2>3, QuietKeeps DEF StreamTypeOK, AbandonBacklog
<1> QED BY <1>2, <1>3, <1>4, <1>5, <1>6

\* The initial state.
LEMMA StreamInitInv == StreamInit => StreamInv
<1> SUFFICES ASSUME StreamInit PROVE StreamInv
  OBVIOUS
<1>1. StreamTypeOK
  <2>1. Cardinality({}) = 0 /\ MaxBuffered \in Nat /\ MaxConns \in Nat
    BY FS_EmptySet, StreamAssumption
  <2>2. wire \in [Conns -> Seq(Frame)]
    BY DEF StreamInit
  <2> QED BY <2>1, <2>2 DEF StreamInit, StreamTypeOK
<1>2. \A c \in Conns : ConnFollows(c)
  BY StreamAssumption DEF StreamInit, ConnFollows, Conns
<1>3. ClientFollows
  BY DEF StreamInit, ClientFollows
<1> QED BY <1>1, <1>2, <1>3 DEF StreamInv

\* A new connection.
LEMMA DialKeeps == StreamInv /\ Dial => StreamInv'
<1> SUFFICES ASSUME StreamInv, Dial PROVE StreamInv'
  OBVIOUS
<1>1. /\ StreamTypeOK /\ ClientFollows /\ MaxConns \in Nat /\ link \in Nat
      /\ link' = link + 1 /\ link + 1 \in Conns /\ link' \in Nat
  BY SMTT(30), StreamAssumption DEF StreamInv, StreamTypeOK, Dial, Conns
<1>2. /\ UNCHANGED <<latest, phase, page, sub, buffer, wire, clientCursor, received, cutOff>>
      /\ \A c \in Conns : /\ conn'[c] = (IF c = link' THEN "opening" ELSE conn[c])
                          /\ open'[c] = (IF c = link' THEN TRUE ELSE open[c])
                          /\ asked'[c] = (IF c = link' THEN clientCursor ELSE asked[c])
  BY <1>1 DEF Dial, client, StreamTypeOK
<1>3. StreamTypeOK'
  BY <1>1, <1>2 DEF StreamTypeOK, Dial, Conns
<1>4. ASSUME NEW c \in Conns
      PROVE  ConnFollows(c)'
  <2>1. ConnFollows(c) /\ c \in Nat
    BY DEF StreamInv, Conns
  <2>2. CASE c = link'
    <3>1. conn[c] = "new" /\ phase[c] = "none" /\ sub[c] = "none" /\ buffer[c] = {} /\ wire[c] = <<>>
      BY <1>1, <2>1, <2>2 DEF ConnFollows
    <3>2. conn'[c] = "opening" /\ asked'[c] = clientCursor /\ clientCursor <= latest
      BY <1>1, <1>2, <2>2 DEF ClientFollows
    <3> QED BY <1>1, <1>2, <2>2, <3>1, <3>2 DEF ConnFollows
  <2>3. CASE c # link'
    <3>1. c > link' <=> c > link
      BY <1>1, <2>1, <2>3
    <3>2. c # link \/ phase[c] = "done" \/ asked[c] = clientCursor
      BY <2>1 DEF ConnFollows
    <3> QED BY <1>1, <1>2, <2>1, <2>3, <3>1, <3>2 DEF ConnFollows, PageIs
  <2> QED BY <2>2, <2>3
<1>5. ClientFollows'
  <2>1. wire[link'] = <<>> /\ sub[link'] = "none"
    BY <1>1 DEF StreamInv, ConnFollows
  <2> QED BY <1>1, <1>2, <2>1 DEF ClientFollows, FollowsOn, LastCursor
<1> QED BY <1>3, <1>4, <1>5 DEF StreamInv

\* The client takes a frame.
LEMMA ReceiveKeeps == StreamInv /\ Receive => StreamInv'
<1> SUFFICES ASSUME StreamInv, Receive PROVE StreamInv'
  OBVIOUS
<1>1. /\ StreamTypeOK /\ ClientFollows /\ link \in Conns /\ link > 0 /\ wire[link] # <<>>
  BY StreamAssumption DEF StreamInv, StreamTypeOK, Receive, Conns
<1>2. PICK w \in Seq(Frame) : w = wire[link]
  BY <1>1 DEF StreamTypeOK
<1>3. /\ w # <<>> /\ 1 \in DOMAIN w /\ w[1] = Head(w) /\ Tail(w) \in Seq(Frame)
      /\ w[1].cursor \in Nat /\ w[1].records \subseteq Nat
  <2>1. w # <<>> /\ 1 \in DOMAIN w /\ w[1] = Head(w) /\ Tail(w) \in Seq(Frame)
    BY <1>1, <1>2
  <2> QED BY <2>1, FrameOf
<1>4. /\ received' = received \cup w[1].records /\ clientCursor' = w[1].cursor
      /\ wire'[link] = Tail(w) /\ \A c \in Conns : c # link => wire'[c] = wire[c]
      /\ UNCHANGED <<latest, link, conn, open, sub, buffer, phase, asked, page, cutOff>>
  BY <1>1, <1>2, <1>3 DEF Receive, StreamTypeOK, adapter, handler
<1>5. StreamTypeOK'
  <2>1. wire' = [wire EXCEPT ![link] = Tail(w)]
    BY <1>2 DEF Receive
  <2>2. wire' \in [Conns -> Seq(Frame)]
    BY <1>1, <1>3, <2>1 DEF StreamTypeOK
  <2> QED BY <1>1, <1>3, <1>4, <2>2 DEF StreamTypeOK
<1>6. ASSUME NEW c \in Conns
      PROVE  ConnFollows(c)'
  <2>1. ConnFollows(c) /\ phase[link] = "done"
    BY <1>1 DEF StreamInv, ConnFollows
  <2> QED BY <1>4, <2>1 DEF ConnFollows, PageIs
<1>7. /\ FollowsOn(w, clientCursor, cutOff) /\ LastCursor(w, clientCursor) <= latest
      /\ clientCursor \in Nat /\ latest \in Nat
      /\ sub[link] = "live" => \A r \in 1..latest : r > LastCursor(w, clientCursor) => r \in cutOff
  BY <1>1, <1>2 DEF ClientFollows, StreamTypeOK
<1>8. /\ FollowsOn(Tail(w), w[1].cursor, cutOff)
      /\ LastCursor(Tail(w), w[1].cursor) = LastCursor(w, clientCursor)
  BY <1>3, <1>7, TailFollowsOn
<1>9. clientCursor' <= latest /\ received' \subseteq 1..clientCursor'
  <2>1. clientCursor <= w[1].cursor /\ \A r \in w[1].records : clientCursor < r /\ r <= w[1].cursor
    BY <1>3, <1>7 DEF FollowsOn
  <2>2. w[1].cursor <= LastCursor(w, clientCursor) /\ LastCursor(w, clientCursor) \in Nat
    <3>0. Len(w) \in DOMAIN w /\ Len(w) \in Nat /\ (1 < Len(w) \/ Len(w) = 1)
      BY <1>3, LastPlace
    <3>1. LastCursor(w, clientCursor) = w[Len(w)].cursor
      BY <1>3 DEF LastCursor
    <3>2. w[Len(w)].cursor \in Nat
      BY <3>0, FrameOf
    <3> QED BY <1>3, <1>7, <3>0, <3>1, <3>2 DEF FollowsOn
  <2>3. received \subseteq 1..clientCursor
    BY <1>1 DEF ClientFollows
  <2>4. PICK k \in Nat : k = w[1].cursor
    BY <1>3
  <2>5. PICK l \in Nat : l = LastCursor(w, clientCursor)
    BY <2>2
  <2>6. k <= latest
    BY <1>7, <2>2, <2>4, <2>5
  <2>7. ASSUME NEW r \in received \cup w[1].records
        PROVE  r \in 1..k
    <3>1. clientCursor <= k /\ clientCursor \in Nat
      BY <1>7, <2>1, <2>4
    <3>2. CASE r \in received
      <4>1. r \in 1..clientCursor
        BY <2>3, <3>2
      <4> QED BY <2>4, <3>1, <4>1
    <3>3. CASE r \in w[1].records
      <4>1. r \in Nat /\ clientCursor < r /\ r <= k
        BY <1>3, <2>1, <2>4, <3>3
      <4> QED BY <3>1, <4>1
    <3> QED BY <3>2, <3>3
  <2> QED BY <1>4, <2>4, <2>6, <2>7
<1>10. ASSUME NEW r \in 1..clientCursor'
       PROVE  r \in received' \cup cutOff'
  <2>1. CASE r <= clientCursor
    BY <1>1, <1>4, <1>7, <2>1 DEF ClientFollows
  <2>2. CASE clientCursor < r
    <3>1. Before(w, 1, clientCursor) = clientCursor
      BY DEF Before
    <3> QED BY <1>3, <1>4, <1>7, <2>2, <3>1 DEF FollowsOn
  <2> QED BY <1>3, <1>4, <1>7, <2>1, <2>2
<1>11. ClientFollows'
  BY <1>1, <1>4, <1>7, <1>8, <1>9, <1>10 DEF ClientFollows
<1> QED BY <1>5, <1>6, <1>11 DEF StreamInv

\* A subscribe frame.
LEMMA SubscribeKeeps ==
  ASSUME NEW c \in Conns, StreamInv, HandleSubscribe(c)
  PROVE  StreamInv'
<1>1. /\ StreamTypeOK /\ ClientFollows /\ conn[c] # "new" /\ phase[c] = "none"
      /\ sub' = [sub EXCEPT ![c] = "buffering"] /\ phase' = [phase EXCEPT ![c] = "reading"]
      /\ UNCHANGED <<latest, link, conn, open, asked, page, buffer, wire, cutOff>>
      /\ UNCHANGED <<clientCursor, received>>
  BY DEF StreamInv, HandleSubscribe, client
<1>2. StreamTypeOK'
  BY <1>1 DEF StreamTypeOK
<1>3. ASSUME NEW d \in Conns
      PROVE  ConnFollows(d)'
  <2>1. ConnFollows(d) /\ conn[d] \in {"new", "opening", "subscribed", "closed"}
    BY <1>1 DEF StreamInv, StreamTypeOK
  <2>2. CASE d = c
    <3>1. sub'[d] = "buffering" /\ phase'[d] = "reading" /\ phase[d] = "none" /\ conn[d] # "new"
      BY <1>1, <2>2 DEF StreamTypeOK
    <3> QED BY <1>1, <2>1, <3>1 DEF ConnFollows
  <2>3. CASE d # c
    <3>1. sub'[d] = sub[d] /\ phase'[d] = phase[d]
      BY <1>1, <2>3 DEF StreamTypeOK
    <3> QED BY <1>1, <2>1, <3>1 DEF ConnFollows, PageIs
  <2> QED BY <2>2, <2>3
<1>4. ClientFollows'
  <2>1. link > 0 /\ sub'[link] = "live" => sub[link] = "live"
    BY <1>1, StreamAssumption DEF StreamTypeOK, Conns
  <2> QED BY <1>1, <2>1 DEF ClientFollows
<1> QED BY <1>2, <1>3, <1>4 DEF StreamInv

\* The backlog is read.
LEMMA ReadKeeps ==
  ASSUME NEW c \in Conns, StreamInv, ReadBacklog(c)
  PROVE  StreamInv'
<1>1. /\ StreamTypeOK /\ ClientFollows /\ ConnFollows(c) /\ phase[c] = "reading"
      /\ page' = [page EXCEPT ![c] = Backlog(c)] /\ phase' = [phase EXCEPT ![c] = "read"]
      /\ UNCHANGED <<latest, link, asked, wire, cutOff, conn, open, sub, buffer>>
      /\ UNCHANGED <<clientCursor, received>>
  BY DEF StreamInv, ReadBacklog, client, adapter
<1>2. latest \in Nat /\ asked[c] \in Nat /\ asked[c] <= latest /\ BacklogLimit \in Nat
  BY <1>1, StreamAssumption DEF StreamTypeOK, ConnFollows
<1>3. PICK m \in asked[c]..latest :
        Backlog(c) = (asked[c] + 1)..m /\ (m = latest \/ m = asked[c] + BacklogLimit)
  <2>1. CASE latest <= asked[c] + BacklogLimit
    <3>1. Backlog(c) = (asked[c] + 1)..latest /\ latest \in asked[c]..latest
      BY <1>2, <2>1 DEF Backlog
    <3> QED BY <3>1
  <2>2. CASE asked[c] + BacklogLimit < latest
    <3>1. /\ Backlog(c) = (asked[c] + 1)..(asked[c] + BacklogLimit)
          /\ asked[c] + BacklogLimit \in asked[c]..latest
      BY <1>2, <2>2 DEF Backlog
    <3> QED BY <3>1
  <2> QED BY <1>2, <2>1, <2>2
<1>4. m \in Nat
  BY <1>2, <1>3
<1>5. Cardinality((asked[c] + 1)..m) # BacklogLimit => m = latest
  <2>1. Cardinality((asked[c] + 1)..m) = IF asked[c] + 1 > m THEN 0 ELSE m - (asked[c] + 1) + 1
    <3>1. PICK a \in Int : a = asked[c] + 1
      BY <1>2
    <3>2. Cardinality(a..m) = IF a > m THEN 0 ELSE m - a + 1
      BY <1>4, FS_Interval
    <3> QED BY <3>1, <3>2
  <2>2. CASE m = asked[c] + BacklogLimit
    BY <1>2, <1>4, <2>1, <2>2, StreamAssumption
  <2> QED BY <1>3, <2>2
<1>6. Backlog(c) \in SUBSET Nat
  BY <1>2 DEF Backlog
<1>7. StreamTypeOK'
  BY <1>1, <1>6 DEF StreamTypeOK
<1>8. ASSUME NEW d \in Conns
      PROVE  ConnFollows(d)'
  <2>1. ConnFollows(d)
    BY DEF StreamInv
  <2>2. CASE d = c
    <3>1. page'[d] = (asked[c] + 1)..m /\ phase'[d] = "read"
      <4>1. page'[c] = Backlog(c) /\ phase'[c] = "read"
        BY <1>1 DEF StreamTypeOK
      <4>2. page'[c] = (asked[c] + 1)..m
        BY <1>3, <4>1
      <4> QED BY <2>2, <4>1, <4>2
    <3>2. \A r \in (latest + 1)..latest : r \in buffer[c]
      BY <1>2
    <3>3. PageIs(d, m)'
      BY <1>1, <1>2, <1>3, <1>5, <2>2, <3>1, <3>2 DEF PageIs
    <3> QED BY <1>1, <1>4, <2>1, <2>2, <3>1, <3>3 DEF ConnFollows
  <2>3. CASE d # c
    <3>1. page'[d] = page[d] /\ phase'[d] = phase[d]
      BY <1>1, <2>3 DEF StreamTypeOK
    <3> QED BY <1>1, <2>1, <3>1 DEF ConnFollows, PageIs
  <2> QED BY <2>2, <2>3
<1>9. ClientFollows'
  BY <1>1 DEF ClientFollows
<1> QED BY <1>7, <1>8, <1>9 DEF StreamInv

\* Where the backlog ends.
LEMMA PageEnds ==
  ASSUME NEW c \in Conns, StreamTypeOK, NEW m \in Nat, PageIs(c, m)
  PROVE  BacklogEnd(c) = m
<1>1. asked[c] \in Nat /\ m \in asked[c]..latest /\ latest \in Nat /\ page[c] = (asked[c] + 1)..m
  BY DEF PageIs, StreamTypeOK
<1>2. CASE page[c] = {}
  <2>1. (asked[c] + 1)..m = {}
    BY <1>1, <1>2
  <2>2. m = asked[c]
    <3>1. asked[c] + 1 <= m => m \in (asked[c] + 1)..m
      BY <1>1
    <3>2. asked[c] <= m /\ ~(asked[c] + 1 <= m)
      BY <1>1, <2>1, <3>1
    <3> QED BY <1>1, <3>2
  <2> QED BY <1>2, <2>2 DEF BacklogEnd
<1>3. CASE page[c] # {}
  <2>0. PICK q \in page[c] : q \in (asked[c] + 1)..m
    BY <1>1, <1>3
  <2>a. asked[c] + 1 <= m
    BY <1>1, <2>0
  <2>1. m \in page[c] /\ \A p \in page[c] : p <= m
    BY <1>1, <2>a
  <2>2. ASSUME NEW r \in page[c], \A p \in page[c] : p <= r
        PROVE  r = m
    BY <1>1, <2>1, <2>2
  <2>3. m = CHOOSE r \in page[c] : \A p \in page[c] : p <= r
    BY <2>1, <2>2
  <2> QED BY <1>3, <2>3 DEF BacklogEnd
<1> QED BY <1>2, <1>3

\* When a buffer was drained, it is all that was sent.
LEMMA AllDrained ==
  ASSUME NEW D, IsFiniteSet(D), D \subseteq Nat, NEW s \in [1..Cardinality(D) -> D],
         IsPrefixInOrder(s, D)
  PROVE  \A r \in D : \E i \in 1..Cardinality(D) : s[i] = r
<1>1. Cardinality(D) \in Nat
  BY FS_CardinalityType
<1>2. PICK n \in Nat : n = Cardinality(D)
  BY <1>1
<1>3. s \in Injection(1..n, D)
  <2>1. \A i, j \in 1..n : i < j => s[i] < s[j]
    BY <1>2 DEF IsPrefixInOrder
  <2>2. ASSUME NEW i \in 1..n, NEW j \in 1..n, s[i] = s[j]
        PROVE  i = j
    <3>0. s[i] \in D
      BY <1>2, <2>2
    <3>a. PICK a \in Nat : a = s[i] /\ a = s[j]
      BY <2>2, <3>0
    <3>1. ~(s[i] < s[j]) /\ ~(s[j] < s[i])
      BY <3>a
    <3>2. ~(i < j) /\ ~(j < i) /\ i \in Nat /\ j \in Nat
      BY <1>2, <2>1, <3>1
    <3> QED BY <3>2
  <2> QED BY <1>2, <2>2 DEF Injection, IsInjective
<1>4. Cardinality(1..n) = n
  BY <1>2, FS_Interval
<1>5. s \in Surjection(1..n, D)
  BY <1>2, <1>3, <1>4, FS_Injection
<1> QED BY <1>2, <1>5 DEF Surjection

\* What goLive sends: the page up to m, and the first n of the records D behind it.
\* Between the page and top nothing is missing in D but what is lost.
SentOnGoLive(w, from, m, n, D, s, lost, top) ==
  /\ from \in Nat /\ m \in Nat /\ n \in Nat /\ top \in Nat /\ from <= m /\ m <= top
  /\ D \in SUBSET Nat /\ \A r \in D : m < r /\ r <= top
  /\ \A r \in (m + 1)..top : r \in D \cup lost
  /\ s \in [1..n -> D] /\ IsPrefixInOrder(s, D)
  /\ w \in Seq(Frame) /\ Len(w) = n + 1
  /\ w[1] = [records |-> (from + 1)..m, cursor |-> m]
  /\ \A i \in 1..n : w[i + 1] = LiveFrame(s[i])

\* It follows the client's cursor.
LEMMA GoLiveFollowsOn ==
  ASSUME NEW w, NEW from, NEW m, NEW n, NEW D, NEW s, NEW lost, NEW top,
         SentOnGoLive(w, from, m, n, D, s, lost, top)
  PROVE  /\ FollowsOn(w, from, lost)
         /\ LastCursor(w, from) = (IF n = 0 THEN m ELSE s[n])
<1>0. /\ from \in Nat /\ m \in Nat /\ n \in Nat /\ top \in Nat /\ from <= m /\ m <= top
      /\ D \in SUBSET Nat /\ (\A r \in D : m < r) /\ (\A r \in D : r <= top)
      /\ \A r \in (m + 1)..top : r \in D \cup lost
      /\ s \in [1..n -> D] /\ IsPrefixInOrder(s, D)
      /\ w \in Seq(Frame) /\ Len(w) = n + 1
      /\ w[1] = [records |-> (from + 1)..m, cursor |-> m]
      /\ \A i \in 1..n : w[i + 1] = LiveFrame(s[i])
  BY DEF SentOnGoLive
<1> USE <1>0
<1>1. /\ DOMAIN w = 1..(n + 1) /\ w # <<>>
      /\ w[1].cursor = m /\ w[1].records = (from + 1)..m
  OBVIOUS
<1>2. ASSUME NEW i \in 1..n
      PROVE  /\ w[i + 1].cursor = s[i] /\ w[i + 1].records = {s[i]}
             /\ s[i] \in D /\ s[i] \in Nat /\ m < s[i] /\ s[i] <= top
  <2>1. w[i + 1] = [records |-> {s[i]}, cursor |-> s[i]]
    BY DEF LiveFrame
  <2>2. s[i] \in D
    OBVIOUS
  <2>3. s[i] \in Nat /\ m < s[i] /\ s[i] <= top
    BY <2>2
  <2> QED BY <2>1, <2>2, <2>3
<1>3. DOMAIN s = 1..n
  OBVIOUS
<1>4. ASSUME NEW i \in 1..(n + 1)
      PROVE  i = 1 \/ \E k \in 1..n : i = k + 1
  <2>1. CASE i # 1
    <3>1. i - 1 \in 1..n /\ i = (i - 1) + 1
      BY <2>1
    <3> QED BY <3>1
  <2> QED BY <2>1
<1>5. ASSUME NEW i \in DOMAIN w
      PROVE  /\ from <= w[i].cursor
             /\ \A r \in w[i].records : from < r /\ r <= w[i].cursor
  <2>1. CASE i = 1
    BY <1>1, <2>1
  <2>2. ASSUME NEW k \in 1..n, i = k + 1
        PROVE  /\ from <= w[i].cursor
               /\ \A r \in w[i].records : from < r /\ r <= w[i].cursor
    <3>1. PICK a \in Nat : a = s[k] /\ m < a
      BY <1>2
    <3>2. w[i].cursor = a /\ w[i].records = {a}
      BY <1>2, <2>2, <3>1
    <3>3. from <= a /\ from < a
      BY <3>1
    <3> QED BY <3>1, <3>2, <3>3
  <2> QED BY <1>1, <1>4, <2>1, <2>2
<1>6. ASSUME NEW i \in DOMAIN w, NEW j \in DOMAIN w, i < j
      PROVE  w[i].cursor <= w[j].cursor /\ \A q \in w[j].records : w[i].cursor < q
  <2>1. PICK l \in 1..n : j = l + 1
    BY <1>1, <1>4, <1>6
  <2>2. CASE i = 1
    <3>1. PICK a \in Nat : a = s[l] /\ m < a
      BY <1>2
    <3>2. w[j].cursor = a /\ w[j].records = {a}
      BY <1>2, <2>1, <3>1
    <3>3. w[i].cursor = m
      BY <1>1, <2>2
    <3> QED BY <3>1, <3>2, <3>3
  <2>3. ASSUME NEW k \in 1..n, i = k + 1
        PROVE  w[i].cursor <= w[j].cursor /\ \A q \in w[j].records : w[i].cursor < q
    <3>1. k < l
      BY <1>6, <2>1, <2>3
    <3>2. s[k] < s[l]
      BY <1>3, <3>1 DEF IsPrefixInOrder
    <3> QED BY SMTT(30), <1>2, <2>1, <2>3, <3>2
  <2> QED BY <1>1, <1>4, <2>2, <2>3
<1>7. ASSUME NEW i \in DOMAIN w, NEW r \in Nat, Before(w, i, from) < r, r <= w[i].cursor
      PROVE  r \in w[i].records \cup lost
  <2>1. CASE i = 1
    BY <1>1, <1>7, <2>1 DEF Before
  <2>2. ASSUME NEW k \in 1..n, i = k + 1
        PROVE  r \in w[i].records \cup lost
    <3>1. w[i].cursor = s[k] /\ w[i].records = {s[k]} /\ s[k] \in Nat /\ s[k] <= top
      BY <1>2, <2>2
    <3>2. Before(w, i, from) = w[k].cursor
      <4>1. i # 1 /\ i - 1 = k
        BY <2>2
      <4> QED BY <4>1 DEF Before
    <3>3. /\ m <= w[k].cursor /\ w[k].cursor \in Nat
          /\ \A l \in 1..n : w[k].cursor < s[l] => k <= l
      <4>1. k \in 1..(n + 1)
        OBVIOUS
      <4>2. CASE k = 1
        BY <1>1, <4>2
      <4>3. ASSUME NEW h \in 1..n, k = h + 1
            PROVE  /\ m <= w[k].cursor /\ w[k].cursor \in Nat
                   /\ \A l \in 1..n : w[k].cursor < s[l] => k <= l
        <5>1. w[k].cursor = s[h] /\ s[h] \in Nat /\ m < s[h]
          BY <1>2, <4>3
        <5>2. ASSUME NEW l \in 1..n, s[h] < s[l]
              PROVE  k <= l
          <6>1. s[l] \in Nat
            BY <1>2
          <6>2. ~(l < h)
            BY <1>3, <5>1, <5>2, <6>1 DEF IsPrefixInOrder
          <6>3. l # h
            BY <5>1, <5>2
          <6> QED BY <4>3, <6>2, <6>3
        <5> QED BY <5>1, <5>2
      <4> QED BY <1>4, <4>1, <4>2, <4>3
    <3>4. r \in D \cup lost
      <4>1. r \in (m + 1)..top
        BY <1>7, <3>1, <3>2, <3>3
      <4> QED BY <4>1
    <3>5. CASE r \in D
      <4>1. r \in Range(s)
        BY <1>3, <1>7, <3>1, <3>5 DEF IsPrefixInOrder
      <4>2. PICK l \in 1..n : r = s[l]
        BY <1>3, <4>1 DEF Range
      <4>3. k <= l
        BY <1>7, <3>2, <3>3, <4>2
      <4>4. ~(k < l)
        <5>1. SUFFICES ASSUME k < l PROVE FALSE
          OBVIOUS
        <5>2. s[k] < s[l]
          BY <1>3, <5>1 DEF IsPrefixInOrder
        <5>3. PICK a \in Nat : a = s[k]
          BY <3>1
        <5>4. r <= a /\ a < r
          BY <1>7, <3>1, <4>2, <5>2, <5>3
        <5> QED BY <5>3, <5>4
      <4>5. r = s[k]
        BY <4>2, <4>3, <4>4
      <4> QED BY <3>1, <4>5
    <3> QED BY <3>4, <3>5
  <2> QED BY <1>1, <1>4, <2>1, <2>2
<1>8. FollowsOn(w, from, lost)
  BY <1>5, <1>6, <1>7 DEF FollowsOn
<1>9. LastCursor(w, from) = (IF n = 0 THEN m ELSE s[n])
  <2>1. LastCursor(w, from) = w[n + 1].cursor
    BY <1>1 DEF LastCursor
  <2>2. CASE n = 0
    BY <1>1, <2>1, <2>2
  <2>3. CASE n # 0
    <3>1. n \in 1..n
      BY <2>3
    <3> QED BY <1>2, <2>1, <2>3, <3>1
  <2> QED BY <2>2, <2>3
<1> QED BY <1>8, <1>9

\* The frames of the page and of the records drained, one after the other.
LEMMA FramesOfGoLive ==
  ASSUME NEW f \in Frame, NEW n \in Nat, NEW g \in [1..n -> Frame],
         NEW w, w = <<>> \o <<f>> \o g
  PROVE  /\ w \in Seq(Frame) /\ Len(w) = n + 1 /\ w[1] = f
         /\ \A i \in 1..n : w[i + 1] = g[i]
<1>1. g \in Seq(Frame) /\ Len(g) = n
  OBVIOUS
<1>2. PICK v : v = <<>> \o <<f>>
  OBVIOUS
<1>3. v \in Seq(Frame) /\ Len(v) = 1 /\ v[1] = f
  BY <1>2
<1>4. w = v \o g
  BY <1>2
<1> QED BY <1>1, <1>3, <1>4

\* goLive.
LEMMA GoLiveKeeps ==
  ASSUME NEW c \in Conns, StreamInv, GoLive(c)
  PROVE  StreamInv'
<1>1. /\ StreamTypeOK /\ ClientFollows /\ ConnFollows(c)
      /\ phase[c] = "read" /\ conn[c] # "closed" /\ open[c]
      /\ UNCHANGED <<latest, link, asked, page, clientCursor, received>>
      /\ buffer' = [buffer EXCEPT ![c] = {}] /\ conn' = [conn EXCEPT ![c] = "subscribed"]
      /\ phase' = [phase EXCEPT ![c] = "done"]
  BY DEF StreamInv, GoLive, client
<1>2. /\ conn[c] = "opening" /\ sub[c] = "buffering" /\ wire[c] = <<>>
      /\ buffer[c] \subseteq 1..latest /\ latest \in Nat /\ asked[c] \in Nat
      /\ c = link => asked[c] = clientCursor
  BY <1>1 DEF ConnFollows, StreamTypeOK
<1>3. PICK m \in Nat : PageIs(c, m)
  BY <1>1 DEF ConnFollows
<1>4. /\ BacklogEnd(c) = m /\ asked[c] <= m /\ m <= latest /\ page[c] = (asked[c] + 1)..m
  BY <1>1, <1>2, <1>3, PageEnds DEF PageIs
<1>5. PICK D : D = Drained(c)
  OBVIOUS
<1>6. D = {r \in buffer[c] : m < r}
  BY <1>4, <1>5 DEF Drained
<1>7. D \in SUBSET Nat /\ (\A r \in D : m < r) /\ (\A r \in D : r <= latest)
  BY <1>2, <1>6
<1>8. IsFiniteSet(D) /\ Cardinality(D) \in Nat
  <2>1. IsFiniteSet(1..latest)
    <3>1. latest \in Int /\ 1 \in Int
      BY <1>2
    <3> QED BY <3>1, FS_Interval
  <2>2. D \in SUBSET (1..latest)
    BY <1>2, <1>6
  <2> QED BY <2>1, <2>2, FS_Subset, FS_CardinalityType
<1>9. PICK n, s :
        /\ n \in 0..Cardinality(D) /\ s \in [1..n -> D]
        /\ IsPrefixInOrder(s, D)
        /\ wire' = [wire EXCEPT ![c] = @ \o <<[records |-> page[c], cursor |-> BacklogEnd(c)]>>
                                         \o [i \in 1..n |-> LiveFrame(s[i])]]
        /\ sub' = [sub EXCEPT ![c] = IF n = Cardinality(D) THEN "live" ELSE "closed"]
        /\ open' = [open EXCEPT ![c] = n = Cardinality(D)]
  BY <1>5 DEF GoLive
<1>10. n \in Nat
  BY <1>8, <1>9
<1>11. PICK lost : lost = cutOff'
  OBVIOUS
<1>12. /\ lost \in SUBSET Nat /\ cutOff \subseteq lost
       /\ \A r \in (m + 1)..latest : r \in D \cup lost
  <2>1. cutOff' = cutOff \cup
          IF Cardinality(page[c]) = BacklogLimit THEN {r \in 1..latest : r > m} \ D ELSE {}
    BY <1>4, <1>5 DEF GoLive
  <2>2. cutOff \subseteq Nat /\ {r \in 1..latest : r > m} \ D \subseteq Nat
    BY <1>1, <1>2 DEF StreamTypeOK
  <2>3. lost \in SUBSET Nat /\ cutOff \subseteq lost
    BY <1>11, <2>1, <2>2
  <2>4. ASSUME NEW r \in (m + 1)..latest
        PROVE  r \in D \cup lost
    <3>1. r \in 1..latest /\ m < r
      BY <1>2, <1>4, <2>4
    <3>2. CASE Cardinality(page[c]) = BacklogLimit
      BY <1>11, <2>1, <3>1, <3>2
    <3>3. CASE Cardinality(page[c]) # BacklogLimit
      BY <1>1, <1>3, <1>6, <3>1, <3>3 DEF PageIs
    <3> QED BY <3>2, <3>3
  <2> QED BY <2>3, <2>4
<1>13. PICK f : f = [records |-> page[c], cursor |-> BacklogEnd(c)]
  OBVIOUS
<1>14. f \in Frame /\ f = [records |-> (asked[c] + 1)..m, cursor |-> m]
  <2>1. f = [records |-> (asked[c] + 1)..m, cursor |-> m]
    BY <1>4, <1>13
  <2>2. (asked[c] + 1)..m \in SUBSET Nat
    BY <1>2
  <2> QED BY <2>1, <2>2 DEF Frame
<1>15. PICK g : g = [i \in 1..n |-> LiveFrame(s[i])]
  OBVIOUS
<1>16. g \in [1..n -> Frame] /\ \A i \in 1..n : g[i] = LiveFrame(s[i])
  <2>1. ASSUME NEW i \in 1..n
        PROVE  LiveFrame(s[i]) \in Frame
    <3>1. s[i] \in Nat
      BY <1>7, <1>9
    <3> QED BY <3>1 DEF LiveFrame, Frame
  <2> QED BY <1>15, <2>1
<1>17. PICK w : w = <<>> \o <<f>> \o g
  OBVIOUS
<1>18. /\ w \in Seq(Frame) /\ Len(w) = n + 1 /\ w[1] = f
       /\ \A i \in 1..n : w[i + 1] = g[i]
  <2>1. n \in Nat /\ f \in Frame /\ g \in [1..n -> Frame]
    BY <1>10, <1>14, <1>16
  <2> QED BY <2>1, <1>17, FramesOfGoLive
<1>19. wire' = [wire EXCEPT ![c] = w]
  BY <1>2, <1>9, <1>13, <1>15, <1>17
<1>20. /\ FollowsOn(w, asked[c], lost)
       /\ LastCursor(w, asked[c]) = (IF n = 0 THEN m ELSE s[n])
  <2>1. \A i \in 1..n : w[i + 1] = LiveFrame(s[i])
    BY <1>16, <1>18
  <2>2. w[1] = [records |-> (asked[c] + 1)..m, cursor |-> m]
    BY <1>14, <1>18
  <2>3. PICK from \in Nat, top \in Nat : from = asked[c] /\ top = latest
    BY <1>2
  <2>4. /\ from <= m /\ m <= top /\ n \in Nat /\ s \in [1..n -> D] /\ IsPrefixInOrder(s, D)
        /\ D \in SUBSET Nat /\ (\A r \in D : m < r) /\ (\A r \in D : r <= top)
        /\ \A r \in (m + 1)..top : r \in D \cup lost
    BY <1>4, <1>7, <1>9, <1>10, <1>12, <2>3
  <2>5. w \in Seq(Frame) /\ Len(w) = n + 1 /\ w[1] = [records |-> (from + 1)..m, cursor |-> m]
    BY <1>18, <2>2, <2>3
  <2>6. /\ FollowsOn(w, from, lost)
        /\ LastCursor(w, from) = (IF n = 0 THEN m ELSE s[n])
    <3>1. SentOnGoLive(w, from, m, n, D, s, lost, top)
      BY <1>3, <2>1, <2>3, <2>4, <2>5 DEF SentOnGoLive
    <3> QED BY <3>1, GoLiveFollowsOn
  <2> QED BY <2>3, <2>6
<1>21. StreamTypeOK'
  <2>1. wire' \in [Conns -> Seq(Frame)]
    BY <1>1, <1>18, <1>19 DEF StreamTypeOK
  <2>2. /\ buffer' \in [Conns -> SUBSET Nat] /\ conn' \in [Conns -> {"new", "opening", "subscribed", "closed"}]
        /\ phase' \in [Conns -> {"none", "reading", "read", "done"}]
    BY <1>1 DEF StreamTypeOK
  <2>3. /\ sub' \in [Conns -> {"none", "buffering", "live", "closed", "overflowed"}]
        /\ open' \in [Conns -> BOOLEAN]
    BY <1>1, <1>9 DEF StreamTypeOK
  <2>4. ASSUME NEW d \in Conns
        PROVE  Cardinality(buffer'[d]) <= MaxBuffered
    <3>1. buffer'[d] = {} \/ buffer'[d] = buffer[d]
      BY <1>1 DEF StreamTypeOK
    <3> QED BY <1>1, <3>1, FS_EmptySet, StreamAssumption DEF StreamTypeOK
  <2>5. cutOff' \subseteq Nat
    BY <1>11, <1>12
  <2> QED BY <1>1, <2>1, <2>2, <2>3, <2>4, <2>5 DEF StreamTypeOK
<1>22. ASSUME NEW d \in Conns
       PROVE  ConnFollows(d)'
  <2>1. ConnFollows(d)
    BY DEF StreamInv
  <2>2. CASE d = c
    <3>1. /\ conn'[c] = "subscribed" /\ phase'[c] = "done" /\ buffer'[c] = {}
      BY <1>1 DEF StreamTypeOK
    <3>2. sub'[c] \in {"live", "closed"} /\ (open'[c] => sub'[c] = "live")
      BY <1>1, <1>9 DEF StreamTypeOK
    <3> QED BY <1>1, <1>2, <2>1, <2>2, <3>1, <3>2 DEF ConnFollows
  <2>3. CASE d # c
    <3>1. /\ conn'[d] = conn[d] /\ phase'[d] = phase[d] /\ buffer'[d] = buffer[d]
          /\ sub'[d] = sub[d] /\ open'[d] = open[d] /\ wire'[d] = wire[d]
      BY <1>1, <1>9, <1>19, <2>3 DEF StreamTypeOK
    <3> QED BY <1>1, <2>1, <3>1 DEF ConnFollows, PageIs
  <2> QED BY <2>2, <2>3
<1>23. ClientFollows'
  <2>1. /\ clientCursor' = clientCursor /\ received' = received /\ latest' = latest /\ link' = link
        /\ cutOff' = lost /\ \A r \in 1..clientCursor : r \in received \cup lost
        /\ clientCursor <= latest /\ received \subseteq 1..clientCursor
    BY <1>1, <1>11, <1>12 DEF ClientFollows
  <2>2. ASSUME link > 0
        PROVE  /\ FollowsOn(wire[link], clientCursor, lost)'
               /\ LastCursor(wire[link], clientCursor)' <= latest
               /\ sub'[link] = "live" => \A r \in 1..latest :
                    r > LastCursor(wire[link], clientCursor)' => r \in lost
    <3>1. link \in Conns
      BY <1>1, <2>2, StreamAssumption DEF StreamTypeOK, Conns
    <3>2. CASE link = c
      <4>1. wire'[link] = w /\ asked[c] = clientCursor
        BY <1>1, <1>2, <1>19, <3>2 DEF StreamTypeOK
      <4>2. LastCursor(w, clientCursor) <= latest /\ LastCursor(w, clientCursor) \in Nat
        <5>1. CASE n = 0
          BY <1>4, <1>20, <4>1, <5>1
        <5>2. CASE n # 0
          <6>1. n \in 1..n
            BY <1>10, <5>2
          <6>2. s[n] \in D
            BY <1>9, <6>1
          <6> QED BY <1>7, <1>20, <4>1, <5>2, <6>2
        <5> QED BY <5>1, <5>2
      <4>3. ASSUME sub'[link] = "live", NEW r \in 1..latest, r > LastCursor(w, clientCursor)
            PROVE  r \in lost
        <5>1. n = Cardinality(D)
          BY <1>1, <1>9, <3>2, <4>3 DEF StreamTypeOK
        <5>2. \A q \in D : \E i \in 1..n : s[i] = q
          BY ZenonT(40), <1>7, <1>8, <1>9, <5>1, AllDrained
        <5>3. r \notin D
          <6>1. SUFFICES ASSUME r \in D PROVE FALSE
            OBVIOUS
          <6>2. PICK i \in 1..n : s[i] = r
            BY <5>2, <6>1
          <6>3. n \in 1..n /\ n # 0 /\ (i < n \/ i = n)
            BY <1>10, <6>2
          <6>4. s[n] < r
            BY <1>20, <4>1, <4>3, <6>3
          <6>5. s[n] \in Nat /\ DOMAIN s = 1..n
            BY <1>7, <1>9, <6>3
          <6>6. ~(i < n)
            BY <1>9, <6>2, <6>3, <6>4, <6>5 DEF IsPrefixInOrder
          <6> QED BY <6>2, <6>3, <6>4, <6>5, <6>6
        <5>4. m < r
          <6>1. m <= LastCursor(w, clientCursor)
            <7>1. CASE n = 0
              BY <1>20, <4>1, <7>1
            <7>2. CASE n # 0
              <8>1. n \in 1..n
                BY <1>10, <7>2
              <8>2. s[n] \in D
                BY <1>9, <8>1
              <8>3. LastCursor(w, clientCursor) = s[n]
                BY <1>20, <4>1, <7>2
              <8>4. m < s[n] /\ s[n] \in Nat
                BY <1>7, <8>2
              <8> QED BY <8>3, <8>4
            <7> QED BY <7>1, <7>2
          <6> QED BY <4>2, <4>3, <6>1
        <5>5. r \in (m + 1)..latest
          BY <1>2, <5>4
        <5> QED BY <1>12, <5>3, <5>5
      <4> QED BY <1>20, <2>1, <4>1, <4>2, <4>3
    <3>3. CASE link # c
      <4>1. wire'[link] = wire[link] /\ sub'[link] = sub[link]
        BY <1>1, <1>9, <1>19, <3>1, <3>3 DEF StreamTypeOK
      <4>2. /\ FollowsOn(wire[link], clientCursor, cutOff)
            /\ LastCursor(wire[link], clientCursor) <= latest
            /\ sub[link] = "live" =>
                 \A r \in 1..latest : r > LastCursor(wire[link], clientCursor) => r \in cutOff
        BY <1>1, <2>2 DEF ClientFollows
      <4>3. FollowsOn(wire[link], clientCursor, lost)
        BY <1>12, <4>2, MoreIsLost
      <4> QED BY <1>12, <2>1, <4>1, <4>2, <4>3
    <3> QED BY <3>2, <3>3
  <2> QED BY <2>1, <2>2 DEF ClientFollows
<1> QED BY <1>21, <1>22, <1>23 DEF StreamInv

\* A delivery is published: what it does to each connection.
LEMMA Published ==
  ASSUME StreamInv, Publish, NEW c \in Conns
  PROVE  /\ \/ Stays(c) /\ sub[c] # "buffering"
            \/ IsClosed(c)
            \/ /\ conn[c] = "closed" /\ conn'[c] = conn[c] /\ open'[c] = open[c] /\ phase'[c] = phase[c]
               /\ sub[c] = "buffering" /\ sub'[c] = "overflowed" /\ buffer'[c] = {}
            \/ /\ conn'[c] = conn[c] /\ open'[c] = open[c] /\ phase'[c] = phase[c]
               /\ sub[c] = "buffering" /\ sub'[c] = sub[c]
               /\ buffer'[c] = buffer[c] \cup {latest + 1} /\ ~(Cardinality(buffer[c]) >= MaxBuffered)
         /\ \/ wire'[c] = wire[c] /\ sub'[c] # "live"
            \/ wire'[c] = Append(wire[c], LiveFrame(latest + 1)) /\ sub[c] = "live"
<1>1. StreamTypeOK /\ ConnFollows(c)
  BY DEF StreamInv
<1>a. latest' = latest + 1 /\ phase' = phase
  BY DEF Publish, handler
<1> DEFINE LiveOnes == {d \in Subscribed : sub[d] = "live"}
           OverOnes == {d \in Subscribed : Overflows(d)}
           FailingOnes(slow) == slow \cup {d \in LiveOnes : ~open[d]}
           ClosingOnes(slow) == {d \in FailingOnes(slow) \cup OverOnes : conn[d] # "closed"}
<1>b. PICK slow \in SUBSET {d \in LiveOnes : open[d]} :
        /\ conn' = [d \in Conns |-> IF d \in ClosingOnes(slow) THEN "closed" ELSE conn[d]]
        /\ open' = [d \in Conns |-> open[d] /\ d \notin ClosingOnes(slow)]
        /\ sub' = [d \in Conns |->
             IF d \in OverOnes \ ClosingOnes(slow) THEN "overflowed" ELSE Unsubscribed(ClosingOnes(slow))[d]]
        /\ buffer' = [d \in Conns |->
             IF d \in OverOnes \cup ClosingOnes(slow) THEN {} ELSE Buffered(d, latest')]
        /\ wire' = [d \in Conns |->
             IF d \in LiveOnes \ FailingOnes(slow) THEN Append(wire[d], LiveFrame(latest')) ELSE wire[d]]
  BY DEF Publish
<1>2. PICK live, over, failing, closing :
        live = LiveOnes /\ over = OverOnes /\ failing = FailingOnes(slow) /\ closing = ClosingOnes(slow)
  OBVIOUS
<1>e. /\ conn' = [d \in Conns |-> IF d \in closing THEN "closed" ELSE conn[d]]
      /\ open' = [d \in Conns |-> open[d] /\ d \notin closing]
      /\ sub' = [d \in Conns |->
           IF d \in over \ closing THEN "overflowed" ELSE Unsubscribed(closing)[d]]
      /\ buffer' = [d \in Conns |->
           IF d \in over \cup closing THEN {} ELSE Buffered(d, latest')]
      /\ wire' = [d \in Conns |->
           IF d \in live \ failing THEN Append(wire[d], LiveFrame(latest')) ELSE wire[d]]
  BY <1>2, <1>b
<1>d. /\ live = {d \in Subscribed : sub[d] = "live"} /\ over = {d \in Subscribed : Overflows(d)}
      /\ failing = slow \cup {d \in live : ~open[d]} /\ slow \subseteq live
      /\ closing = {d \in failing \cup over : conn[d] # "closed"}
  BY <1>2, <1>b
<1> HIDE DEF LiveOnes, OverOnes, FailingOnes, ClosingOnes
<1>3. /\ c \in live <=> sub[c] = "live"
      /\ c \in over <=> Overflows(c)
      /\ c \in live => conn[c] = "subscribed"
  BY <1>1, <1>d DEF Subscribed, Overflows, ConnFollows
<1>4. /\ conn'[c] = (IF c \in closing THEN "closed" ELSE conn[c])
      /\ open'[c] = (open[c] /\ c \notin closing)
      /\ sub'[c] = (IF c \in over \ closing THEN "overflowed"
                    ELSE IF c \in closing /\ sub[c] # "none" THEN "closed" ELSE sub[c])
      /\ buffer'[c] = (IF c \in over \cup closing THEN {} ELSE Buffered(c, latest + 1))
      /\ wire'[c] = (IF c \in live \ failing THEN Append(wire[c], LiveFrame(latest + 1)) ELSE wire[c])
      /\ phase'[c] = phase[c] /\ open[c] \in BOOLEAN
  BY <1>1, <1>e, <1>a DEF Unsubscribed, StreamTypeOK
<1>5. c \in closing <=> c \in failing \cup over /\ conn[c] # "closed"
  BY <1>d
<1>6. c \in failing => c \in live
  BY <1>d
<1>7. CASE c \in closing
  <2>1. conn[c] # "new"
    BY <1>1, <1>3, <1>5, <1>6, <1>7 DEF ConnFollows, Overflows
  <2>2. IsClosed(c)
    BY <1>4, <1>7, <2>1 DEF IsClosed
  <2>3. sub'[c] # "live"
    BY <1>4, <1>7
  <2>4. \/ wire'[c] = wire[c]
        \/ wire'[c] = Append(wire[c], LiveFrame(latest + 1)) /\ sub[c] = "live"
    BY <1>3, <1>4
  <2> QED BY <2>2, <2>3, <2>4
<1>8. CASE c \notin closing
  <2>1. CASE c \in over
    <3>1. conn[c] = "closed" /\ c \notin live /\ sub[c] = "buffering"
      BY <1>3, <1>5, <1>8, <2>1 DEF Overflows
    <3> QED BY <1>4, <1>8, <2>1, <3>1
  <2>2. CASE c \notin over /\ sub[c] = "buffering"
    <3>1. ~(Cardinality(buffer[c]) >= MaxBuffered) /\ c \notin live
      BY <1>3, <2>2 DEF Overflows
    <3> QED BY <1>4, <1>8, <2>2, <3>1 DEF Buffered
  <2>3. CASE c \notin over /\ sub[c] # "buffering"
    <3>1. c \notin failing
      BY <1>3, <1>5, <1>6, <1>8
    <3> QED BY <1>3, <1>4, <1>8, <2>3, <3>1 DEF Buffered, Stays
  <2> QED BY <2>1, <2>2, <2>3
<1> QED BY <1>7, <1>8

\* Publishing keeps the invariant.
LEMMA PublishKeeps == StreamInv /\ Publish => StreamInv'
<1> SUFFICES ASSUME StreamInv, Publish PROVE StreamInv'
  OBVIOUS
<1>1. /\ StreamTypeOK /\ ClientFollows /\ latest \in Nat /\ latest' = latest + 1
      /\ UNCHANGED <<link, phase, asked, page, clientCursor, received, cutOff>>
  BY DEF StreamInv, StreamTypeOK, Publish, handler, client
<1>2. LiveFrame(latest + 1) \in Frame
  BY <1>1 DEF LiveFrame, Frame
<1>3. StreamTypeOK'
  <2>1. ASSUME NEW c \in Conns
        PROVE  /\ conn'[c] \in {"new", "opening", "subscribed", "closed"} /\ open'[c] \in BOOLEAN
               /\ sub'[c] \in {"none", "buffering", "live", "closed", "overflowed"}
               /\ buffer'[c] \in SUBSET Nat /\ Cardinality(buffer'[c]) <= MaxBuffered
               /\ wire'[c] \in Seq(Frame)
    <3>1. /\ conn[c] \in {"new", "opening", "subscribed", "closed"}
          /\ sub[c] \in {"none", "buffering", "live", "closed", "overflowed"}
          /\ buffer[c] \in SUBSET Nat /\ wire[c] \in Seq(Frame)
          /\ Cardinality(buffer[c]) <= MaxBuffered
          /\ buffer[c] \subseteq 1..latest
      BY <1>1 DEF StreamTypeOK, StreamInv, ConnFollows
    <3>2. conn'[c] \in {"new", "opening", "subscribed", "closed"}
      BY <3>1, Published DEF Stays, IsClosed
    <3>3. sub'[c] \in {"none", "buffering", "live", "closed", "overflowed"}
      BY <3>1, Published DEF Stays, IsClosed
    <3>4. buffer'[c] \in SUBSET Nat /\ Cardinality(buffer'[c]) <= MaxBuffered
      <4>1. CASE buffer'[c] = buffer[c]
        BY <3>1, <4>1
      <4>2. CASE buffer'[c] = {}
        BY <4>2, FS_EmptySet, StreamAssumption
      <4>3. CASE /\ buffer'[c] = buffer[c] \cup {latest + 1}
                 /\ ~(Cardinality(buffer[c]) >= MaxBuffered)
        <5>1. IsFiniteSet(1..latest)
          <6>1. latest \in Int /\ 1 \in Int
            BY <1>1
          <6> QED BY <6>1, FS_Interval
        <5>2. IsFiniteSet(buffer[c]) /\ Cardinality(buffer[c]) \in Nat
          BY <3>1, <5>1, FS_Subset, FS_CardinalityType
        <5>3. PICK b, x : b = buffer[c] /\ x = latest + 1
          OBVIOUS
        <5>4. \/ Cardinality(b \cup {x}) = Cardinality(b)
              \/ Cardinality(b \cup {x}) = Cardinality(b) + 1
          BY <5>2, <5>3, FS_AddElement
        <5>5. Cardinality(buffer'[c]) <= MaxBuffered
          BY <4>3, <5>2, <5>3, <5>4, StreamAssumption
        <5> QED BY <1>1, <3>1, <4>3, <5>5
      <4> QED BY <4>1, <4>2, <4>3, Published DEF Stays, IsClosed
    <3>5. wire'[c] \in Seq(Frame)
      BY SMTT(30), <1>2, <3>1, Published
    <3>6. open'[c] \in BOOLEAN
      BY <1>1 DEF Publish, StreamTypeOK
    <3> QED BY <3>2, <3>3, <3>4, <3>5, <3>6
  <2>2. /\ DOMAIN conn' = Conns /\ DOMAIN open' = Conns /\ DOMAIN sub' = Conns
        /\ DOMAIN buffer' = Conns /\ DOMAIN wire' = Conns
        /\ conn' = [c \in Conns |-> conn'[c]] /\ open' = [c \in Conns |-> open'[c]]
        /\ sub' = [c \in Conns |-> sub'[c]] /\ buffer' = [c \in Conns |-> buffer'[c]]
        /\ wire' = [c \in Conns |-> wire'[c]]
    BY DEF Publish
  <2>3. conn' \in [Conns -> {"new", "opening", "subscribed", "closed"}] /\ open' \in [Conns -> BOOLEAN]
    BY <2>1, <2>2
  <2>4. /\ sub' \in [Conns -> {"none", "buffering", "live", "closed", "overflowed"}]
        /\ buffer' \in [Conns -> SUBSET Nat] /\ wire' \in [Conns -> Seq(Frame)]
    BY <2>1, <2>2
  <2> QED BY <1>1, <2>1, <2>3, <2>4 DEF StreamTypeOK
<1>4. ASSUME NEW c \in Conns
      PROVE  ConnFollows(c)'
  <2>1. ConnFollows(c) /\ asked[c] \in Nat
    BY <1>1 DEF StreamInv, StreamTypeOK
  <2>2. buffer[c] \subseteq 1..(latest + 1) /\ asked[c] <= latest + 1 /\ {} \subseteq 1..(latest + 1)
        /\ buffer[c] \cup {latest + 1} \subseteq 1..(latest + 1)
    BY <1>1, <2>1 DEF ConnFollows
  <2>3. phase[c] # "done" => wire'[c] = wire[c]
    BY <2>1, Published DEF ConnFollows
  <2>4. CASE Stays(c) /\ sub[c] # "buffering"
    <3>1. phase[c] = "read" => conn[c] = "closed"
      BY <2>1, <2>4 DEF ConnFollows
    <3>2. ASSUME NEW m \in Nat, PageIs(c, m), conn[c] = "closed"
          PROVE  PageIs(c, m)'
      BY <1>1, <2>4, <3>2 DEF PageIs, Stays
    <3> QED BY <1>1, <2>1, <2>2, <2>3, <2>4, <3>1, <3>2 DEF ConnFollows, Stays
  <2>5. CASE IsClosed(c)
    <3>1. ASSUME NEW m \in Nat, PageIs(c, m)
          PROVE  PageIs(c, m)'
      BY <1>1, <2>5, <3>1 DEF PageIs, IsClosed
    <3> QED BY <1>1, <2>1, <2>2, <2>3, <2>5, <3>1 DEF ConnFollows, IsClosed
  <2>6. CASE /\ conn[c] = "closed" /\ conn'[c] = conn[c] /\ open'[c] = open[c] /\ phase'[c] = phase[c]
             /\ sub[c] = "buffering" /\ sub'[c] = "overflowed" /\ buffer'[c] = {}
    <3>1. ASSUME NEW m \in Nat, PageIs(c, m)
          PROVE  PageIs(c, m)'
      BY <1>1, <2>6, <3>1 DEF PageIs
    <3> QED BY <1>1, <2>1, <2>2, <2>3, <2>6, <3>1 DEF ConnFollows
  <2>7. CASE /\ conn'[c] = conn[c] /\ open'[c] = open[c] /\ phase'[c] = phase[c]
             /\ sub[c] = "buffering" /\ sub'[c] = sub[c]
             /\ buffer'[c] = buffer[c] \cup {latest + 1}
    <3>1. ASSUME NEW m \in Nat, PageIs(c, m)
          PROVE  PageIs(c, m)'
      <4>1. \A r \in (m + 1)..(latest + 1) : r = latest + 1 \/ r \in (m + 1)..latest
        BY <1>1, <3>1
      <4>2. m \in asked[c]..(latest + 1)
        BY <1>1, <2>1, <3>1 DEF PageIs
      <4> QED BY <1>1, <2>7, <3>1, <4>1, <4>2 DEF PageIs
    <3> QED BY <1>1, <2>1, <2>2, <2>3, <2>7, <3>1 DEF ConnFollows
  <2> QED BY <2>4, <2>5, <2>6, <2>7, Published
<1>5. ClientFollows'
  <2>1. /\ clientCursor <= latest + 1 /\ received \subseteq 1..clientCursor
        /\ \A r \in 1..clientCursor : r \in received \cup cutOff
        /\ clientCursor \in Nat
    BY <1>1 DEF ClientFollows, StreamTypeOK
  <2>2. ASSUME link > 0
        PROVE  /\ FollowsOn(wire[link], clientCursor, cutOff)'
               /\ LastCursor(wire[link], clientCursor)' <= latest'
               /\ sub'[link] = "live" => \A r \in 1..latest' :
                    r > LastCursor(wire[link], clientCursor)' => r \in cutOff
    <3>1. link \in Conns
      BY <1>1, <2>2, StreamAssumption DEF StreamTypeOK, Conns
    <3>2. PICK w \in Seq(Frame) : w = wire[link]
      BY <1>1, <3>1 DEF StreamTypeOK
    <3>3. /\ FollowsOn(w, clientCursor, cutOff)
          /\ LastCursor(w, clientCursor) <= latest
          /\ sub[link] = "live" =>
               \A r \in 1..latest : r > LastCursor(w, clientCursor) => r \in cutOff
      BY <1>1, <2>2, <3>2 DEF ClientFollows
    <3>4. LastCursor(w, clientCursor) \in Nat
      <4>1. CASE w = <<>>
        BY <2>1, <4>1 DEF LastCursor
      <4>2. CASE w # <<>>
        <5>1. Len(w) \in DOMAIN w
          BY <4>2, LastPlace
        <5> QED BY <4>2, <5>1, FrameOf DEF LastCursor
      <4> QED BY <4>1, <4>2
    <3>5. CASE wire'[link] = wire[link] /\ sub'[link] # "live"
      <4>1. LastCursor(w, clientCursor) <= latest + 1
        BY <1>1, <3>3, <3>4
      <4> QED BY <1>1, <3>2, <3>3, <3>5, <4>1
    <3>6. CASE wire'[link] = Append(wire[link], LiveFrame(latest + 1)) /\ sub[link] = "live"
      <4>1. PICK f \in Frame : f = LiveFrame(latest + 1)
        BY <1>2
      <4>2. f.cursor = latest + 1 /\ f.records = {latest + 1}
        BY <4>1 DEF LiveFrame
      <4>3. LastCursor(w, clientCursor) <= f.cursor
        BY <1>1, <3>3, <3>4, <4>2
      <4>4. \A r \in f.records : LastCursor(w, clientCursor) < r /\ r <= f.cursor
        BY <1>1, <3>3, <3>4, <4>2
      <4>5. \A r \in Nat : LastCursor(w, clientCursor) < r /\ r <= f.cursor => r \in f.records \cup cutOff
        <5>1. SUFFICES ASSUME NEW r \in Nat, LastCursor(w, clientCursor) < r, r <= latest + 1,
                              r # latest + 1
                       PROVE  r \in cutOff
          BY <4>2
        <5>2. r \in 1..latest
          BY <1>1, <3>4, <5>1
        <5> QED BY <3>3, <3>6, <5>1, <5>2
      <4>6. /\ FollowsOn(Append(w, f), clientCursor, cutOff)
            /\ LastCursor(Append(w, f), clientCursor) = f.cursor
        BY <2>1, <3>3, <4>3, <4>4, <4>5, AppendFollowsOn
      <4>7. PICK v : v = Append(w, f) /\ v = wire'[link]
        BY <3>2, <3>6, <4>1
      <4>8. FollowsOn(v, clientCursor, cutOff) /\ LastCursor(v, clientCursor) = latest + 1
        BY <4>2, <4>6, <4>7
      <4>9. \A r \in 1..(latest + 1) : ~(r > latest + 1)
        BY <1>1
      <4> QED BY <1>1, <4>7, <4>8, <4>9
    <3> QED BY <3>1, <3>5, <3>6, Published
  <2> QED BY <1>1, <2>1, <2>2 DEF ClientFollows
<1> QED BY <1>3, <1>4, <1>5 DEF StreamInv

\* Every step of the streams keeps the invariant.
LEMMA StreamStepInv == StreamInv /\ [StreamNext]_streamVars => StreamInv'
<1> SUFFICES ASSUME StreamInv, [StreamNext]_streamVars PROVE StreamInv'
  OBVIOUS
<1>1. CASE Dial
  BY <1>1, DialKeeps
<1>2. CASE Receive
  BY <1>2, ReceiveKeeps
<1>3. CASE Publish
  BY <1>3, PublishKeeps
<1>4. CASE StreamRestart
  BY <1>4, EndingsKeep
<1>5. ASSUME NEW c \in Conns, Serve(c)
      PROVE  StreamInv'
  BY <1>5, SubscribeKeeps, ReadKeeps, GoLiveKeeps, EndingsKeep DEF Serve
<1>6. CASE UNCHANGED streamVars
  <2>1. UNCHANGED <<latest, link, conn, open, phase, asked, page, sub, buffer, wire,
                    clientCursor, received, cutOff>>
    BY <1>6 DEF streamVars
  <2> QED BY <2>1 DEF StreamInv, StreamTypeOK, ConnFollows, PageIs, ClientFollows
<1> QED BY <1>1, <1>2, <1>3, <1>4, <1>5, <1>6 DEF StreamNext

\* The invariant holds.
LEMMA StreamInvariant == StreamSpec => []StreamInv
BY StreamInitInv, StreamStepInv, PTL DEF StreamSpec

\* The types hold; with them the bound on what the broker buffers for a connection.
THEOREM StreamTypeCorrect == StreamSpec => []StreamTypeOK
<1>1. StreamInv => StreamTypeOK
  BY DEF StreamInv
<1> QED BY <1>1, StreamInvariant, PTL

\* Whatever sockets, sends, reads and the bridge's process do while records are published,
\* for any number of connections and any limits: the client's cursor passes over a record it
\* was not given only behind a full page of the backlog, it is given none twice or out of
\* order, and a subscription lives as long as its connection.
THEOREM StreamIsWhole == StreamSpec => []LiveStreamIsWhole
<1>1. StreamInv => LiveStreamIsWhole
  <2> SUFFICES ASSUME StreamInv PROVE LiveStreamIsWhole
    OBVIOUS
  <2>1. LostOnlyBehindFullPage
    BY DEF StreamInv, ClientFollows, LostOnlyBehindFullPage
  <2>2. LiveWhileSubscribed
    BY DEF StreamInv, ConnFollows, LiveWhileSubscribed
  <2>3. FramesAreNewAndInOrder
    <3>1. SUFFICES ASSUME link > 0, NEW i \in DOMAIN wire[link], NEW r \in wire[link][i].records
                   PROVE  /\ r > clientCursor /\ r \notin received
                          /\ \A j \in DOMAIN wire[link] : i < j =>
                               r <= wire[link][i].cursor /\ \A q \in wire[link][j].records : r < q
      BY DEF FramesAreNewAndInOrder
    <3>2. link \in Conns /\ clientCursor \in Nat
      BY <3>1, StreamAssumption DEF StreamInv, StreamTypeOK, Conns
    <3>3. PICK w \in Seq(Frame) : w = wire[link]
      BY <3>2 DEF StreamInv, StreamTypeOK
    <3>4. FollowsOn(w, clientCursor, cutOff) /\ received \subseteq 1..clientCursor
      BY <3>1, <3>3 DEF StreamInv, ClientFollows
    <3>5. i \in DOMAIN w /\ r \in w[i].records
      BY <3>1, <3>3
    <3>6. w[i].cursor \in Nat /\ r \in Nat
      BY <3>5, FrameOf
    <3>7. clientCursor < r /\ r <= w[i].cursor
      BY <3>4, <3>5 DEF FollowsOn
    <3>8. r \notin received
      BY <3>2, <3>4, <3>6, <3>7
    <3>9. ASSUME NEW j \in DOMAIN w, i < j, NEW q \in w[j].records
          PROVE  r < q
      <4>1. q \in Nat
        BY FrameOf
      <4>2. w[i].cursor < q
        BY <3>4, <3>5, <3>9 DEF FollowsOn
      <4> QED BY <3>6, <3>7, <4>1, <4>2
    <3> QED BY <3>2, <3>3, <3>6, <3>7, <3>8, <3>9
  <2> QED BY <2>1, <2>2, <2>3 DEF LiveStreamIsWhole
<1> QED BY <1>1, StreamInvariant, PTL

-----------------------------------------------------------------------------
(* The HTTP front.                                                         *)

\* The maps of some identifiers.
MapsTo(S) == UNION {[D -> S] : D \in SUBSET Identities}

HttpTables == MapsTo(HttpBucket)

\* Nothing was refilled after the time that the clock shows.
Past(table) == \A id \in DOMAIN table : table[id].at <= httpNow

HttpTyped ==
  /\ httpNow \in 0..MaxHttpNow /\ startedAt \in 0..httpNow
  /\ dirty \in BOOLEAN /\ outrun \in BOOLEAN
  /\ buckets \in HttpTables /\ Past(buckets)
  /\ bucketFile \in HttpTables /\ Past(bucketFile)
  /\ flushes \in Seq(HttpTables) /\ \A i \in DOMAIN flushes : Past(flushes[i])
  /\ reading \in [HttpConns -> Identities \cup {Idle}]
  /\ served \in MapsTo(Nat)

\* The requests of id that were allowed since the start.
InRead(id) == {c \in HttpConns : reading[c] = id}

Got(id) == ServedTo(id) + Cardinality(InRead(id))

\* What was allowed and what is in the bucket exceed what a bucket holds by no more than
\* the tokens it gained since the start, of which the first may have been due already.
RateOf(got, b) ==
  /\ got > 0 => startedAt < b.at + HttpLimit.ticks
  /\ \/ got + b.tokens <= HttpLimit.capacity
     \/ (got + b.tokens - HttpLimit.capacity - 1) * HttpLimit.ticks < b.at - startedAt

RateHolds(id) ==
  IF id \in DOMAIN buckets THEN RateOf(Got(id), buckets[id]) ELSE Got(id) = 0

\* When no change waits for a save, the last save that began has the buckets.
NewestIsKept ==
  ~dirty /\ ~outrun =>
    IF flushes = <<>> THEN bucketFile = buckets ELSE flushes[Len(flushes)] = buckets

HttpInv == HttpTyped /\ (\A id \in Identities : RateHolds(id)) /\ NewestIsKept

\* What the whole division says.
LEMMA Division ==
  ASSUME NEW x \in Int, NEW d \in Nat \ {0}, NEW q, q = x \div d
  PROVE  q \in Int /\ q * d <= x /\ x < q * d + d
OBVIOUS

\* Products with the ticks of a token.
LEMMA Products ==
  ASSUME NEW x \in Int, NEW y \in Int, NEW d \in Nat \ {0}
  PROVE  /\ x * d \in Int /\ y * d \in Int
         /\ (x + y) * d = x * d + y * d /\ (x - y) * d = x * d - y * d
         /\ x <= y => x * d <= y * d
OBVIOUS

\* The limit.
LEMMA LimitOf ==
  /\ HttpLimit.capacity \in Nat \ {0} /\ HttpLimit.ticks \in Nat \ {0}
  /\ HttpLimit.base \in Nat /\ HttpLimit.most \in Nat /\ MaxHttpNow \in Nat
  /\ IsFiniteSet(HttpConns)
BY HttpAssumption DEF HttpAssumption

\* A refill counts the time that has passed once.
LEMMA RefillKeepsRate ==
  ASSUME httpNow \in 0..MaxHttpNow, startedAt \in 0..httpNow, NEW b \in HttpBucket,
         b.at <= httpNow, NEW got \in Nat, RateOf(got, b)
  PROVE  LET full == refill(b, httpNow, HttpLimit)
         IN  /\ full \in HttpBucket /\ full.at <= httpNow
             /\ startedAt < full.at + HttpLimit.ticks
             /\ RateOf(got, full)
  <1>1. PICK cap, ticks : cap = HttpLimit.capacity /\ ticks = HttpLimit.ticks OBVIOUS
  <1>2. cap \in Nat \ {0} /\ ticks \in Nat \ {0} /\ MaxHttpNow \in Nat BY <1>1, LimitOf
  <1>3. PICK added : added = (httpNow - b.at) \div ticks OBVIOUS
  <1>4. b.at \in Nat /\ b.tokens \in 0..cap /\ b.at <= MaxHttpNow BY <1>1, <1>2 DEF HttpBucket
  <1>5. PICK x : x = httpNow - b.at OBVIOUS
  <1>6. x \in Nat BY <1>2, <1>4, <1>5
  <1>7. added \in Int /\ added * ticks <= x /\ x < added * ticks + ticks
    <2>1. added = x \div ticks BY <1>3, <1>5, Zenon
    <2> QED BY <1>2, <1>6, <2>1, Division
  <1>8. PICK gained : gained = added * ticks OBVIOUS
  <1>9. gained \in Int /\ gained <= x /\ x < gained + ticks
    BY <1>2, <1>7, <1>8, Products
  <1>10. PICK full : full = refill(b, httpNow, HttpLimit) OBVIOUS
  <1>a. CASE httpNow <= b.at \/ added <= 0
    <2>1. full = b BY <1>1, <1>3, <1>10, <1>a, Zenon DEF refill
    <2>2. x < ticks
      <3>1. CASE httpNow <= b.at BY <1>2, <1>4, <1>5, <3>1
      <3>2. CASE added <= 0
        <4>1. added * ticks <= 0 * ticks BY <1>2, <1>7, <3>2, Products
        <4>2. 0 * ticks = 0 BY <1>2
        <4> QED BY <1>2, <1>6, <1>8, <1>9, <4>1, <4>2
      <3> QED BY <1>a, <3>1, <3>2
    <2>3. startedAt < b.at + ticks BY <1>2, <1>4, <1>5, <2>2
    <2> QED BY <1>1, <1>10, <2>1, <2>3
  <1>b. CASE ~(httpNow <= b.at \/ added <= 0)
    <2>1. PICK held : held = Least(cap, b.tokens + added) OBVIOUS
    <2>2. full = [b EXCEPT !.tokens = held, !.at = b.at + gained]
      BY <1>1, <1>3, <1>8, <1>10, <1>b, <2>1, Zenon DEF refill
    <2>3. added \in Nat \ {0} BY <1>4, <1>7, <1>b
    <2>4. held \in 0..cap /\ held <= b.tokens + added
      BY <1>2, <1>4, <2>1, <2>3 DEF Least
    <2>5. 1 * ticks <= gained /\ 1 * ticks = ticks BY <1>2, <1>8, <2>3, Products
    <2>6. b.at + gained \in Nat /\ b.at + gained <= httpNow
      BY <1>2, <1>4, <1>5, <1>6, <1>9, <2>5
    <2>7. b.at + gained \in 0..MaxHttpNow BY <1>2, <2>6
    <2>8. full \in HttpBucket /\ full.tokens = held /\ full.at = b.at + gained
      BY <1>1, <2>2, <2>4, <2>7 DEF HttpBucket
    <2>9. startedAt < b.at + gained + ticks BY <1>2, <1>4, <1>5, <1>6, <1>9
    <2>10. RateOf(got, full)
      <3>1. PICK over : over = got + b.tokens - cap - 1 OBVIOUS
      <3>2. over \in Int BY <1>2, <1>4, <3>1
      <3>3. PICK more : more = got + held - cap - 1 OBVIOUS
      <3>4. more \in Int /\ more <= over + added BY <1>2, <1>4, <2>3, <2>4, <3>1, <3>3
      <3>5. more * ticks <= (over + added) * ticks BY <1>2, <2>3, <3>2, <3>4, Products
      <3>6. more * ticks <= over * ticks + gained
        BY <1>2, <1>8, <2>3, <3>2, <3>5, Products
      <3>7. more * ticks \in Int /\ over * ticks \in Int BY <1>2, <3>2, <3>4, Products
      <3>a. /\ (got + full.tokens - HttpLimit.capacity - 1) * HttpLimit.ticks = more * ticks
            /\ full.at - startedAt = b.at + gained - startedAt
            /\ startedAt < full.at + HttpLimit.ticks
        <4>1. got + full.tokens - HttpLimit.capacity - 1 = more BY <1>1, <2>8, <3>3
        <4>2. (got + full.tokens - HttpLimit.capacity - 1) * HttpLimit.ticks = more * ticks
          BY <1>1, <4>1, Zenon
        <4>3. full.at - startedAt = b.at + gained - startedAt BY <1>4, <1>9, <2>6, <2>8
        <4>4. startedAt < full.at + HttpLimit.ticks BY <1>1, <2>8, <2>9
        <4> QED BY <4>2, <4>3, <4>4
      <3>b. (got + b.tokens - HttpLimit.capacity - 1) * HttpLimit.ticks = over * ticks
        BY <1>1, <3>1, Zenon
      <3>8. CASE over * ticks < b.at - startedAt
        <4>1. more * ticks < b.at + gained - startedAt
          BY <1>4, <1>9, <3>6, <3>7, <3>8
        <4> QED BY <3>a, <4>1, Zenon DEF RateOf
      <3>9. CASE got + b.tokens <= cap /\ got > 0
        <4>1. over <= 0 - 1 BY <1>2, <1>4, <3>1, <3>9
        <4>2. over * ticks <= (0 - 1) * ticks BY <1>2, <3>2, <4>1, Products
        <4>3. (0 - 1) * ticks = 0 - ticks BY <1>2
        <4>4. startedAt < b.at + ticks BY <1>1, <3>9 DEF RateOf
        <4>5. more * ticks < b.at + gained - startedAt
          BY <1>2, <1>4, <1>9, <3>6, <3>7, <4>2, <4>3, <4>4
        <4> QED BY <3>a, <4>5, Zenon DEF RateOf
      <3>10. CASE got = 0
        <4>1. got + held <= cap BY <1>2, <2>4, <3>10
        <4> QED BY <1>1, <2>8, <3>10, <4>1 DEF RateOf
      <3>11. got > 0 \/ got = 0 OBVIOUS
      <3> QED BY <1>1, <3>b, <3>8, <3>9, <3>10, <3>11, Zenon DEF RateOf
    <2> QED BY <1>1, <1>10, <2>6, <2>8, <2>9, <2>10
  <1> QED BY <1>a, <1>b

\* The longest back-off is kept to.
LEMMA BackoffOf ==
  ASSUME NEW n
  PROVE  nextBackoff(n, HttpLimit) \in Nat
  <1>1. PICK u : u = HttpLimit.base * 2 ^ (n - 1) OBVIOUS
  <1>2. nextBackoff(n, HttpLimit) = IF u \in 0..HttpLimit.most THEN u ELSE HttpLimit.most
    BY <1>1, Zenon DEF nextBackoff
  <1> QED BY <1>2, LimitOf

\* What the limiter makes of a bucket: an allowed request takes its token.
LEMMA ConsumingKeepsRate ==
  ASSUME httpNow \in 0..MaxHttpNow, startedAt \in 0..httpNow, NEW b \in HttpBucket,
         b.at <= httpNow, NEW got \in Nat, RateOf(got, b)
  PROVE  LET d == tryConsume(b, httpNow, HttpLimit)
         IN  /\ d.bucket \in HttpBucket /\ d.bucket.at <= httpNow
             /\ RateOf(IF d.allowed THEN got + 1 ELSE got, d.bucket)
  <1>1. PICK full : full = refill(b, httpNow, HttpLimit) OBVIOUS
  <1>2. /\ full \in HttpBucket /\ full.at <= httpNow
        /\ startedAt < full.at + HttpLimit.ticks
        /\ RateOf(got, full)
    BY <1>1, RefillKeepsRate, Zenon
  <1>3. PICK d : d = tryConsume(b, httpNow, HttpLimit) OBVIOUS
  <1>4. PICK late \in BOOLEAN : late <=> httpNow < b.cooldown OBVIOUS
  <1>5. PICK enough \in BOOLEAN : enough <=> full.tokens >= 1 OBVIOUS
  <1>6. PICK refusals : refusals = full.refusals + 1 OBVIOUS
  <1>7. PICK pause : pause = nextBackoff(refusals, HttpLimit) OBVIOUS
  <1>8. pause \in Nat BY <1>7, BackoffOf
  <1>9. d = IF late THEN [allowed |-> FALSE, bucket |-> b]
            ELSE IF enough
            THEN [allowed |-> TRUE,
                  bucket |-> [full EXCEPT !.tokens = @ - 1, !.refusals = 0, !.cooldown = 0]]
            ELSE [allowed |-> FALSE,
                  bucket |-> [full EXCEPT !.refusals = refusals, !.cooldown = httpNow + pause]]
    BY <1>1, <1>3, <1>4, <1>5, <1>6, <1>7, Zenon DEF tryConsume
  <1>10. HttpLimit.capacity \in Nat \ {0} /\ HttpLimit.ticks \in Nat \ {0} BY LimitOf
  <1>a. CASE late
    <2>1. d.bucket = b /\ ~d.allowed BY <1>9, <1>a
    <2> QED BY <1>3, <2>1
  <1>b. CASE ~late /\ enough
    <2>1. PICK c : c = [full EXCEPT !.tokens = @ - 1, !.refusals = 0, !.cooldown = 0] OBVIOUS
    <2>2. d.bucket = c /\ d.allowed BY <1>9, <1>b, <2>1
    <2>3. full.tokens - 1 \in 0..HttpLimit.capacity BY <1>2, <1>5, <1>10, <1>b DEF HttpBucket
    <2>4. c \in HttpBucket /\ c.tokens = full.tokens - 1 /\ c.at = full.at
      BY <1>2, <2>1, <2>3 DEF HttpBucket
    <2>5. full.tokens \in Nat BY <1>2, <1>10 DEF HttpBucket
    <2>6. got + 1 + c.tokens = got + full.tokens BY <2>4, <2>5
    <2>7. /\ got + 1 + c.tokens - HttpLimit.capacity - 1 = got + full.tokens - HttpLimit.capacity - 1
          /\ c.at - startedAt = full.at - startedAt
          /\ startedAt < c.at + HttpLimit.ticks
      <3>1. got + 1 + c.tokens - HttpLimit.capacity - 1 = got + full.tokens - HttpLimit.capacity - 1
        BY <1>10, <2>4, <2>5
      <3>2. c.at - startedAt = full.at - startedAt BY <2>4, Zenon
      <3>3. startedAt < c.at + HttpLimit.ticks BY <1>2, <2>4
      <3> QED BY <3>1, <3>2, <3>3
    <2>8. RateOf(got + 1, c)
      <3>1. CASE got + full.tokens <= HttpLimit.capacity
        BY <2>6, <2>7, <3>1, Zenon DEF RateOf
      <3>2. CASE (got + full.tokens - HttpLimit.capacity - 1) * HttpLimit.ticks < full.at - startedAt
        BY <2>7, <3>2, Zenon DEF RateOf
      <3> QED BY <1>2, <3>1, <3>2, Zenon DEF RateOf
    <2> QED BY <1>2, <1>3, <2>2, <2>4, <2>8
  <1>c. CASE ~late /\ ~enough
    <2>1. PICK c : c = [full EXCEPT !.refusals = refusals, !.cooldown = httpNow + pause] OBVIOUS
    <2>2. d.bucket = c /\ ~d.allowed BY <1>9, <1>c, <2>1
    <2>3. refusals \in Nat /\ httpNow + pause \in Nat
      BY <1>2, <1>6, <1>8, LimitOf DEF HttpBucket
    <2>4. c \in HttpBucket /\ c.tokens = full.tokens /\ c.at = full.at
      BY <1>2, <2>1, <2>3 DEF HttpBucket
    <2>5. RateOf(got, c) BY <1>2, <2>4 DEF RateOf
    <2> QED BY <1>2, <1>3, <2>2, <2>4, <2>5
  <1> QED BY <1>a, <1>b, <1>c

\* What a table of buckets holds.
LEMMA TableOf ==
  ASSUME NEW table \in HttpTables
  PROVE  DOMAIN table \subseteq Identities /\ \A id \in DOMAIN table : table[id] \in HttpBucket
BY DEF HttpTables, MapsTo

\* A bucket is set in a table.
LEMMA EnteredIn ==
  ASSUME NEW S, NEW table \in MapsTo(S), NEW id \in Identities, NEW v \in S,
         NEW new, new = Entered(table, id, v)
  PROVE  new \in MapsTo(S)
  <1>1. PICK D \in SUBSET Identities : table \in [D -> S] BY DEF MapsTo
  <1>2. new = [i \in D \cup {id} |-> IF i = id THEN v ELSE table[i]]
    BY <1>1 DEF Entered
  <1>3. new \in [D \cup {id} -> S] BY <1>1, <1>2
  <1>4. D \cup {id} \in SUBSET Identities BY <1>1
  <1> QED BY <1>3, <1>4 DEF MapsTo

\* A connection that is idle reads for nobody.
LEMMA IdleIsNobody == Idle \notin Identities
  <1>1. Idle # Anonymous BY DEF Idle, Anonymous
  <1>2. CASE Auth \in {NoAuth, BadAuth} BY <1>1, <1>2 DEF Identities
  <1>3. CASE Auth \notin {NoAuth, BadAuth}
    <2>1. \A t \in Auth : t.id # Idle BY <1>3, HttpAssumption DEF HttpAssumption
    <2> QED BY <1>1, <1>3, <2>1 DEF Identities
  <1> QED BY <1>2, <1>3

\* What is counted of an identifier's requests.
LEMMA GotIsCounted ==
  ASSUME HttpTyped, NEW id \in Identities
  PROVE  /\ ServedTo(id) \in Nat
         /\ IsFiniteSet(InRead(id)) /\ Cardinality(InRead(id)) \in Nat
         /\ Got(id) \in Nat /\ ServedTo(id) <= Got(id)
  <1>1. ServedTo(id) \in Nat BY DEF HttpTyped, ServedTo, MapsTo
  <1>2. InRead(id) \in SUBSET HttpConns BY DEF InRead
  <1>3. IsFiniteSet(InRead(id)) BY <1>2, LimitOf, FS_Subset
  <1>4. Cardinality(InRead(id)) \in Nat BY <1>3, FS_CardinalityType
  <1> QED BY <1>1, <1>3, <1>4 DEF Got

\* What holds of more requests holds of fewer.
LEMMA FewerKeepRate ==
  ASSUME NEW b \in HttpBucket, NEW got \in Nat, NEW fewer \in 0..got, RateOf(got, b),
         startedAt \in Nat
  PROVE  RateOf(fewer, b)
  <1>1. PICK cap, ticks : cap = HttpLimit.capacity /\ ticks = HttpLimit.ticks OBVIOUS
  <1>2. cap \in Nat /\ ticks \in Nat \ {0} /\ b.tokens \in Nat /\ b.at \in Int
    BY <1>1, LimitOf DEF HttpBucket
  <1>3. fewer > 0 => startedAt < b.at + ticks BY <1>1 DEF RateOf
  <1>4. PICK less : less = fewer + b.tokens - cap - 1 OBVIOUS
  <1>5. PICK over : over = got + b.tokens - cap - 1 OBVIOUS
  <1>6. over \in Int /\ less \in Int /\ less <= over BY <1>2, <1>4, <1>5
  <1>7. less * ticks <= over * ticks /\ less * ticks \in Int /\ over * ticks \in Int
    BY <1>2, <1>6, Products
  <1>a. CASE got + b.tokens <= cap
    <2>1. fewer + b.tokens <= cap BY <1>2, <1>a
    <2> QED BY <1>1, <1>3, <2>1, Zenon DEF RateOf
  <1>b. CASE over * ticks < b.at - startedAt
    <2>1. less * ticks < b.at - startedAt BY <1>2, <1>7, <1>b
    <2>2. (fewer + b.tokens - HttpLimit.capacity - 1) * HttpLimit.ticks = less * ticks
      BY <1>1, <1>4, Zenon
    <2> QED BY <1>1, <1>3, <2>1, <2>2, Zenon DEF RateOf
  <1>8. (got + b.tokens - HttpLimit.capacity - 1) * HttpLimit.ticks = over * ticks
    BY <1>1, <1>5, Zenon
  <1> QED BY <1>1, <1>8, <1>a, <1>b, Zenon DEF RateOf

\* What consume changes, for the identifier of a request and for the others.
LEMMA ConsumeChanges ==
  ASSUME HttpInv, NEW id \in Identities, Consume(id)
  PROVE  /\ buckets' \in HttpTables /\ Past(buckets)'
         /\ DOMAIN buckets' = DOMAIN buckets \cup {id}
         /\ \A i \in DOMAIN buckets : i # id => buckets'[i] = buckets[i]
         /\ RateOf(IF Decision(id).allowed THEN Got(id) + 1 ELSE Got(id), buckets'[id])
  <1>1. /\ httpNow \in 0..MaxHttpNow /\ startedAt \in 0..httpNow /\ httpNow' = httpNow
        /\ buckets \in HttpTables /\ Past(buckets)
    BY DEF HttpInv, HttpTyped, Consume
  <1>2. PICK b : b = IF id \in DOMAIN buckets THEN buckets[id]
                     ELSE createRateLimitBucket(httpNow, HttpLimit)
    OBVIOUS
  <1>3. Got(id) \in Nat BY GotIsCounted DEF HttpInv
  <1>4. b \in HttpBucket /\ b.at <= httpNow /\ RateOf(Got(id), b)
    <2>1. CASE id \in DOMAIN buckets
      <3>1. buckets[id] \in HttpBucket BY <1>1, <2>1, TableOf
      <3> QED BY <1>1, <1>2, <2>1, <3>1 DEF Past, HttpInv, RateHolds
    <2>2. CASE id \notin DOMAIN buckets
      <3>1. b = [tokens |-> HttpLimit.capacity, at |-> httpNow, refusals |-> 0, cooldown |-> 0]
        BY <1>2, <2>2 DEF createRateLimitBucket
      <3>2. HttpLimit.capacity \in Nat /\ MaxHttpNow \in Nat BY LimitOf
      <3>3. b \in HttpBucket /\ b.at = httpNow /\ b.tokens = HttpLimit.capacity
        BY <1>1, <3>1, <3>2 DEF HttpBucket
      <3>4. Got(id) = 0 BY <2>2 DEF HttpInv, RateHolds
      <3>5. 0 + b.tokens <= HttpLimit.capacity BY <3>2, <3>3
      <3>6. RateOf(Got(id), b) BY <3>4, <3>5 DEF RateOf
      <3> QED BY <1>1, <3>2, <3>3, <3>6
    <2> QED BY <2>1, <2>2
  <1>5. PICK d : d = tryConsume(b, httpNow, HttpLimit) OBVIOUS
  <1>6. /\ d.bucket \in HttpBucket /\ d.bucket.at <= httpNow
        /\ RateOf(IF d.allowed THEN Got(id) + 1 ELSE Got(id), d.bucket)
    BY <1>1, <1>3, <1>4, <1>5, ConsumingKeepsRate, Zenon
  <1>7. Decision(id) = d BY <1>2, <1>5, Zenon DEF Decision
  <1>8. buckets' = Entered(buckets, id, d.bucket) BY <1>7, Zenon DEF Consume
  <1>9. /\ buckets' \in HttpTables
        /\ DOMAIN buckets' = DOMAIN buckets \cup {id}
        /\ \A i \in DOMAIN buckets' : buckets'[i] = IF i = id THEN d.bucket ELSE buckets[i]
    <2>1. PICK new : new = Entered(buckets, id, d.bucket) OBVIOUS
    <2>2. PICK entry \in HttpBucket : entry = d.bucket BY <1>6
    <2>3. buckets \in MapsTo(HttpBucket) BY <1>1 DEF HttpTables
    <2>4. new = Entered(buckets, id, entry) BY <2>1, <2>2, Zenon
    <2>5. /\ new \in MapsTo(HttpBucket)
          /\ DOMAIN new = DOMAIN buckets \cup {id}
          /\ \A i \in DOMAIN new : new[i] = IF i = id THEN entry ELSE buckets[i]
      <3>1. new \in MapsTo(HttpBucket) BY <2>2, <2>3, <2>4, EnteredIn, Zenon
      <3> QED BY <2>4, <3>1 DEF Entered
    <2> QED BY <1>8, <2>1, <2>2, <2>5 DEF HttpTables
  <1>10. Past(buckets)' BY <1>1, <1>6, <1>9 DEF Past
  <1>11. buckets'[id] = d.bucket BY <1>9
  <1>12. RateOf(IF Decision(id).allowed THEN Got(id) + 1 ELSE Got(id), buckets'[id])
    BY <1>6, <1>7, <1>11, Zenon
  <1> QED BY <1>9, <1>10, <1>12

\* A request that the limiter refuses is not counted.
LEMMA LimitRequestKeeps ==
  ASSUME HttpInv, NEW c \in HttpConns, NEW id \in Identities, LimitRequest(c, id)
  PROVE  HttpInv'
  <1>1. Consume(id) /\ ~Decision(id).allowed /\ reading' = reading /\ served' = served
    BY DEF LimitRequest
  <1>2. /\ bucketFile' = bucketFile /\ flushes' = flushes /\ httpNow' = httpNow
        /\ startedAt' = startedAt /\ outrun' = outrun /\ dirty' = TRUE
    BY <1>1 DEF Consume
  <1>3. /\ buckets' \in HttpTables /\ Past(buckets)'
        /\ DOMAIN buckets' = DOMAIN buckets \cup {id}
        /\ \A i \in DOMAIN buckets : i # id => buckets'[i] = buckets[i]
        /\ RateOf(Got(id), buckets'[id])
    BY <1>1, ConsumeChanges
  <1>4. HttpTyped' BY <1>1, <1>2, <1>3 DEF HttpInv, HttpTyped, Past
  <1>5. \A i \in Identities : Got(i)' = Got(i) BY <1>1 DEF Got, ServedTo, InRead
  <1>6. ASSUME NEW i \in Identities PROVE RateHolds(i)'
    <2>1. RateHolds(i) /\ Got(i)' = Got(i) BY <1>5 DEF HttpInv
    <2>2. CASE i = id BY <1>2, <1>3, <2>1, <2>2 DEF RateHolds, RateOf
    <2>3. CASE i # id BY <1>2, <1>3, <2>1, <2>3 DEF RateHolds, RateOf
    <2> QED BY <2>2, <2>3
  <1>7. NewestIsKept' BY <1>2 DEF NewestIsKept
  <1> QED BY <1>4, <1>6, <1>7 DEF HttpInv

\* One that it allows is counted where its body is read.
LEMMA BeginRequestKeeps ==
  ASSUME HttpInv, NEW c \in HttpConns, reading[c] = Idle, NEW id \in Identities,
         BeginRequest(c, id)
  PROVE  HttpInv'
  <1>1. /\ Consume(id) /\ Decision(id).allowed /\ reading' = [reading EXCEPT ![c] = id]
        /\ served' = served
    BY DEF BeginRequest
  <1>2. /\ bucketFile' = bucketFile /\ flushes' = flushes /\ httpNow' = httpNow
        /\ startedAt' = startedAt /\ outrun' = outrun /\ dirty' = TRUE
    BY <1>1 DEF Consume
  <1>3. /\ buckets' \in HttpTables /\ Past(buckets)'
        /\ DOMAIN buckets' = DOMAIN buckets \cup {id}
        /\ \A i \in DOMAIN buckets : i # id => buckets'[i] = buckets[i]
        /\ RateOf(Got(id) + 1, buckets'[id])
    BY <1>1, ConsumeChanges
  <1>4. reading \in [HttpConns -> Identities \cup {Idle}] BY DEF HttpInv, HttpTyped
  <1>5. reading' \in [HttpConns -> Identities \cup {Idle}] BY <1>1, <1>4
  <1>6. HttpTyped' BY <1>1, <1>2, <1>3, <1>5 DEF HttpInv, HttpTyped, Past
  <1>7. \A x \in HttpConns : reading'[x] = IF x = c THEN id ELSE reading[x] BY <1>1, <1>4
  <1>8. Idle \notin Identities BY IdleIsNobody
  <1>9. \A i \in Identities : ServedTo(i)' = ServedTo(i) BY <1>1 DEF ServedTo
  <1>10. Got(id)' = Got(id) + 1
    <2>1. InRead(id)' = InRead(id) \cup {c} /\ c \notin InRead(id)
      BY <1>7, <1>8 DEF InRead
    <2>2. IsFiniteSet(InRead(id)) BY GotIsCounted DEF HttpInv
    <2>3. Cardinality(InRead(id)') = Cardinality(InRead(id)) + 1 BY <2>1, <2>2, FS_AddElement
    <2>4. Cardinality(InRead(id)) \in Nat /\ ServedTo(id) \in Nat BY GotIsCounted DEF HttpInv
    <2>5. Got(id) = ServedTo(id) + Cardinality(InRead(id)) BY DEF Got
    <2>6. Got(id)' = ServedTo(id) + Cardinality(InRead(id)') BY <1>9 DEF Got
    <2> QED BY <2>3, <2>4, <2>5, <2>6
  <1>11. ASSUME NEW i \in Identities, i # id PROVE Got(i)' = Got(i)
    <2>1. InRead(i)' = InRead(i) BY <1>7, <1>8, <1>11 DEF InRead
    <2> QED BY <1>9, <2>1 DEF Got
  <1>12. ASSUME NEW i \in Identities PROVE RateHolds(i)'
    <2>1. RateHolds(i) BY DEF HttpInv
    <2>2. CASE i = id BY <1>2, <1>3, <1>10, <2>2 DEF RateHolds, RateOf
    <2>3. CASE i # id BY <1>2, <1>3, <1>11, <2>1, <2>3 DEF RateHolds, RateOf
    <2> QED BY <2>2, <2>3
  <1>13. NewestIsKept' BY <1>2 DEF NewestIsKept
  <1> QED BY <1>6, <1>12, <1>13 DEF HttpInv

\* A body that is read moves its request to those that are served, or it is none.
LEMMA ReadBodyKeeps ==
  ASSUME HttpInv, NEW c \in HttpConns, NEW body, ReadBody(c, body)
  PROVE  HttpInv'
  <1>1. /\ buckets' = buckets /\ dirty' = dirty /\ bucketFile' = bucketFile
        /\ flushes' = flushes /\ httpNow' = httpNow /\ startedAt' = startedAt
        /\ outrun' = outrun /\ reading' = [reading EXCEPT ![c] = Idle] /\ reading[c] # Idle
    BY DEF ReadBody
  <1>2. PICK id : id = reading[c] OBVIOUS
  <1>3. reading \in [HttpConns -> Identities \cup {Idle}] BY DEF HttpInv, HttpTyped
  <1>4. id \in Identities BY <1>1, <1>2, <1>3
  <1>5. \A x \in HttpConns : reading'[x] = IF x = c THEN Idle ELSE reading[x] BY <1>1, <1>3
  <1>6. PICK more : more = ServedTo(id) + 1 OBVIOUS
  <1>7. ServedTo(id) \in Nat /\ more \in Nat BY <1>4, <1>6, GotIsCounted DEF HttpInv
  <1>8. served' = served \/ served' = Entered(served, id, more)
    BY <1>2, <1>6, Zenon DEF ReadBody
  <1>9. /\ served' \in MapsTo(Nat)
        /\ ServedTo(id)' \in {ServedTo(id), more}
        /\ \A i \in Identities : i # id => ServedTo(i)' = ServedTo(i)
    <2>1. served \in MapsTo(Nat) BY DEF HttpInv, HttpTyped
    <2>2. CASE served' = served BY <2>1, <2>2 DEF ServedTo
    <2>3. CASE served' = Entered(served, id, more)
      <3>1. /\ served' \in MapsTo(Nat)
            /\ DOMAIN served' = DOMAIN served \cup {id}
            /\ \A i \in DOMAIN served' : served'[i] = IF i = id THEN more ELSE served[i]
        <4>1. PICK new : new = Entered(served, id, more) OBVIOUS
        <4>2. /\ new \in MapsTo(Nat)
              /\ DOMAIN new = DOMAIN served \cup {id}
              /\ \A i \in DOMAIN new : new[i] = IF i = id THEN more ELSE served[i]
          <5>1. new \in MapsTo(Nat) BY <1>4, <1>7, <2>1, <4>1, EnteredIn, Zenon
          <5> QED BY <4>1, <5>1 DEF Entered
        <4> QED BY <2>3, <4>1, <4>2
      <3> QED BY <3>1 DEF ServedTo
    <2> QED BY <1>8, <2>2, <2>3
  <1>10. HttpTyped'
    <2>1. reading' \in [HttpConns -> Identities \cup {Idle}] BY <1>1, <1>3
    <2> QED BY <1>1, <1>9, <2>1 DEF HttpInv, HttpTyped, Past
  <1>11. Idle \notin Identities BY IdleIsNobody
  <1>12. Got(id)' \in 0..Got(id)
    <2>1. InRead(id)' = InRead(id) \ {c} /\ c \in InRead(id)
      BY <1>1, <1>2, <1>4, <1>5, <1>11 DEF InRead
    <2>2. IsFiniteSet(InRead(id)) /\ Cardinality(InRead(id)) \in Nat
      BY <1>4, GotIsCounted DEF HttpInv
    <2>3. Cardinality(InRead(id)') = Cardinality(InRead(id)) - 1
      BY <2>1, <2>2, FS_RemoveElement
    <2>4. Cardinality(InRead(id)') \in Nat
      <3>1. IsFiniteSet(InRead(id)') BY <2>1, <2>2, FS_RemoveElement
      <3> QED BY <3>1, FS_CardinalityType
    <2>5. Got(id) = ServedTo(id) + Cardinality(InRead(id)) BY DEF Got
    <2>6. Got(id)' = ServedTo(id)' + Cardinality(InRead(id)') BY DEF Got
    <2>7. ServedTo(id)' = ServedTo(id) \/ ServedTo(id)' = ServedTo(id) + 1 BY <1>6, <1>9
    <2> QED BY <1>7, <2>2, <2>3, <2>4, <2>5, <2>6, <2>7
  <1>13. ASSUME NEW i \in Identities, i # id PROVE Got(i)' = Got(i)
    <2>1. InRead(i)' = InRead(i) BY <1>2, <1>5, <1>11, <1>13 DEF InRead
    <2> QED BY <1>9, <1>13, <2>1 DEF Got
  <1>14. ASSUME NEW i \in Identities PROVE RateHolds(i)'
    <2>1. RateHolds(i) /\ Got(i) \in Nat BY GotIsCounted DEF HttpInv
    <2>2. Got(i)' \in 0..Got(i) BY <1>12, <1>13, <2>1
    <2>3. startedAt \in Nat BY DEF HttpInv, HttpTyped
    <2>4. CASE i \in DOMAIN buckets
      <3>1. buckets[i] \in HttpBucket BY <2>4, TableOf DEF HttpInv, HttpTyped
      <3>2. RateOf(Got(i)', buckets[i]) BY <2>1, <2>2, <2>3, <2>4, <3>1, FewerKeepRate DEF RateHolds
      <3> QED BY <1>1, <2>4, <3>2 DEF RateHolds, RateOf
    <2>5. CASE i \notin DOMAIN buckets BY <1>1, <2>1, <2>2, <2>5 DEF RateHolds
    <2> QED BY <2>4, <2>5
  <1>15. NewestIsKept' BY <1>1 DEF HttpInv, NewestIsKept
  <1> QED BY <1>10, <1>14, <1>15 DEF HttpInv

\* The last element of a sequence from which another one is taken stays the last.
LEMMA LastStays ==
  ASSUME NEW S, NEW s \in Seq(S), NEW t, 1 \in DOMAIN s, t = RemoveAt(s, 1)
  PROVE  /\ t = <<>> => Len(s) = 1
         /\ t # <<>> => t[Len(t)] = s[Len(s)]
  <1>1. Len(s) \in Nat \ {0} /\ DOMAIN s = 1..Len(s) OBVIOUS
  <1>2. PICK front : front = SubSeq(s, 1, 1 - 1) OBVIOUS
  <1>3. PICK back : back = SubSeq(s, 1 + 1, Len(s)) OBVIOUS
  <1>4. front = <<>> /\ front \in Seq(S) BY <1>1, <1>2
  <1>5. /\ back \in Seq(S) /\ Len(back) = Len(s) - 1
        /\ \A j \in 1..(Len(s) - 1) : back[j] = s[1 + j]
    BY <1>1, <1>3
  <1>6. t = front \o back BY <1>2, <1>3 DEF RemoveAt
  <1>7. t = back BY <1>4, <1>5, <1>6
  <1>8. CASE t = <<>>
    <2>1. Len(back) = 0 BY <1>7, <1>8
    <2>2. Len(s) = 1
      <3>1. PICK n : n = Len(s) OBVIOUS
      <3>2. n \in Nat BY <1>1, <3>1
      <3>3. n - 1 = 0 BY <1>5, <2>1, <3>1, Zenon
      <3>4. n = 1 BY <3>2, <3>3
      <3> QED BY <3>1, <3>4, Zenon
    <2> QED BY <1>8, <2>2, Zenon
  <1>9. CASE t # <<>>
    <2>1. Len(back) # 0 BY <1>5, <1>7, <1>9
    <2>2. PICK n : n = Len(s) - 1 OBVIOUS
    <2>3. n \in 1..(Len(s) - 1) /\ 1 + n = Len(s) BY <1>1, <1>5, <2>1, <2>2
    <2>4. back[n] = s[1 + n] BY <1>5, <2>3
    <2>5. t[Len(t)] = s[Len(s)] BY <1>5, <1>7, <2>2, <2>3, <2>4, Zenon
    <2> QED BY <1>9, <2>5, Zenon
  <1> QED BY <1>8, <1>9

\* The saves but one.
LEMMA SavesWithout ==
  ASSUME HttpTyped, NEW i \in DOMAIN flushes, flushes' = RemoveAt(flushes, i),
         httpNow' = httpNow
  PROVE  flushes' \in Seq(HttpTables) /\ \A j \in DOMAIN flushes' : Past(flushes[j])'
  <1>1. flushes \in Seq(HttpTables) /\ \A j \in DOMAIN flushes : Past(flushes[j])
    BY DEF HttpTyped
  <1>2. flushes' \in Seq(HttpTables) BY <1>1, WithoutOne
  <1>3. \A j \in DOMAIN flushes' : \E k \in DOMAIN flushes : flushes'[j] = flushes[k]
    BY <1>1, WithoutOne
  <1> QED BY <1>1, <1>2, <1>3 DEF Past

\* A save that begins has the buckets, and it is the last.
LEMMA BeginFlushKeeps ==
  ASSUME HttpInv, BeginFlush
  PROVE  HttpInv'
  <1>1. /\ flushes' = Append(flushes, buckets) /\ dirty' = FALSE
        /\ buckets' = buckets /\ bucketFile' = bucketFile /\ reading' = reading
        /\ httpNow' = httpNow /\ startedAt' = startedAt /\ served' = served
        /\ outrun' = outrun
    BY DEF BeginFlush
  <1>2. /\ flushes \in Seq(HttpTables) /\ buckets \in HttpTables /\ Past(buckets)
        /\ \A i \in DOMAIN flushes : Past(flushes[i])
    BY DEF HttpInv, HttpTyped
  <1>3. /\ flushes' \in Seq(HttpTables) /\ Len(flushes') = Len(flushes) + 1
        /\ flushes'[Len(flushes) + 1] = buckets /\ Len(flushes) \in Nat
        /\ DOMAIN flushes' = 1..(Len(flushes) + 1) /\ flushes' # <<>>
        /\ \A i \in DOMAIN flushes : flushes'[i] = flushes[i]
    BY <1>1, <1>2
  <1>4. \A i \in DOMAIN flushes' : i \in DOMAIN flushes \/ i = Len(flushes) + 1
    BY <1>2, <1>3
  <1>5. \A i \in DOMAIN flushes' : Past(flushes'[i]) BY <1>2, <1>3, <1>4
  <1>6. HttpTyped' BY <1>1, <1>3, <1>5 DEF HttpInv, HttpTyped, Past
  <1>7. ASSUME NEW i \in Identities PROVE RateHolds(i)'
    BY <1>1 DEF HttpInv, RateHolds, RateOf, Got, ServedTo, InRead
  <1>8. NewestIsKept' BY <1>1, <1>3 DEF NewestIsKept
  <1> QED BY <1>6, <1>7, <1>8 DEF HttpInv

\* The last save that began stays the last when an earlier one lands, and is in the file
\* when it lands itself.
LEMMA FlushLandsKeeps ==
  ASSUME HttpInv, NEW i \in DOMAIN flushes, FlushLands(i)
  PROVE  HttpInv'
  <1>1. /\ bucketFile' = flushes[i] /\ flushes' = RemoveAt(flushes, i) /\ dirty' = dirty
        /\ outrun' = (outrun \/ i > 1)
        /\ buckets' = buckets /\ reading' = reading /\ httpNow' = httpNow
        /\ startedAt' = startedAt /\ served' = served
    BY DEF FlushLands, DirtyAfterFlush
  <1>2. flushes \in Seq(HttpTables) /\ Past(flushes[i]) BY DEF HttpInv, HttpTyped
  <1>3. flushes[i] \in HttpTables /\ i \in Nat \ {0} BY <1>2, PlaceOf
  <1>4. flushes' \in Seq(HttpTables) /\ \A j \in DOMAIN flushes' : Past(flushes[j])'
    BY <1>1, SavesWithout DEF HttpInv
  <1>5. outrun' \in BOOLEAN BY <1>1 DEF HttpInv, HttpTyped
  <1>6. HttpTyped' BY <1>1, <1>2, <1>3, <1>4, <1>5 DEF HttpInv, HttpTyped, Past
  <1>7. ASSUME NEW j \in Identities PROVE RateHolds(j)'
    BY <1>1 DEF HttpInv, RateHolds, RateOf, Got, ServedTo, InRead
  <1>8. NewestIsKept'
    <2> SUFFICES ASSUME ~dirty', ~outrun'
                 PROVE  IF flushes' = <<>> THEN bucketFile' = buckets'
                        ELSE flushes'[Len(flushes')] = buckets'
      BY DEF NewestIsKept
    <2>1. ~dirty /\ ~outrun /\ ~(i > 1) BY <1>1
    <2>2. i = 1 BY <1>3, <2>1
    <2>3. flushes # <<>> BY <1>2
    <2>4. flushes[Len(flushes)] = buckets BY <2>1, <2>3 DEF HttpInv, NewestIsKept
    <2>5. /\ flushes' = <<>> => Len(flushes) = 1
          /\ flushes' # <<>> => flushes'[Len(flushes')] = flushes[Len(flushes)]
      BY <1>1, <1>2, <2>2, LastStays
    <2> QED BY <1>1, <2>2, <2>4, <2>5
  <1> QED BY <1>6, <1>7, <1>8 DEF HttpInv

\* After a save that fails another one is due.
LEMMA FlushFailsKeeps ==
  ASSUME HttpInv, NEW i \in DOMAIN flushes, FlushFails(i)
  PROVE  HttpInv'
  <1>1. /\ flushes' = RemoveAt(flushes, i) /\ dirty' = TRUE /\ bucketFile' = bucketFile
        /\ buckets' = buckets /\ reading' = reading /\ httpNow' = httpNow
        /\ startedAt' = startedAt /\ served' = served /\ outrun' = outrun
    BY DEF FlushFails
  <1>2. flushes' \in Seq(HttpTables) /\ \A j \in DOMAIN flushes' : Past(flushes[j])'
    BY <1>1, SavesWithout DEF HttpInv
  <1>3. HttpTyped' BY <1>1, <1>2 DEF HttpInv, HttpTyped, Past
  <1>4. ASSUME NEW j \in Identities PROVE RateHolds(j)'
    BY <1>1 DEF HttpInv, RateHolds, RateOf, Got, ServedTo, InRead
  <1>5. NewestIsKept' BY <1>1 DEF NewestIsKept
  <1> QED BY <1>3, <1>4, <1>5 DEF HttpInv

\* The empty map and the empty sequence.
LEMMA Empties == <<>> \in Seq(HttpTables) /\ DOMAIN <<>> = {} /\ \A S : <<>> \in MapsTo(S)
  <1>1. <<>> \in Seq(HttpTables) /\ DOMAIN <<>> = {} OBVIOUS
  <1>2. ASSUME NEW S PROVE <<>> \in MapsTo(S)
    <2>1. <<>> \in Seq(S) OBVIOUS
    <2>2. <<>> \in [1..Len(<<>>) -> S] BY <2>1
    <2>3. <<>> \in [{} -> S] BY <2>2
    <2> QED BY <2>3 DEF MapsTo
  <1> QED BY <1>1, <1>2

\* Of a process that starts nothing was allowed yet.
LEMMA NothingGot ==
  ASSUME served = <<>>, NEW id \in Identities, \A c \in HttpConns : reading[c] = Idle
  PROVE  Got(id) = 0
  <1>1. ServedTo(id) = 0 BY DEF ServedTo
  <1>2. InRead(id) = {} BY IdleIsNobody DEF InRead
  <1>3. Cardinality(InRead(id)) = 0 BY <1>2, FS_EmptySet
  <1> QED BY <1>1, <1>3 DEF Got

\* The process starts with the file's buckets, which are full at most.
LEMMA HttpRestartKeeps ==
  ASSUME HttpInv, HttpRestart
  PROVE  HttpInv'
  <1>1. /\ buckets' = bucketFile /\ dirty' = FALSE /\ flushes' = <<>>
        /\ reading' = [c \in HttpConns |-> Idle] /\ startedAt' = httpNow /\ served' = <<>>
        /\ bucketFile' = bucketFile /\ httpNow' = httpNow /\ outrun' = outrun
    BY DEF HttpRestart
  <1>2. bucketFile \in HttpTables /\ Past(bucketFile) /\ httpNow \in 0..MaxHttpNow
    BY DEF HttpInv, HttpTyped
  <1>3. HttpTyped'
    <2>1. flushes' \in Seq(HttpTables) /\ DOMAIN flushes' = {} BY <1>1, Empties
    <2>2. served' \in MapsTo(Nat) BY <1>1, Empties
    <2>3. reading' \in [HttpConns -> Identities \cup {Idle}] BY <1>1
    <2>4. httpNow \in 0..httpNow BY <1>2, LimitOf
    <2> QED BY <1>1, <1>2, <2>1, <2>2, <2>3, <2>4 DEF HttpInv, HttpTyped, Past
  <1>4. ASSUME NEW i \in Identities PROVE RateHolds(i)'
    <2>1. Got(i)' = 0
      <3>1. ServedTo(i)' = 0 BY <1>1 DEF ServedTo
      <3>2. InRead(i)' = {} BY <1>1, IdleIsNobody DEF InRead
      <3>3. Cardinality(InRead(i)') = 0 BY <3>2, FS_EmptySet
      <3> QED BY <3>1, <3>3 DEF Got
    <2>2. CASE i \in DOMAIN bucketFile
      <3>1. bucketFile[i] \in HttpBucket BY <1>2, <2>2, TableOf
      <3>2. 0 + bucketFile[i].tokens <= HttpLimit.capacity BY <3>1, LimitOf DEF HttpBucket
      <3> QED BY <1>1, <2>1, <2>2, <3>2 DEF RateHolds, RateOf
    <2>3. CASE i \notin DOMAIN bucketFile BY <1>1, <2>1, <2>3 DEF RateHolds
    <2> QED BY <2>2, <2>3
  <1>5. NewestIsKept' BY <1>1 DEF NewestIsKept
  <1> QED BY <1>3, <1>4, <1>5 DEF HttpInv

\* Time alone gives nobody a token.
LEMMA HttpTickKeeps ==
  ASSUME HttpInv, HttpTick
  PROVE  HttpInv'
  <1>1. /\ httpNow < MaxHttpNow /\ httpNow' = httpNow + 1
        /\ buckets' = buckets /\ dirty' = dirty /\ bucketFile' = bucketFile
        /\ flushes' = flushes /\ reading' = reading /\ startedAt' = startedAt
        /\ served' = served /\ outrun' = outrun
    BY DEF HttpTick
  <1>2. httpNow \in 0..MaxHttpNow /\ startedAt \in 0..httpNow /\ MaxHttpNow \in Nat
    BY LimitOf DEF HttpInv, HttpTyped
  <1>3. httpNow' \in 0..MaxHttpNow /\ startedAt' \in 0..httpNow' BY <1>1, <1>2
  <1>4. ASSUME NEW table \in HttpTables, Past(table)
        PROVE  \A id \in DOMAIN table : table[id].at <= httpNow'
    <2>1. ASSUME NEW id \in DOMAIN table PROVE table[id].at <= httpNow + 1
      <3>1. table[id] \in HttpBucket /\ table[id].at <= httpNow BY <1>4, TableOf DEF Past
      <3>2. table[id].at \in Int BY <3>1, LimitOf DEF HttpBucket
      <3> QED BY <1>2, <3>1, <3>2
    <2> QED BY <1>1, <2>1
  <1>5. HttpTyped'
    <2>1. Past(buckets)' /\ Past(bucketFile)' BY <1>1, <1>4 DEF HttpInv, HttpTyped, Past
    <2>2. \A i \in DOMAIN flushes : flushes[i] \in HttpTables /\ Past(flushes[i])
      BY PlaceOf DEF HttpInv, HttpTyped
    <2>3. \A i \in DOMAIN flushes' : Past(flushes[i])' BY <1>1, <1>4, <2>2 DEF Past
    <2> QED BY <1>1, <1>3, <2>1, <2>3 DEF HttpInv, HttpTyped
  <1>6. ASSUME NEW i \in Identities PROVE RateHolds(i)'
    BY <1>1 DEF HttpInv, RateHolds, RateOf, Got, ServedTo, InRead
  <1>7. NewestIsKept' BY <1>1 DEF HttpInv, NewestIsKept
  <1> QED BY <1>5, <1>6, <1>7 DEF HttpInv

\* At first there are no buckets, in the file or out of it.
LEMMA HttpInitWell == HttpInit => HttpInv
  <1> SUFFICES ASSUME HttpInit PROVE HttpInv OBVIOUS
  <1>1. /\ buckets = <<>> /\ dirty = FALSE /\ bucketFile = <<>> /\ flushes = <<>>
        /\ reading = [c \in HttpConns |-> Idle] /\ httpNow = 0 /\ startedAt = 0
        /\ served = <<>> /\ outrun = FALSE
    BY DEF HttpInit, NoBuckets
  <1>2. /\ buckets \in HttpTables /\ bucketFile \in HttpTables /\ served \in MapsTo(Nat)
        /\ flushes \in Seq(HttpTables) /\ DOMAIN flushes = {} /\ DOMAIN buckets = {}
    BY <1>1, Empties DEF HttpTables
  <1>3. reading \in [HttpConns -> Identities \cup {Idle}] BY <1>1
  <1>4. HttpTyped
    <2>1. httpNow \in 0..MaxHttpNow /\ startedAt \in 0..httpNow BY <1>1, LimitOf
    <2>2. Past(buckets) /\ Past(bucketFile) BY <1>1, <1>2 DEF Past
    <2>3. \A i \in DOMAIN flushes : Past(flushes[i]) BY <1>2
    <2>4. dirty \in BOOLEAN /\ outrun \in BOOLEAN BY <1>1
    <2> QED BY <1>2, <1>3, <2>1, <2>2, <2>3, <2>4 DEF HttpTyped
  <1>5. \A i \in Identities : RateHolds(i) BY <1>1, <1>2, NothingGot DEF RateHolds
  <1>6. NewestIsKept BY <1>1 DEF NewestIsKept
  <1> QED BY <1>4, <1>5, <1>6 DEF HttpInv

\* Every step of the front.
LEMMA HttpNextKeeps == HttpInv /\ [HttpNext]_httpVars => HttpInv'
  <1> SUFFICES ASSUME HttpInv, [HttpNext]_httpVars PROVE HttpInv' OBVIOUS
  <1>1. ASSUME NEW c \in HttpConns, NEW value, ReceiveRequest(c, value) PROVE HttpInv'
    <2>1. reading[c] = Idle BY <1>1 DEF ReceiveRequest
    <2>2. PICK id \in Identities : LimitRequest(c, id) \/ BeginRequest(c, id)
      BY <1>1 DEF ReceiveRequest
    <2> QED BY <2>1, <2>2, LimitRequestKeeps, BeginRequestKeeps
  <1>2. ASSUME NEW c \in HttpConns, NEW body, ReadBody(c, body) PROVE HttpInv'
    BY <1>2, ReadBodyKeeps
  <1>3. CASE BeginFlush BY <1>3, BeginFlushKeeps
  <1>4. ASSUME NEW i \in DOMAIN flushes, FlushLands(i) \/ FlushFails(i) PROVE HttpInv'
    BY <1>4, FlushLandsKeeps, FlushFailsKeeps
  <1>5. CASE HttpRestart BY <1>5, HttpRestartKeeps
  <1>6. CASE HttpTick BY <1>6, HttpTickKeeps
  <1>7. CASE UNCHANGED httpVars
    <2>1. /\ buckets' = buckets /\ dirty' = dirty /\ bucketFile' = bucketFile
          /\ flushes' = flushes /\ reading' = reading /\ startedAt' = startedAt
          /\ httpNow' = httpNow /\ served' = served /\ outrun' = outrun
      BY <1>7 DEF httpVars
    <2>2. HttpTyped' BY <2>1 DEF HttpInv, HttpTyped, Past
    <2>3. ASSUME NEW i \in Identities PROVE RateHolds(i)'
      BY <2>1 DEF HttpInv, RateHolds, RateOf, Got, ServedTo, InRead
    <2>4. NewestIsKept' BY <2>1 DEF HttpInv, NewestIsKept
    <2> QED BY <2>2, <2>3, <2>4 DEF HttpInv
  <1>8. ASSUME NEW c \in HttpConns, RefuseAtOnce(c) PROVE HttpInv'
    BY <1>7, <1>8 DEF RefuseAtOnce
  <1> QED BY <1>1, <1>2, <1>3, <1>4, <1>5, <1>6, <1>7, <1>8, Zenon DEF HttpNext

\* What the invariant says of the requests that were served.
LEMMA RateIsKept == HttpInv => ServedWithinRate
  <1> SUFFICES ASSUME HttpInv, NEW id \in DOMAIN served
               PROVE  served[id] <= HttpLimit.capacity
                        + (httpNow - startedAt + HttpLimit.ticks - 1) \div HttpLimit.ticks
    BY DEF ServedWithinRate
  <1>1. id \in Identities BY DEF HttpInv, HttpTyped, MapsTo
  <1>2. PICK got : got = Got(id) OBVIOUS
  <1>3. got \in Nat /\ served[id] \in Nat /\ served[id] <= got
    BY <1>1, <1>2, GotIsCounted DEF HttpInv, ServedTo
  <1>4. PICK cap, ticks : cap = HttpLimit.capacity /\ ticks = HttpLimit.ticks OBVIOUS
  <1>5. cap \in Nat \ {0} /\ ticks \in Nat \ {0} BY <1>4, LimitOf
  <1>6. httpNow \in Nat /\ startedAt \in Nat /\ startedAt <= httpNow
    BY LimitOf DEF HttpInv, HttpTyped
  <1>7. PICK time : time = httpNow - startedAt + ticks - 1 OBVIOUS
  <1>8. time \in Nat BY <1>5, <1>6, <1>7
  <1>9. PICK gained : gained = time \div ticks OBVIOUS
  <1>10. gained \in Int /\ gained * ticks <= time /\ time < gained * ticks + ticks
    BY <1>5, <1>8, <1>9, Division
  <1>11. gained >= 0
    <2>1. SUFFICES ASSUME gained < 0 PROVE FALSE BY <1>10
    <2>2. gained <= 0 - 1 BY <1>10, <2>1
    <2>3. gained * ticks <= (0 - 1) * ticks BY <1>5, <1>10, <2>2, Products
    <2>4. (0 - 1) * ticks = 0 - ticks BY <1>5
    <2>5. gained * ticks \in Int BY <1>5, <1>10, Products
    <2> QED BY <1>5, <1>8, <1>10, <2>3, <2>4, <2>5
  <1>12. got <= cap + gained
    <2>1. CASE id \notin DOMAIN buckets
      <3>1. got = 0 BY <1>1, <1>2, <2>1 DEF HttpInv, RateHolds
      <3> QED BY <1>5, <1>10, <1>11, <3>1
    <2>2. CASE id \in DOMAIN buckets
      <3>1. PICK b : b = buckets[id] OBVIOUS
      <3>2. b \in HttpBucket /\ b.at <= httpNow
        BY <2>2, <3>1, TableOf DEF HttpInv, HttpTyped, Past
      <3>3. b.tokens \in Nat /\ b.at \in Int BY <3>2, LimitOf DEF HttpBucket
      <3>4. RateOf(got, b) BY <1>1, <1>2, <2>2, <3>1 DEF HttpInv, RateHolds
      <3>5. PICK over : over = got + b.tokens - cap - 1 OBVIOUS
      <3>6. over \in Int BY <1>3, <1>5, <3>3, <3>5
      <3>7. got + b.tokens <= cap \/ over * ticks < b.at - startedAt
        BY <1>4, <3>4, <3>5, Zenon DEF RateOf
      <3>8. CASE got + b.tokens <= cap BY <1>3, <1>5, <1>10, <1>11, <3>3, <3>8
      <3>9. CASE over * ticks < b.at - startedAt
        <4>1. SUFFICES ASSUME over >= gained PROVE FALSE
          BY <1>3, <1>5, <1>10, <3>3, <3>5
        <4>2. gained * ticks <= over * ticks BY <1>5, <1>10, <3>6, <4>1, Products
        <4>3. gained * ticks \in Int /\ over * ticks \in Int BY <1>5, <1>10, <3>6, Products
        <4>4. over * ticks < httpNow - startedAt BY <1>6, <3>2, <3>3, <3>9, <4>3
        <4> QED BY <1>5, <1>6, <1>7, <1>8, <1>10, <4>2, <4>3, <4>4
      <3> QED BY <3>7, <3>8, <3>9
    <2> QED BY <2>1, <2>2
  <1>13. served[id] <= cap + gained BY <1>3, <1>5, <1>10, <1>12
  <1> QED BY <1>4, <1>7, <1>9, <1>13, Zenon

\* The types of the front.
THEOREM HttpTypeCorrect == HttpSpec => []HttpTypeOK
  <1>1. HttpInv => HttpTypeOK
    <2> SUFFICES ASSUME HttpInv PROVE HttpTypeOK OBVIOUS
    <2>1. DOMAIN buckets \subseteq Identities /\ \A id \in DOMAIN buckets : buckets[id] \in HttpBucket
      BY TableOf DEF HttpInv, HttpTyped
    <2>2. ASSUME NEW b \in {bucketFile} \cup ToSet(flushes)
          PROVE  \A id \in DOMAIN b : b[id] \in HttpBucket
      <3>1. flushes \in Seq(HttpTables) /\ bucketFile \in HttpTables BY DEF HttpInv, HttpTyped
      <3>2. \A i \in DOMAIN flushes : flushes[i] \in HttpTables BY <3>1, PlaceOf
      <3>3. b \in HttpTables BY <3>1, <3>2 DEF ToSet
      <3> QED BY <3>3, TableOf
    <2>3. DOMAIN served \subseteq Identities BY DEF HttpInv, HttpTyped, MapsTo
    <2> QED BY <2>1, <2>2, <2>3 DEF HttpInv, HttpTyped, HttpTypeOK
  <1> QED BY <1>1, HttpInitWell, HttpNextKeeps, PTL DEF HttpSpec

\* Between two starts no token gets more requests to the service than its bucket holds and
\* gains in this time, for any limit, number of connections and saves; and when nothing is
\* left to save the file has the buckets, as long as no save was outrun by a later one.
THEOREM HttpLimiterKeepsCount == HttpSpec => []LimiterKeepsCount
  <1>1. HttpInv => LimiterKeepsCount
    BY RateIsKept DEF LimiterKeepsCount, FlushedIsCurrent, HttpInv, NewestIsKept
  <1> QED BY <1>1, HttpInitWell, HttpNextKeeps, PTL DEF HttpSpec
=============================================================================
