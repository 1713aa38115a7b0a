----------------------------- MODULE RecordStore -----------------------------
(***************************************************************************)
(* What a record store of the bridge promises: the in-memory store of      *)
(* apps/bridge-service/src/stores.ts, every operation of which is one step.*)
(*                                                                         *)
(* A caller gives the time of an operation, so that times may step back.   *)
(***************************************************************************)
EXTENDS Integers, FiniteSets, FiniteSetsExt

CONSTANTS
  RecordKeys,     \* idempotency keys
  RoomFor,        \* maxRecords
  RecordTtl,      \* ttlMs
  NumbersPerTick, \* 1000 per millisecond in nextSequence
  StoreTimes      \* the times of operations

VARIABLES
  kept,     \* the records: [key, sequence, expires]
  latest    \* the sequence number that was given last

StoreRecord == [key: RecordKeys, sequence: Nat, expires: Nat]

StoreInit == kept = {} /\ latest \in Nat

Unexpired(set, at) == {r \in set : r.expires > at}

\* The oldest records go until there is room for one.
MadeRoom(set) ==
  {r \in set : Cardinality({s \in set : s.sequence > r.sequence}) < RoomFor - 1}

NextNumber(number, at) == Max({number + 1, at * NumbersPerTick})

HasKey(set, k) == \E r \in set : r.key = k

\* putIfAbsent: expired records go, and the record is added if its key is free.
PutIfAbsent(k, at) ==
  LET live == Unexpired(kept, at)
      number == NextNumber(latest, at)
  IN IF HasKey(live, k)
     THEN kept' = live /\ UNCHANGED latest
     ELSE /\ kept' = MadeRoom(live) \cup
                       {[key |-> k, sequence |-> number, expires |-> at + RecordTtl]}
          /\ latest' = number

\* get, listAfter, pruneExpired and snapshot.
Look(at) == kept' = Unexpired(kept, at) /\ UNCHANGED latest

\* A store that starts over the same records has an initial sequence of its own.
Restart(number) == latest' = Max({latest, number}) /\ UNCHANGED kept

StoreNext ==
  \E at \in StoreTimes :
    \/ \E k \in RecordKeys : PutIfAbsent(k, at)
    \/ Look(at)
    \/ Restart(at * NumbersPerTick)

StoreSpec == StoreInit /\ [][StoreNext]_<<kept, latest>>
=============================================================================
