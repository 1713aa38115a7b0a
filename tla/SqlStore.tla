------------------------------ MODULE SqlStore ------------------------------
(***************************************************************************)
(* The SQL store of the bridge (apps/bridge-service/src/sql-store.ts): a   *)
(* chain of promises lets one operation at a time use the database, the    *)
(* first operation creates the tables and the row of the sequence, and     *)
(* putIfAbsent runs its statements in a transaction.                       *)
(*                                                                         *)
(* A statement is one step.  Any of them may fail, or the process may end  *)
(* before it, which leaves what was committed.                             *)
(***************************************************************************)
EXTENDS Integers, Sequences, FiniteSets, FiniteSetsExt

CONSTANTS
  SqlKeys,       \* idempotency keys
  SqlRoom,       \* maxRecords
  SqlTtl,        \* ttlMs
  SqlPerTick,    \* 1000 per millisecond in nextSequence
  NoRow, NoTx,
  MaxSqlOps,     \* bound: operations
  MaxSqlUpsets,  \* bound: failed statements and restarts
  MaxSqlNow      \* bound: the time of an operation

ASSUME SqlAssumption ==
  /\ {SqlRoom, SqlPerTick} \subseteq Nat \ {0}
  /\ {SqlTtl, MaxSqlOps, MaxSqlUpsets, MaxSqlNow} \subseteq Nat
  /\ NoRow \notin Nat

VARIABLES
  records,      \* bridge_records, as committed
  sequenceRow,  \* latest_sequence of the one row of bridge_sequence, or NoRow
  tx,           \* what the open transaction sees: [records, sequence], or NoTx
  queue,        \* #lock: the operations that wait, [op, key, at], the first one running
  step,         \* how far its transaction is
  initialized, initialSequence,
  sqlOps, sqlUpsets

sqlVars == <<records, sequenceRow, tx, queue, step, initialized, initialSequence, sqlOps,
             sqlUpsets>>

Times == 0..MaxSqlNow

Stored == INSTANCE RecordStore
            WITH RecordKeys <- SqlKeys, RoomFor <- SqlRoom, RecordTtl <- SqlTtl,
                 NumbersPerTick <- SqlPerTick, StoreTimes <- Times, kept <- records,
                 latest <- IF sequenceRow = NoRow THEN 0 ELSE sequenceRow

SqlInit ==
  /\ records = {}
  /\ sequenceRow = NoRow
  /\ tx = NoTx
  /\ queue = <<>>
  /\ step = "start"
  /\ initialized = FALSE
  /\ initialSequence = 0
  /\ sqlOps = 0
  /\ sqlUpsets = 0

-----------------------------------------------------------------------------
\* withLock: an operation waits for the one before it, failed or not.
WithLock(op, k, at) ==
  /\ sqlOps < MaxSqlOps
  /\ sqlOps' = sqlOps + 1
  /\ queue' = Append(queue, [op |-> op, key |-> k, at |-> at])
  /\ UNCHANGED <<records, sequenceRow, tx, step, initialized, initialSequence, sqlUpsets>>

Running == Head(queue)

Ends ==
  /\ queue' = Tail(queue)
  /\ step' = "start"
  /\ tx' = NoTx

\* #init: the sequence never goes back, whatever the clock says.
Initialize ==
  /\ queue # <<>>
  /\ ~initialized
  /\ sequenceRow' = IF sequenceRow = NoRow THEN initialSequence
                    ELSE Max({sequenceRow, initialSequence})
  /\ initialized' = TRUE
  /\ UNCHANGED <<records, tx, queue, step, initialSequence, sqlOps, sqlUpsets>>

At(s, op) ==
  /\ queue # <<>>
  /\ initialized
  /\ Running.op = op
  /\ step = s
  /\ UNCHANGED <<initialized, initialSequence, sqlOps, sqlUpsets>>

\* get, listAfter, pruneExpired and snapshot delete what has expired and read.
LookUp ==
  /\ At("start", "look")
  /\ records' = Stored!Unexpired(records, Running.at)
  /\ Ends
  /\ UNCHANGED sequenceRow

\* putIfAbsent.
BeginPut ==
  /\ At("start", "put")
  /\ tx' = [records |-> Stored!Unexpired(records, Running.at), sequence |-> sequenceRow]
  /\ step' = "pruned"
  /\ UNCHANGED <<records, sequenceRow, queue>>

\* The key is there: the transaction commits what it has pruned.
FindExisting ==
  /\ At("pruned", "put")
  /\ Stored!HasKey(tx.records, Running.key)
  /\ records' = tx.records
  /\ Ends
  /\ UNCHANGED sequenceRow

\* Faulty variant: as many records stay as there may be with the new one.
RowsTooMany(set) ==
  {r \in set : Cardinality({s \in set : s.sequence > r.sequence}) < SqlRoom}

RowsWithinRoom(set) ==
  LET deleteCount == Cardinality(set) - (SqlRoom - 1)
  IN {r \in set : Cardinality({s \in set : s.sequence < r.sequence}) >= deleteCount}

Evict ==
  /\ At("pruned", "put")
  /\ ~Stored!HasKey(tx.records, Running.key)
  /\ tx' = [tx EXCEPT !.records = RowsWithinRoom(@)]
  /\ step' = "evicted"
  /\ UNCHANGED <<records, sequenceRow, queue>>

ReserveSequence ==
  /\ At("evicted", "put")
  /\ tx' = [tx EXCEPT !.sequence = Stored!NextNumber(@, Running.at)]
  /\ step' = "reserved"
  /\ UNCHANGED <<records, sequenceRow, queue>>

InsertAndCommit ==
  /\ At("reserved", "put")
  /\ records' = tx.records \cup
       {[key |-> Running.key, sequence |-> tx.sequence, expires |-> Running.at + SqlTtl]}
  /\ sequenceRow' = tx.sequence
  /\ Ends

-----------------------------------------------------------------------------
\* A statement fails: the transaction is rolled back and the operation rejects.
StatementFails ==
  /\ sqlUpsets < MaxSqlUpsets
  /\ sqlUpsets' = sqlUpsets + 1
  /\ queue # <<>>
  /\ Ends
  /\ UNCHANGED <<records, sequenceRow, initialized, initialSequence, sqlOps>>

\* The process ends, and a store starts with the clock of then.
SqlRestart(at) ==
  /\ sqlUpsets < MaxSqlUpsets
  /\ sqlUpsets' = sqlUpsets + 1
  /\ tx' = NoTx
  /\ queue' = <<>>
  /\ step' = "start"
  /\ initialized' = FALSE
  /\ initialSequence' = at * SqlPerTick
  /\ UNCHANGED <<records, sequenceRow, sqlOps>>

SqlNext ==
  \/ \E k \in SqlKeys, at \in Times : WithLock("put", k, at)
  \/ \E k \in SqlKeys, at \in Times : WithLock("look", k, at)
  \/ Initialize
  \/ LookUp
  \/ BeginPut
  \/ FindExisting
  \/ Evict
  \/ ReserveSequence
  \/ InsertAndCommit
  \/ StatementFails
  \/ \E at \in Times : SqlRestart(at)

SqlSpec == SqlInit /\ [][SqlNext]_sqlVars

-----------------------------------------------------------------------------
(* Properties.                                                             *)

SqlTypeOK ==
  /\ records \subseteq Stored!StoreRecord
  /\ sequenceRow \in Nat \cup {NoRow}
  /\ tx = NoTx \/ (tx.records \subseteq Stored!StoreRecord /\ tx.sequence \in Nat)
  /\ \A i \in DOMAIN queue :
       queue[i].op \in {"put", "look"} /\ queue[i].key \in SqlKeys /\ queue[i].at \in Times
  /\ step \in {"start", "pruned", "evicted", "reserved"}
  /\ initialized \in BOOLEAN
  /\ initialSequence \in Nat

\* Through failed statements and restarts, the database goes through the states of a
\* store whose every operation is one step: no put is seen or lost in part, the
\* sequence never goes back, and a failed one leaves no trace.
SqlImplementsStore == Stored!StoreSpec
=============================================================================
