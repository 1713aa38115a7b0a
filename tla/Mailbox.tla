------------------------------- MODULE Mailbox -------------------------------
(***************************************************************************)
(* The mailbox of one identity: the event log and the rows derived from it *)
(* in packages/local-store/src/index.ts, folded by                         *)
(* packages/mailbox-projection/src/index.ts.                               *)
(*                                                                         *)
(* appendMailboxEvent folds an event into the rows of its envelope when it *)
(* arrives.  loadMailboxInboxState reads the log, folds it in the order of *)
(* (createdAt, eventId), and writes the rows in a later transaction.       *)
(* sweepExpiredMailboxEnvelopes reads the rows that are past their expiry  *)
(* and appends an event for one after the other.  Each transaction is one  *)
(* action; all three run at the same time in the tabs of a client.         *)
(*                                                                         *)
(* Every event arrives any number of times, in any order.  A caller has    *)
(* the key of an envelope or does not have it (yet).                       *)
(***************************************************************************)
EXTENDS Naturals, FiniteSets, Folds

CONSTANTS
  Events,      \* events from outside: [kind, target, at, id]
  ToOwner,     \* envelopes addressed to the owner
  FromOwner,   \* envelopes sent by the owner
  ExpiresAt,   \* expiresAt of each envelope, in ticks
  NoEvent,     \* no acknowledgement, or no checkpoint
  Rebuilders,  \* callers of loadMailboxInboxState
  Sweepers,    \* callers of sweepExpiredMailboxEnvelopes
  FreshIds,    \* bound: the ids that sweeps give their events
  MaxNow       \* bound: the last tick of the clock

Kinds == {"queued", "delivered", "fetched", "expired", "receipt", "ack", "checkpoint"}

Targets == {e.target : e \in Events}

MailboxEvent == [kind: Kinds, target: Targets, at: Nat, id: Nat]

ASSUME MailboxAssumption ==
  /\ Events \subseteq MailboxEvent
  /\ \A e, f \in Events : e.id = f.id => e = f
  /\ ExpiresAt \in [Targets -> Nat]
  /\ NoEvent \notin MailboxEvent
  /\ FreshIds \subseteq Nat \ {e.id : e \in Events}
  /\ MaxNow \in Nat

VARIABLES
  now,        \* wall clock
  log,        \* mailboxEventLog
  projected,  \* the events of log marked projected
  rows,       \* mailboxInbox, mailboxOutbox and mailboxCheckpoints
  taken,      \* what each running rebuild has read and decrypted
  rebuilding, \* rebuilds between their read and their write
  sweep,      \* where each sweep is
  sweepNow,   \* its now
  candidates  \* the envelopes it has left

rebuild == <<taken, rebuilding>>
sweeping == <<sweep, sweepNow, candidates>>
vars == <<now, log, projected, rows, taken, rebuilding, sweep, sweepNow, candidates>>

Status == {"none", "queued", "delivered", "fetched", "expired"}

\* Both sides of an envelope, and the cursor of a mailbox; "none" is no row.
Row == [inbox: Status, outbox: Status, receipts: SUBSET MailboxEvent,
        ack: MailboxEvent \cup {NoEvent}, checkpoint: MailboxEvent \cup {NoEvent}]

NoRow == [inbox |-> "none", outbox |-> "none", receipts |-> {},
          ack |-> NoEvent, checkpoint |-> NoEvent]

Init ==
  /\ now = 0
  /\ log = {}
  /\ projected = {}
  /\ rows = [t \in Targets |-> NoRow]
  /\ taken = [r \in Rebuilders |-> {}]
  /\ rebuilding = {}
  /\ sweep = [s \in Sweepers |-> "idle"]
  /\ sweepNow = [s \in Sweepers |-> 0]
  /\ candidates = [s \in Sweepers |-> {}]

-----------------------------------------------------------------------------
(* applyMailboxEvent.                                                      *)

Rank(status) ==
  CASE status = "none" -> 0 [] status = "queued" -> 1 [] status = "delivered" -> 2
    [] status = "fetched" -> 3 [] status = "expired" -> 4

\* Faulty variant: an envelope without a row is given one.
AdvanceUnknown(current, next) == IF Rank(next) > Rank(current) THEN next ELSE current

Advance(current, next) ==
  IF current # "none" /\ Rank(next) > Rank(current) THEN next ELSE current

Queue(current, t, party) == IF current = "none" /\ t \in party THEN "queued" ELSE current

applyQueued(row, t) ==
  [row EXCEPT !.inbox = Queue(@, t, ToOwner), !.outbox = Queue(@, t, FromOwner)]

\* An event of an envelope without a row changes nothing; nor does one of these of an
\* envelope that has expired.
applyDelivered(row) ==
  [row EXCEPT !.inbox = Advance(@, "delivered"), !.outbox = Advance(@, "delivered")]

applyFetched(row) == [row EXCEPT !.inbox = Advance(@, "fetched")]

applyExpired(row) ==
  [row EXCEPT !.inbox = Advance(@, "expired"), !.outbox = Advance(@, "expired")]

\* Receipts annotate the inbox, each once, and the last acknowledgement the outbox.
applyReceipt(row, e) == IF row.inbox = "none" THEN row ELSE [row EXCEPT !.receipts = @ \cup {e}]

applyAck(row, e) == IF row.outbox = "none" THEN row ELSE [row EXCEPT !.ack = e]

applyCheckpoint(row, e) == [row EXCEPT !.checkpoint = e]

ApplyMailboxEvent(row, e) ==
  CASE e.kind = "queued" -> applyQueued(row, e.target)
    [] e.kind = "delivered" -> applyDelivered(row)
    [] e.kind = "fetched" -> applyFetched(row)
    [] e.kind = "expired" -> applyExpired(row)
    [] e.kind = "receipt" -> applyReceipt(row, e)
    [] e.kind = "ack" -> applyAck(row, e)
    [] e.kind = "checkpoint" -> applyCheckpoint(row, e)

\* MAILBOX_RECIPIENT_MISMATCH: the owner is no party to the envelope.
Mismatch(e) == e.kind = "queued" /\ e.target \notin ToOwner \cup FromOwner

-----------------------------------------------------------------------------
(* appendMailboxEvent.                                                     *)

AlreadyProjected(e) == e \in projected

AppendProjected(e) ==
  /\ log' = log \cup {e}
  /\ projected' = projected \cup {e}
  /\ rows' = [rows EXCEPT ![e.target] = ApplyMailboxEvent(@, e)]

\* An event of another's envelope is rejected and not kept.
AppendMailboxEvent(e) ==
  /\ ~AlreadyProjected(e)
  /\ ~Mismatch(e)
  /\ AppendProjected(e)
  /\ UNCHANGED <<now, rebuild, sweeping>>

\* The caller had no key: the event is kept for later.
AppendUndecryptable(e) ==
  /\ ~AlreadyProjected(e)
  /\ log' = log \cup {e}
  /\ UNCHANGED <<now, projected, rows, rebuild, sweeping>>

-----------------------------------------------------------------------------
(* loadMailboxInboxState.                                                  *)

Before(e, f) == e.at < f.at \/ (e.at = f.at /\ e.id < f.id)

\* The keys of the targets in known can be resolved.
RebuildRead(r) ==
  /\ r \notin rebuilding
  /\ \E known \in SUBSET Targets :
       taken' = [taken EXCEPT ![r] = {e \in log : e.target \in known}]
  /\ rebuilding' = rebuilding \cup {r}
  /\ UNCHANGED <<now, log, projected, rows, sweeping>>

\* Faulty variant: the log is folded from its end.
ReplayedLastBackwards(S) == CHOOSE e \in S : \A f \in S \ {e} : Before(e, f)

\* The event of S that listLocalMailboxEvents puts last.
ReplayedLast(S) == CHOOSE e \in S : \A f \in S \ {e} : Before(f, e)

\* What the events of S about t fold to; one of a foreign envelope is skipped.
Replayed(S, t) ==
  MapThenFoldSet(LAMBDA e, row : ApplyMailboxEvent(row, e), NoRow, LAMBDA e : e,
                 ReplayedLast, {e \in S : e.target = t /\ ~Mismatch(e)})

\* Rows are put where the fold has an entry; no row is deleted.
Overwritten(row, rebuilt) ==
  [inbox |-> IF rebuilt.inbox = "none" THEN row.inbox ELSE rebuilt.inbox,
   receipts |-> IF rebuilt.inbox = "none" THEN row.receipts ELSE rebuilt.receipts,
   outbox |-> IF rebuilt.outbox = "none" THEN row.outbox ELSE rebuilt.outbox,
   ack |-> IF rebuilt.outbox = "none" THEN row.ack ELSE rebuilt.ack,
   checkpoint |-> IF rebuilt.checkpoint = NoEvent THEN row.checkpoint ELSE rebuilt.checkpoint]

RebuildEnds(r) ==
  /\ taken' = [taken EXCEPT ![r] = {}]
  /\ rebuilding' = rebuilding \ {r}

RebuildWrite(r) ==
  /\ r \in rebuilding
  /\ rows' = [t \in Targets |-> Overwritten(rows[t], Replayed(taken[r], t))]
  /\ RebuildEnds(r)
  /\ UNCHANGED <<now, log, projected, sweeping>>

-----------------------------------------------------------------------------
(* sweepExpiredMailboxEnvelopes.                                           *)

Sweepable == {"queued", "delivered"}

Due(status, t, clock) == status \in Sweepable /\ ExpiresAt[t] <= clock

SweepInbox(s) ==
  /\ sweep[s] = "idle"
  /\ sweep' = [sweep EXCEPT ![s] = "outbox"]
  /\ sweepNow' = [sweepNow EXCEPT ![s] = now]
  /\ candidates' = [candidates EXCEPT ![s] = {t \in Targets : Due(rows[t].inbox, t, now)}]
  /\ UNCHANGED <<now, log, projected, rows, rebuild>>

SweepOutbox(s) ==
  /\ sweep[s] = "outbox"
  /\ sweep' = [sweep EXCEPT ![s] = "emit"]
  /\ candidates' = [candidates EXCEPT ![s] =
       @ \cup {t \in Targets : Due(rows[t].outbox, t, sweepNow[s])}]
  /\ UNCHANGED <<now, log, projected, rows, sweepNow, rebuild>>

SweptEvent(s, t, i) == [kind |-> "expired", target |-> t, at |-> sweepNow[s], id |-> i]

\* The candidates are signed and appended one by one, whatever has become of
\* their rows.
SweepEnvelope(s) ==
  /\ sweep[s] = "emit"
  /\ \E t \in candidates[s], i \in FreshIds \ {e.id : e \in log} :
       /\ AppendProjected(SweptEvent(s, t, i))
       /\ candidates' = [candidates EXCEPT ![s] = @ \ {t}]
  /\ UNCHANGED <<now, sweep, sweepNow, rebuild>>

\* resolveEnvelopeKey has no key, for now, for one of them.
SweepSkips(s) ==
  /\ sweep[s] = "emit"
  /\ \E t \in candidates[s] : candidates' = [candidates EXCEPT ![s] = @ \ {t}]
  /\ UNCHANGED <<now, log, projected, rows, sweep, sweepNow, rebuild>>

SweepEnds(s) ==
  /\ sweep' = [sweep EXCEPT ![s] = "idle"]
  /\ sweepNow' = [sweepNow EXCEPT ![s] = 0]
  /\ candidates' = [candidates EXCEPT ![s] = {}]
  /\ UNCHANGED <<now, log, projected, rows, rebuild>>

SweepDone(s) == sweep[s] = "emit" /\ candidates[s] = {} /\ SweepEnds(s)

-----------------------------------------------------------------------------
(* The rest of the world.                                                  *)

\* A tab closes, or a store call rejects: what has been written stays.
SweepStops(s) == sweep[s] # "idle" /\ SweepEnds(s)

RebuildStops(r) ==
  /\ r \in rebuilding
  /\ RebuildEnds(r)
  /\ UNCHANGED <<now, log, projected, rows, sweeping>>

Tick ==
  /\ now < MaxNow
  /\ now' = now + 1
  /\ UNCHANGED <<log, projected, rows, rebuild, sweeping>>

Sweep(s) ==
  \/ SweepInbox(s) \/ SweepOutbox(s) \/ SweepEnvelope(s) \/ SweepSkips(s)
  \/ SweepDone(s) \/ SweepStops(s)

Next ==
  \/ \E e \in Events : AppendMailboxEvent(e) \/ AppendUndecryptable(e)
  \/ \E r \in Rebuilders : RebuildRead(r) \/ RebuildWrite(r) \/ RebuildStops(r)
  \/ \E s \in Sweepers : Sweep(s)
  \/ Tick

Spec == Init /\ [][Next]_vars

-----------------------------------------------------------------------------
(* What a log says of an envelope, without folding it.                     *)

Queued(L, t) == {e \in L : e.target = t /\ e.kind = "queued"}

\* The events about t that come after it was queued.
Since(L, t) == {e \in L : e.target = t /\ \E q \in Queued(L, t) : Before(q, e)}

Newest(S) == IF S = {} THEN NoEvent ELSE CHOOSE e \in S : \A f \in S : f = e \/ Before(f, e)

OfKind(S, kind) == {e \in S : e.kind = kind}

StatusBy(L, t, party, kinds) ==
  IF t \notin party \/ Queued(L, t) = {} THEN "none"
  ELSE CHOOSE status \in {"queued"} \cup ({e.kind : e \in Since(L, t)} \cap kinds) :
         \A e \in Since(L, t) : e.kind \in kinds => Rank(e.kind) <= Rank(status)

Expected(L, t) ==
  [inbox |-> StatusBy(L, t, ToOwner, {"delivered", "fetched", "expired"}),
   outbox |-> StatusBy(L, t, FromOwner, {"delivered", "expired"}),
   receipts |-> IF t \in ToOwner THEN OfKind(Since(L, t), "receipt") ELSE {},
   ack |-> IF t \in FromOwner THEN Newest(OfKind(Since(L, t), "ack")) ELSE NoEvent,
   checkpoint |-> Newest({e \in L : e.target = t /\ e.kind = "checkpoint"})]

\* other shows all that the rows of an envelope show, or has gone beyond it.
Within(row, other) ==
  /\ Rank(row.inbox) <= Rank(other.inbox)
  /\ Rank(row.outbox) <= Rank(other.outbox)
  /\ row.receipts \subseteq other.receipts
  /\ row.ack # NoEvent => other.ack # NoEvent

\* Whatever the log has about t comes after its queued event, if that is there.
InOrder(t) ==
  \A e \in log, q \in Queued(log, t) : e.target = t /\ e.kind # "queued" => Before(q, e)

-----------------------------------------------------------------------------
(* Properties.                                                             *)

TypeOK ==
  /\ now \in Nat
  /\ log \subseteq MailboxEvent
  /\ projected \subseteq log
  /\ rows \in [Targets -> Row]
  /\ taken \in [Rebuilders -> SUBSET log]
  /\ rebuilding \subseteq Rebuilders
  /\ sweep \in [Sweepers -> {"idle", "outbox", "emit"}]
  /\ sweepNow \in [Sweepers -> Nat]
  /\ candidates \in [Sweepers -> SUBSET Targets]

\* The log is the source of truth: whatever arrived in whatever order, was
\* decrypted late, overwritten by an old rebuild or swept, a row shows nothing
\* that a replay of the log would not, as long as the log has the envelope
\* queued before anything happens to it.
RowsBehindLog ==
  \A t \in Targets : InOrder(t) => Within(rows[t], Expected(log, t))

\* A rebuild that has missed nothing heals: afterwards the rows are what the
\* log says, in the order of its events and not of their arrival.
RebuildHeals ==
  [][\A r \in Rebuilders : RebuildWrite(r) /\ taken[r] = log =>
       \A t \in Targets : rows'[t] = Expected(log, t)]_vars

\* Expiry is terminal and no envelope goes back in its life cycle, except by a
\* rebuild that has missed something, or of an envelope whose events are dated
\* before it was queued.
OnlyOldRebuildsRegress ==
  [][\A t \in Targets :
       InOrder(t) /\ (Rank(rows'[t].inbox) < Rank(rows[t].inbox)
                       \/ Rank(rows'[t].outbox) < Rank(rows[t].outbox))
       => \E r \in Rebuilders : RebuildWrite(r) /\ taken[r] # log]_vars

\* "`fetched` envelopes are left alone" (sweepExpiredMailboxEnvelopes).
FetchedIsLeftAlone ==
  [][\A s \in Sweepers, t \in Targets :
       SweepEnvelope(s) /\ rows[t].inbox = "fetched" => rows'[t].inbox = "fetched"]_vars
=============================================================================
