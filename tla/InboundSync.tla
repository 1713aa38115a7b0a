---------------------------- MODULE InboundSync -----------------------------
(***************************************************************************)
(* Inbound sync of one stream: pullAndProcessInboundSyncBatch and          *)
(* processInboundSyncBatch of packages/sync-client/src/index.ts over       *)
(* putSignedEventWithSyncCheckpoint and appendLocalIdentityEvent of        *)
(* packages/local-store/src/index.ts.                                      *)
(*                                                                         *)
(* Several pullers (tabs) share the tables.  A puller reads the            *)
(* checkpoint, asks the source for what comes after it, and stores the     *)
(* records one by one, each with the new checkpoint and, if it is about    *)
(* the control of an identity, with the identity's new projection in one   *)
(* transaction.  Only afterwards is a freshly stored event given to the    *)
(* projection that it is routed to, if the caller of                       *)
(* processInboundSyncBatch has asked for that one.                         *)
(*                                                                         *)
(* The source numbers its records.  The same event may come as several     *)
(* records, and records may be dropped.                                    *)
(***************************************************************************)
EXTENDS Naturals, Sequences, FiniteSets

CONSTANTS
  Events,      \* signed events: [kind, epoch, id], of one identity
  Invalid,     \* those whose signature does not verify
  OwnEvents,   \* those that this client signs, which are stored first
  NoEvent,     \* nothing to dispatch, or no contact card
  Pullers,     \* running calls of pullAndProcessInboundSyncBatch
  Steady,      \* those that are taken up again and again
  Limit,       \* records in a page
  MaxRecords   \* bound: the records that the source ever takes

ControlKinds == {"created", "authorized", "granted", "revoked", "card"}

\* "routed" stands for the mailbox, MLS and reputation events.
Kinds == ControlKinds \cup {"routed", "plain"}

\* A granted capability is also registered as a proof.
RoutedKinds == {"routed", "granted"}

SignedEvent == [kind: Kinds, epoch: Nat, id: Nat]

ASSUME InboundAssumption ==
  /\ Events \subseteq SignedEvent
  /\ Invalid \subseteq Events
  /\ OwnEvents \subseteq {e \in Events : e.kind \in ControlKinds} \ Invalid
  /\ NoEvent \notin SignedEvent
  /\ Steady \subseteq Pullers
  /\ Limit \in Nat \ {0}
  /\ MaxRecords \in Nat

VARIABLES
  published,   \* the source: the event of each record
  kept,        \* the numbers of the records it still has
  checkpoint,  \* syncCheckpoints: the sequence, 0 for no row
  stored,      \* signedEvents
  control,     \* identityControlProjections
  projected,   \* what the routed projections have been given
  pc,          \* where each puller is
  before,      \* the checkpoint it has read
  page,        \* the numbers of its records left
  cur          \* the event it has stored and not yet dispatched

source == <<published, kept>>
tables == <<checkpoint, stored, control>>
locals == <<pc, before, page, cur>>
vars == <<published, kept, checkpoint, stored, control, projected, pc, before, page, cur>>

Control == [created: BOOLEAN, epoch: Nat, grant: {"none", "granted", "revoked"},
            card: SignedEvent \cup {NoEvent}]

EmptyControl == [created |-> FALSE, epoch |-> 0, grant |-> "none", card |-> NoEvent]

Init ==
  /\ published = <<>>
  /\ kept = {}
  /\ checkpoint = 0
  /\ stored = {}
  /\ control = EmptyControl
  /\ projected = {}
  /\ pc = [p \in Pullers |-> "idle"]
  /\ before = [p \in Pullers |-> 0]
  /\ page = [p \in Pullers |-> {}]
  /\ cur = [p \in Pullers |-> NoEvent]

-----------------------------------------------------------------------------
(* applyIdentityControlEvent.                                              *)

\* The event does not throw; all of them are signed by the controller.
Applies(e) ==
  CASE e.kind = "created" -> ~control.created
    [] e.kind = "authorized" -> control.created /\ e.epoch > control.epoch
    [] e.kind = "revoked" -> control.created /\ control.grant # "none"
    [] e.kind \in {"granted", "card"} -> control.created

Controlled(e) ==
  CASE e.kind = "created" -> [control EXCEPT !.created = TRUE]
    [] e.kind = "authorized" -> [control EXCEPT !.epoch = e.epoch]
    [] e.kind \in {"granted", "revoked"} -> [control EXCEPT !.grant = e.kind]
    [] e.kind = "card" -> [control EXCEPT !.card = e]

-----------------------------------------------------------------------------
(* The source, and events of the client's own.                             *)

Publish(e) ==
  /\ Len(published) < MaxRecords
  /\ e \in OwnEvents => e \in stored
  /\ published' = Append(published, e)
  /\ kept' = kept \cup {Len(published) + 1}
  /\ UNCHANGED <<tables, projected, locals>>

Drop(i) ==
  /\ kept' = kept \ {i}
  /\ UNCHANGED <<published, tables, projected, locals>>

\* An event that is stored already changes nothing.
AppendLocalIdentityEvent(e) ==
  /\ e \notin stored
  /\ Applies(e)
  /\ stored' = stored \cup {e}
  /\ control' = Controlled(e)
  /\ UNCHANGED <<source, checkpoint, projected, locals>>

-----------------------------------------------------------------------------
(* pullAndProcessInboundSyncBatch.                                         *)

\* Faulty variant: the cursor of the checkpoint is not handed on.
CursorForgotten == 0

Cursor == checkpoint

GetSyncCheckpoint(p) ==
  /\ pc[p] = "idle"
  /\ pc' = [pc EXCEPT ![p] = "pull"]
  /\ before' = [before EXCEPT ![p] = Cursor]
  /\ UNCHANGED <<source, tables, projected, page, cur>>

Following(n) == {i \in kept : i > n}

\* The source gives up to Limit records after the cursor, with none left out.
Pull(p) ==
  /\ pc[p] = "pull"
  /\ \E S \in SUBSET Following(before[p]) :
       /\ Cardinality(S) <= Limit
       /\ S = {} => Following(before[p]) = {}
       /\ \A i \in S, j \in Following(before[p]) : j < i => j \in S
       /\ page' = [page EXCEPT ![p] = S]
  /\ pc' = [pc EXCEPT ![p] = "process"]
  /\ UNCHANGED <<source, tables, projected, before, cur>>

IsFirst(p, i) == i \in page[p] /\ \A j \in page[p] : i <= j

Returns(p) ==
  /\ pc' = [pc EXCEPT ![p] = "idle"]
  /\ before' = [before EXCEPT ![p] = 0]
  /\ page' = [page EXCEPT ![p] = {}]
  /\ cur' = [cur EXCEPT ![p] = NoEvent]

Done(p) ==
  /\ pc[p] = "process" /\ page[p] = {}
  /\ Returns(p)
  /\ UNCHANGED <<source, tables, projected>>

-----------------------------------------------------------------------------
(* processInboundSyncBatch: one record.                                    *)

\* Faulty variant: any record moves the checkpoint.
NeverBehind(i) == FALSE

\* checkpointAdvanceDecision skips the record of the checkpoint, and throws
\* stale-sequence, which is skipped as well, for an older one.
Behind(i) == i <= checkpoint

SkipRecord(p, i) ==
  /\ pc[p] = "process" /\ IsFirst(p, i)
  /\ published[i] \notin Invalid
  /\ Behind(i)
  /\ page' = [page EXCEPT ![p] = @ \ {i}]
  /\ UNCHANGED <<source, tables, projected, pc, before, cur>>

Acceptable(e) == e \notin Invalid /\ (e.kind \in ControlKinds => Applies(e))

\* Faulty variant: the projection is left to a later transaction.
ControlAfterLater(e) == control

ControlAfter(e) == IF e.kind \in ControlKinds THEN Controlled(e) ELSE control

StoredWith(e) == stored \cup {e}

PutSignedEventWithSyncCheckpoint(p, i) ==
  /\ pc[p] = "process" /\ IsFirst(p, i)
  /\ ~Behind(i) /\ Acceptable(published[i])
  /\ control' = ControlAfter(published[i])
  /\ stored' = StoredWith(published[i])
  /\ checkpoint' = i
  /\ page' = [page EXCEPT ![p] = @ \ {i}]
  /\ IF published[i].kind \in RoutedKinds
       THEN /\ pc' = [pc EXCEPT ![p] = "dispatch"]
            /\ cur' = [cur EXCEPT ![p] = published[i]]
       ELSE UNCHANGED <<pc, cur>>
  /\ UNCHANGED <<source, projected, before>>

\* Faulty variant: the batch goes on behind a record that was rejected.
GoesOn(p, i) ==
  /\ page' = [page EXCEPT ![p] = @ \ {i}]
  /\ UNCHANGED <<pc, before, cur>>

BreaksOff(p, i) == Returns(p)

\* The signature does not verify, or the transaction is aborted.
RejectRecord(p, i) ==
  /\ pc[p] = "process" /\ IsFirst(p, i)
  /\ ~Acceptable(published[i])
  /\ published[i] \in Invalid \/ ~Behind(i)
  /\ BreaksOff(p, i)
  /\ UNCHANGED <<source, tables, projected>>

\* A projection that rejects the event or fails shows in the summary only.
Dispatch(p) ==
  /\ pc[p] = "dispatch"
  /\ projected' \in {projected, projected \cup {cur[p]}}
  /\ pc' = [pc EXCEPT ![p] = "process"]
  /\ cur' = [cur EXCEPT ![p] = NoEvent]
  /\ UNCHANGED <<source, tables, before, page>>

\* The tab closes, the source does not answer, or a store call rejects.
Stop(p) ==
  /\ pc[p] # "idle"
  /\ Returns(p)
  /\ UNCHANGED <<source, tables, projected>>

Process(p) ==
  \E i \in page[p] :
    SkipRecord(p, i) \/ PutSignedEventWithSyncCheckpoint(p, i) \/ RejectRecord(p, i)

Puller(p) == GetSyncCheckpoint(p) \/ Pull(p) \/ Process(p) \/ Dispatch(p) \/ Done(p)

Next ==
  \/ \E e \in Events : Publish(e)
  \/ \E i \in kept : Drop(i)
  \/ \E e \in OwnEvents : AppendLocalIdentityEvent(e)
  \/ \E p \in Pullers : Puller(p) \/ Stop(p)

Spec == Init /\ [][Next]_vars

\* A steady puller may stop for ever, but not always at the same point; the
\* others may stop for good.
Fairness ==
  \A p \in Steady :
    /\ SF_vars(GetSyncCheckpoint(p)) /\ SF_vars(Pull(p)) /\ SF_vars(Process(p))
    /\ SF_vars(Dispatch(p)) /\ SF_vars(Done(p))

FairSpec == Spec /\ Fairness

-----------------------------------------------------------------------------
(* Properties.                                                             *)

TypeOK ==
  /\ published \in Seq(Events)
  /\ kept \subseteq DOMAIN published
  /\ checkpoint \in 0 .. Len(published)
  /\ stored \subseteq Events
  /\ control \in Control
  /\ projected \subseteq stored
  /\ pc \in [Pullers -> {"idle", "pull", "process", "dispatch"}]
  /\ before \in [Pullers -> 0 .. checkpoint]
  /\ page \in [Pullers -> SUBSET DOMAIN published]
  /\ cur \in [Pullers -> stored \cup {NoEvent}]
  /\ \A p \in Pullers : pc[p] = "dispatch" <=> cur[p] # NoEvent

\* The checkpoint never passes over a record: whatever the source still has up
\* to there is stored, however many tabs pull, stop, or come upon records that
\* are rejected.
NothingSkipped ==
  \A i \in kept : i <= checkpoint => published[i] \in stored

\* The projection of an identity moves with its events, or neither does: it is
\* created, at an epoch, granted or published if and only if the event that
\* makes it so is in the table.
ControlMatchesStore ==
  LET Has(kind) == \E e \in stored : e.kind = kind IN
  /\ control.created <=> Has("created")
  /\ control.grant # "none" <=> Has("granted")
  /\ control.card # NoEvent <=> Has("card")
  /\ \A e \in stored : e.kind = "authorized" => e.epoch <= control.epoch
  /\ control.epoch = 0 \/ \E e \in stored : e.kind = "authorized" /\ e.epoch = control.epoch

\* Several pullers look like one that takes record after record.
Reader == INSTANCE StreamReader

ReaderSpec == Reader!Spec

\* The next record after the checkpoint is one that is always rejected.
Blocked ==
  \E i \in Following(checkpoint) :
    /\ \A j \in Following(checkpoint) : i <= j
    /\ ~Acceptable(published[i])

\* A record is taken in the end, unless the source loses it or a record before
\* it is rejected for ever.
EveryRecordIsTaken ==
  \A i \in 1 .. MaxRecords :
    [](i \in kept => <>(i <= checkpoint \/ i \notin kept \/ []Blocked))

\* "A re-played event is a silent no-op" (identity control threat model).
ReplayIsNoOp ==
  [][\A p \in Pullers : \A i \in page[p] :
       PutSignedEventWithSyncCheckpoint(p, i) /\ published[i] \in stored
         => control' = control]_vars
=============================================================================
