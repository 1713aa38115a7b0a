-------------------------- MODULE InboundSyncProofs --------------------------
(***************************************************************************)
(* For any number of pullers, records and events: nothing is skipped, the  *)
(* projection of an identity moves with its events, and the pullers        *)
(* together implement StreamReader.                                        *)
(***************************************************************************)
EXTENDS InboundSync, TLAPS

\* A page leaves nothing out between the checkpoint and a record it has left.
PagesComplete ==
  \A p \in Pullers : \A i \in page[p], j \in kept :
    checkpoint < j /\ j < i => j \in page[p]

IInv == TypeOK /\ NothingSkipped /\ PagesComplete /\ ControlMatchesStore

\* The steps of one puller that leave the tables, the source and what is
\* projected alone, and only ever take records off its page.
Quiet(p) ==
  /\ UNCHANGED <<published, kept, checkpoint, stored, control, projected>>
  /\ pc' \in [Pullers -> {"idle", "pull", "process", "dispatch"}]
  /\ before' \in [Pullers -> 0 .. checkpoint]
  /\ page' \in [Pullers -> SUBSET DOMAIN published]
  /\ \A q \in Pullers \ {p} : page'[q] = page[q]
  /\ \/ page'[p] \in {{}, page[p]}
     \/ \E i \in page[p] : i <= checkpoint /\ page'[p] = page[p] \ {i}
  /\ cur' \in [Pullers -> stored \cup {NoEvent}]
  /\ \A q \in Pullers : pc'[q] = "dispatch" <=> cur'[q] # NoEvent

\* Whatever a puller does other than pull, store and dispatch is quiet.
LEMMA QuietSteps ==
  ASSUME TypeOK, NEW p \in Pullers,
         \/ GetSyncCheckpoint(p) \/ Done(p) \/ Stop(p)
         \/ \E i \in page[p] : SkipRecord(p, i) \/ RejectRecord(p, i)
  PROVE  Quiet(p)
<1> USE InboundAssumption DEF TypeOK, Quiet
<1>1. CASE GetSyncCheckpoint(p)
  BY <1>1 DEF GetSyncCheckpoint, Cursor, source, tables
<1>2. CASE Returns(p) /\ UNCHANGED <<source, tables, projected>>
  BY <1>2 DEF Returns, source, tables
<1>3. ASSUME NEW i \in page[p], SkipRecord(p, i) PROVE Quiet(p)
  BY <1>3 DEF SkipRecord, Behind, source, tables
<1> QED BY <1>1, <1>2, <1>3 DEF Done, Stop, RejectRecord, BreaksOff

-----------------------------------------------------------------------------
(* Types.                                                                  *)

\* An event that applies leaves a projection.
LEMMA ControlledType ==
  ASSUME control \in Control, NEW e \in Events, e.kind \in ControlKinds
  PROVE  Controlled(e) \in Control
BY InboundAssumption DEF Control, Controlled, SignedEvent, ControlKinds

\* The types hold at the start.
LEMMA InitType == Init => TypeOK
BY InboundAssumption DEF Init, TypeOK, Control, EmptyControl

\* A page names records of the source.
LEMMA PullType ==
  ASSUME TypeOK, NEW p \in Pullers, Pull(p)
  PROVE  TypeOK'
<1>1. PICK S \in SUBSET Following(before[p]) : page' = [page EXCEPT ![p] = S]
  BY DEF Pull
<1>2. S \subseteq DOMAIN published
  BY DEF Following, TypeOK
<1>3. page' \in [Pullers -> SUBSET DOMAIN published]
  BY <1>1, <1>2 DEF TypeOK
<1> QED BY <1>3 DEF Pull, TypeOK, source, tables

\* A stored record leaves well-typed tables.
LEMMA PutType ==
  ASSUME TypeOK, NEW p \in Pullers, NEW i \in page[p],
         PutSignedEventWithSyncCheckpoint(p, i)
  PROVE  TypeOK'
<1> USE InboundAssumption
<1> DEFINE e == published[i]
<1>1. i \in DOMAIN published /\ i > checkpoint /\ e \in Events /\ i \in Nat
  BY DEF TypeOK, PutSignedEventWithSyncCheckpoint, Behind
<1>2. e # NoEvent
  BY <1>1
<1>3. control' \in Control
  BY <1>1, ControlledType DEF TypeOK, PutSignedEventWithSyncCheckpoint, ControlAfter
<1>4. published' = published /\ kept' = kept /\ projected' = projected
        /\ checkpoint' = i /\ stored' = stored \cup {e} /\ before' = before
        /\ page' = [page EXCEPT ![p] = @ \ {i}] /\ pc[p] = "process"
  BY DEF PutSignedEventWithSyncCheckpoint, StoredWith, source
<1>5. page' \in [Pullers -> SUBSET DOMAIN published]
  BY <1>4 DEF TypeOK
<1>6. before' \in [Pullers -> 0 .. checkpoint']
  BY <1>1, <1>4 DEF TypeOK
<1>7. CASE e.kind \in RoutedKinds
  <2>1. pc' = [pc EXCEPT ![p] = "dispatch"] /\ cur' = [cur EXCEPT ![p] = e]
    BY <1>7 DEF PutSignedEventWithSyncCheckpoint
  <2> QED BY <2>1, <1>1, <1>2, <1>3, <1>4, <1>5, <1>6 DEF TypeOK
<1>8. CASE e.kind \notin RoutedKinds
  <2>1. pc' = pc /\ cur' = cur
    BY <1>8 DEF PutSignedEventWithSyncCheckpoint
  <2> QED BY <2>1, <1>1, <1>3, <1>4, <1>5, <1>6 DEF TypeOK
<1> QED BY <1>7, <1>8

\* Every step keeps the types.
LEMMA TypeStep == TypeOK /\ [Next]_vars => TypeOK'
<1> USE InboundAssumption
<1> SUFFICES ASSUME TypeOK, [Next]_vars PROVE TypeOK'
  OBVIOUS
<1>1. ASSUME NEW e \in Events, Publish(e) PROVE TypeOK'
  <2>1. published' \in Seq(Events) /\ Len(published') = Len(published) + 1
        /\ DOMAIN published' = 1 .. Len(published) + 1 /\ DOMAIN published = 1 .. Len(published)
    BY <1>1 DEF Publish, TypeOK
  <2> QED BY <1>1, <2>1 DEF Publish, TypeOK, tables, locals
<1>2. ASSUME NEW i \in kept, Drop(i) PROVE TypeOK'
  BY <1>2 DEF Drop, TypeOK, tables, locals
<1>3. ASSUME NEW e \in OwnEvents, AppendLocalIdentityEvent(e) PROVE TypeOK'
  <2>1. e \in Events /\ e.kind \in ControlKinds
    OBVIOUS
  <2> QED BY <1>3, <2>1, ControlledType DEF AppendLocalIdentityEvent, TypeOK, source, locals
<1>4. ASSUME NEW p \in Pullers, Quiet(p) PROVE TypeOK'
  BY <1>4 DEF Quiet, TypeOK
<1>5. ASSUME NEW p \in Pullers, Dispatch(p) PROVE TypeOK'
  BY <1>5 DEF Dispatch, TypeOK, source, tables
<1>6. CASE UNCHANGED vars
  BY <1>6 DEF vars, TypeOK
<1> QED BY <1>1, <1>2, <1>3, <1>4, <1>5, <1>6, PullType, PutType, QuietSteps
      DEF Next, Puller, Process

-----------------------------------------------------------------------------
(* Pages, the checkpoint, and the table.                                   *)

\* The record that is stored is the first one after the checkpoint.
LEMMA PutTakesNext ==
  ASSUME TypeOK, PagesComplete, NEW p \in Pullers, NEW i \in page[p],
         PutSignedEventWithSyncCheckpoint(p, i)
  PROVE  /\ i \in DOMAIN published /\ i > checkpoint
         /\ \A j \in kept : j > checkpoint => j >= i
<1>1. i \in DOMAIN published /\ i > checkpoint /\ i \in Nat
  BY DEF TypeOK, PutSignedEventWithSyncCheckpoint, Behind
<1>2. \A j \in page[p] : i <= j
  BY DEF PutSignedEventWithSyncCheckpoint, IsFirst
<1>3. kept \subseteq Nat
  BY DEF TypeOK
<1> QED BY <1>1, <1>2, <1>3 DEF PagesComplete, TypeOK

\* Pages stay complete.
LEMMA PagesStep == TypeOK /\ PagesComplete /\ [Next]_vars => PagesComplete'
<1> SUFFICES ASSUME TypeOK, PagesComplete, [Next]_vars PROVE PagesComplete'
  OBVIOUS
<1>1. ASSUME NEW e \in Events, Publish(e) PROVE PagesComplete'
  <2>1. \A q \in Pullers : \A i \in page[q] : i \in Nat /\ i <= Len(published)
    BY DEF TypeOK
  <2> QED BY <1>1, <2>1 DEF Publish, PagesComplete, TypeOK, tables, locals
<1>2. ASSUME NEW i \in kept, Drop(i) PROVE PagesComplete'
  BY <1>2 DEF Drop, PagesComplete, tables, locals
<1>3. ASSUME NEW e \in OwnEvents, AppendLocalIdentityEvent(e) PROVE PagesComplete'
  BY <1>3 DEF AppendLocalIdentityEvent, PagesComplete, source, locals
<1>4. ASSUME NEW p \in Pullers, Quiet(p) PROVE PagesComplete'
  <2>1. SUFFICES ASSUME NEW q \in Pullers, NEW i \in page'[q], NEW j \in kept,
                        checkpoint < j, j < i
                 PROVE  j \in page'[q]
    BY <1>4 DEF Quiet, PagesComplete
  <2>2. i \in page[q] /\ j \in page[q]
    BY <1>4, <2>1 DEF Quiet, PagesComplete
  <2>3. j \in Nat /\ checkpoint \in Nat
    BY DEF TypeOK
  <2> QED BY <1>4, <2>1, <2>2, <2>3 DEF Quiet
<1>5. ASSUME NEW p \in Pullers, Dispatch(p) PROVE PagesComplete'
  BY <1>5 DEF Dispatch, PagesComplete, source, tables
<1>6. ASSUME NEW p \in Pullers, Pull(p) PROVE PagesComplete'
  <2>1. PICK S \in SUBSET Following(before[p]) :
          /\ \A i \in S, j \in Following(before[p]) : j < i => j \in S
          /\ page' = [page EXCEPT ![p] = S]
    BY <1>6 DEF Pull
  <2>2. kept' = kept /\ checkpoint' = checkpoint
    BY <1>6 DEF Pull, source, tables
  <2>3. \A j \in kept : checkpoint < j => j \in Following(before[p])
    BY DEF Following, TypeOK
  <2>4. page'[p] = S /\ \A q \in Pullers \ {p} : page'[q] = page[q]
    BY <2>1 DEF TypeOK
  <2> QED BY <2>1, <2>2, <2>3, <2>4 DEF PagesComplete
<1>7. ASSUME NEW p \in Pullers, NEW i \in page[p], PutSignedEventWithSyncCheckpoint(p, i)
      PROVE  PagesComplete'
  <2>1. kept' = kept /\ checkpoint' = i /\ page' = [page EXCEPT ![p] = @ \ {i}]
    BY <1>7 DEF PutSignedEventWithSyncCheckpoint, source
  <2>2. i > checkpoint /\ i \in Nat /\ kept \subseteq Nat /\ checkpoint \in Nat
    BY <1>7, PutTakesNext DEF TypeOK
  <2>3. page'[p] = page[p] \ {i} /\ \A q \in Pullers \ {p} : page'[q] = page[q]
    BY <2>1 DEF TypeOK
  <2> QED BY <2>1, <2>2, <2>3 DEF PagesComplete
<1>8. CASE UNCHANGED vars
  BY <1>8 DEF vars, PagesComplete
<1> QED BY <1>1, <1>2, <1>3, <1>4, <1>5, <1>6, <1>7, <1>8, QuietSteps DEF Next, Puller, Process

\* The checkpoint passes over nothing.
LEMMA SkippedStep ==
  TypeOK /\ PagesComplete /\ NothingSkipped /\ [Next]_vars => NothingSkipped'
<1> SUFFICES ASSUME TypeOK, PagesComplete, NothingSkipped, [Next]_vars PROVE NothingSkipped'
  OBVIOUS
<1>1. ASSUME NEW e \in Events, Publish(e) PROVE NothingSkipped'
  <2>1. checkpoint <= Len(published) /\ checkpoint \in Nat /\ kept \subseteq 1 .. Len(published)
    BY DEF TypeOK
  <2>2. \A i \in 1 .. Len(published) : published'[i] = published[i]
    BY <1>1 DEF Publish, TypeOK
  <2> QED BY <1>1, <2>1, <2>2 DEF Publish, NothingSkipped, tables
<1>2. ASSUME NEW i \in kept, Drop(i) PROVE NothingSkipped'
  BY <1>2 DEF Drop, NothingSkipped, tables
<1>3. ASSUME NEW e \in OwnEvents, AppendLocalIdentityEvent(e) PROVE NothingSkipped'
  BY <1>3 DEF AppendLocalIdentityEvent, NothingSkipped, source
<1>4. ASSUME NEW p \in Pullers, NEW i \in page[p], PutSignedEventWithSyncCheckpoint(p, i)
      PROVE  NothingSkipped'
  <2>1. published' = published /\ kept' = kept /\ checkpoint' = i
        /\ stored' = stored \cup {published[i]}
    BY <1>4 DEF PutSignedEventWithSyncCheckpoint, StoredWith, source
  <2>2. \A j \in kept : j > checkpoint => j >= i
    BY <1>4, PutTakesNext
  <2>3. i \in Nat /\ kept \subseteq Nat /\ checkpoint \in Nat
    BY <1>4, PutTakesNext DEF TypeOK
  <2> QED BY <2>1, <2>2, <2>3 DEF NothingSkipped
<1>5. CASE UNCHANGED <<published, kept, checkpoint, stored>>
  BY <1>5 DEF NothingSkipped
<1> QED BY <1>1, <1>2, <1>3, <1>4, <1>5, QuietSteps
      DEF Next, Puller, Process, Quiet, Pull, Dispatch, source, tables, vars

-----------------------------------------------------------------------------
(* The projection of an identity.                                          *)

\* An event that applies and its projection keep each other company.
LEMMA ControlKept ==
  ASSUME TypeOK, ControlMatchesStore, NEW e \in Events, e.kind \in ControlKinds, Applies(e),
         stored' = stored \cup {e}, control' = Controlled(e)
  PROVE  ControlMatchesStore'
<1> USE InboundAssumption
<1>1. e \in SignedEvent /\ e # NoEvent /\ e.epoch \in Nat
  BY DEF SignedEvent
<1>2. stored \subseteq SignedEvent
  BY DEF TypeOK
<1>3. control \in Control
  BY DEF TypeOK
<1>4. CASE e.kind = "created"
  BY <1>1, <1>2, <1>3, <1>4 DEF ControlMatchesStore, Applies, Controlled, Control, SignedEvent
<1>5. CASE e.kind = "authorized"
  BY <1>1, <1>2, <1>3, <1>5 DEF ControlMatchesStore, Applies, Controlled, Control, SignedEvent
<1>6. CASE e.kind = "granted"
  BY <1>1, <1>2, <1>3, <1>6 DEF ControlMatchesStore, Applies, Controlled, Control, SignedEvent
<1>7. CASE e.kind = "revoked"
  BY <1>1, <1>2, <1>3, <1>7 DEF ControlMatchesStore, Applies, Controlled, Control, SignedEvent
<1>8. CASE e.kind = "card"
  BY <1>1, <1>2, <1>3, <1>8 DEF ControlMatchesStore, Applies, Controlled, Control, SignedEvent
<1> QED BY <1>4, <1>5, <1>6, <1>7, <1>8 DEF ControlKinds

\* Every step keeps events and projection together.
LEMMA ControlStep == TypeOK /\ ControlMatchesStore /\ [Next]_vars => ControlMatchesStore'
<1> USE InboundAssumption
<1> SUFFICES ASSUME TypeOK, ControlMatchesStore, [Next]_vars PROVE ControlMatchesStore'
  OBVIOUS
<1>1. ASSUME NEW e \in OwnEvents, AppendLocalIdentityEvent(e) PROVE ControlMatchesStore'
  <2>1. e \in Events /\ e.kind \in ControlKinds
    OBVIOUS
  <2> QED BY <1>1, <2>1, ControlKept DEF AppendLocalIdentityEvent
<1>2. ASSUME NEW p \in Pullers, NEW i \in page[p], PutSignedEventWithSyncCheckpoint(p, i)
      PROVE  ControlMatchesStore'
  <2>1. PICK e \in Events : e = published[i]
    BY DEF TypeOK
  <2>2. stored' = stored \cup {e} /\ control' = ControlAfter(e) /\ Acceptable(e)
    BY <1>2, <2>1 DEF PutSignedEventWithSyncCheckpoint, StoredWith
  <2>3. CASE e.kind \in ControlKinds
    BY <2>2, <2>3, ControlKept DEF ControlAfter, Acceptable
  <2>4. CASE e.kind \notin ControlKinds
    BY <2>2, <2>4 DEF ControlAfter, ControlMatchesStore, ControlKinds
  <2> QED BY <2>3, <2>4
<1>3. CASE UNCHANGED <<stored, control>>
  BY <1>3 DEF ControlMatchesStore
<1> QED BY <1>1, <1>2, <1>3, QuietSteps
      DEF Next, Puller, Process, Quiet, Pull, Dispatch, Publish, Drop, tables, vars

-----------------------------------------------------------------------------
(* The theorems.                                                           *)

\* The invariant holds at the start.
LEMMA InitInv == Init => IInv
BY InitType DEF Init, IInv, TypeOK, NothingSkipped, PagesComplete, ControlMatchesStore,
                EmptyControl

\* The invariant holds throughout.
LEMMA Invariant == Spec => []IInv
<1>1. IInv /\ [Next]_vars => IInv'
  BY TypeStep, PagesStep, SkippedStep, ControlStep DEF IInv
<1> QED BY InitInv, <1>1, PTL DEF Spec

\* Tables, pages and the pullers' variables have their types, for any number of
\* pullers: a puller dispatches only what is stored, and no cursor is ahead of
\* the checkpoint.
THEOREM TypeCorrect == Spec => []TypeOK
BY Invariant, PTL DEF IInv

\* However many tabs pull and stop, and whatever the source drops or sends
\* twice, the checkpoint passes over no record that is still there.
THEOREM NoRecordIsSkipped == Spec => []NothingSkipped
BY Invariant, PTL DEF IInv

\* An identity's projection and its events are written together or not at all.
THEOREM ControlAndStoreAgree == Spec => []ControlMatchesStore
BY Invariant, PTL DEF IInv

\* Each step of the pullers is one of StreamReader or not to be seen there.
LEMMA ReaderStep ==
  ASSUME TypeOK, PagesComplete, [Next]_vars
  PROVE  [Reader!Next]_(Reader!vars)
<1> USE InboundAssumption
<1>1. ASSUME NEW e \in Events, Publish(e) PROVE Reader!Publish
  BY <1>1 DEF Publish, Reader!Publish, tables
<1>2. ASSUME NEW i \in kept, Drop(i) PROVE Reader!Drop
  BY <1>2 DEF Drop, Reader!Drop, tables
<1>3. ASSUME NEW e \in OwnEvents, AppendLocalIdentityEvent(e) PROVE Reader!StoreOwn
  BY <1>3 DEF AppendLocalIdentityEvent, Reader!StoreOwn, source
<1>4. ASSUME NEW p \in Pullers, NEW i \in page[p], PutSignedEventWithSyncCheckpoint(p, i)
      PROVE  Reader!Take
  <2>1. published' = published /\ kept' = kept /\ checkpoint' = i
        /\ stored' = stored \cup {published[i]}
    BY <1>4 DEF PutSignedEventWithSyncCheckpoint, StoredWith, source
  <2>2. i \in DOMAIN published /\ i > checkpoint /\ \A j \in kept : j > checkpoint => j >= i
    BY <1>4, PutTakesNext
  <2> QED BY <2>1, <2>2 DEF Reader!Take
<1>5. CASE UNCHANGED <<published, kept, checkpoint, stored>>
  BY <1>5 DEF Reader!vars
<1> QED BY <1>1, <1>2, <1>3, <1>4, <1>5, QuietSteps
      DEF Next, Puller, Process, Quiet, Pull, Dispatch, source, tables, vars, Reader!Next

\* Any number of pullers together look like one reader that takes the records
\* that are there one after the other, each once.
THEOREM ImplementsReader == Spec => ReaderSpec
<1>1. Init => Reader!Init
  BY DEF Init, Reader!Init
<1>2. IInv /\ [Next]_vars => [Reader!Next]_(Reader!vars)
  BY ReaderStep DEF IInv
<1> QED BY <1>1, <1>2, Invariant, PTL DEF Spec, ReaderSpec, Reader!Spec
=============================================================================
