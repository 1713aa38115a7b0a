----------------------------- MODULE DeviceProofs -----------------------------
(***************************************************************************)
(* What a device keeps by itself: BudgetAccounts of SendBudget, for any    *)
(* budget, window, clock and batches, OneIdentity and NothingIsUndone of   *)
(* DeviceIdentity, for any tabs and epochs, RowsBehindLog, RebuildHeals    *)
(* and OnlyOldRebuildsRegress of Mailbox, for any events, rebuilds and     *)
(* sweeps, KeptByItsParties, for any events, devices and logs,             *)
(* ProjectionsHeal, for any mailbox and user data root, ReplicasAgree, for *)
(* any receipts and events of a thread, in any order, and VerdictsAreKept  *)
(* and DevicesAreRebuilt of IdentityAuthority, for any control events, and *)
(* MlsForksAreSettledByContent of MlsGroup, for any controls of a group,   *)
(* and NothingGoesBack, for any mailbox, group and tabs.                   *)
(*                                                                         *)
(* The counters of the budget add up because only one run is under way,    *)
(* because it holds what it has reserved until it gives it back or spends  *)
(* it, and because the window is rolled by a reservation alone, of a run   *)
(* that holds nothing yet.                                                 *)
(*                                                                         *)
(* Tabs agree on one identity because the record, once it is written,      *)
(* keeps its key and the wrap key it has: a tab that has neither yet       *)
(* writes what is missing in one transaction and then reads it back. What  *)
(* an emission was built from is either what is there still, or its epoch  *)
(* has been passed and it is not taken.                                    *)
(*                                                                         *)
(* The rows of the mailbox are a fold of its log, in the order of dates    *)
(* and ids, or what events in the order of their arrival have made of it.  *)
(* That the fold of a part of the log is what Expected reads off that      *)
(* part without folding it (ReplayIsExpected) is proved of its last        *)
(* event: of the parts of which it is not so one would be smallest, and    *)
(* without its last event it is so. A row that is no further than the log  *)
(* stays so under each event, and a rebuild replaces it by what a part of  *)
(* the log says, which is no further than what the whole log says. Of the  *)
(* user data root it is the same (UdrReplayIsUdrOf).                       *)
(*                                                                         *)
(* What a device shows of a route or a thread is read off the set of what  *)
(* it has taken, without an order: that is the invariant of each           *)
(* (FollowsReceipts, FollowsEvents), and two who have taken the same show  *)
(* the same.                                                               *)
(*                                                                         *)
(* The authority of an identity is folded twice, as its events arrive and  *)
(* by their dates. Every event about a device that takes effect has a      *)
(* later epoch than all before it, in both orders, so that both give what  *)
(* the latest epoch says (EpochsSay), if none is passed over because its   *)
(* device is revoked already; by date it is also what the last word says   *)
(* (DatesSay).                                                             *)
(*                                                                         *)
(* A group whose forks are settled has the lowest rival for its head       *)
(* (HeadIs) because its queue holds nothing of the epochs to come, so that *)
(* each fork is of the head and one rival, and is settled at once.         *)
(***************************************************************************)
EXTENDS MCDevice, FiniteSetTheorems, WellFoundedInduction, TLAPS

Tally == [entries: Nat, runs: Nat]

\* The counters, and what a run holds where.
CountersTyped ==
  /\ sbEntries \in Nat /\ sbRuns \in Nat
  /\ sbSpent \in Tally /\ sbLost \in Tally
  /\ sbRun.held > 0 <=> sbRun.at \in {"gate", "batch"}

SInv == SendTypeOK /\ CountersTyped /\ BudgetAccounts

-----------------------------------------------------------------------------
\* At first nothing is spent or held.
LEMMA SendInitInv == SendInit => SInv
BY SendAssumption
   DEF SendAssumption, SendInit, SInv, SendTypeOK, CountersTyped, BudgetAccounts, Idle, Nothing,
       Tally

\* What a reservation finds is what is accounted for, by itself or in the window before.
LEMMA CountersNow ==
  ASSUME SInv
  PROVE  /\ RunsNow \in Nat /\ EntriesNow \in Nat /\ LastNow \in Nat \cup {Never}
         /\ RunsNow <= MaxRuns /\ EntriesNow <= MaxEntries
BY SendAssumption
   DEF SendAssumption, SInv, SendTypeOK, CountersTyped, BudgetAccounts, RunsNow, EntriesNow, LastNow

\* A run holds nothing when its delivery is over, nor when it has ended, which counts as a
\* failure or clears them.
LEMMA RunEnds ==
  ASSUME SInv, Completes \/ Fails \/ Delivered
  PROVE  /\ sbRun' \in [at: {"idle", "reload"}, held: {0}]
         /\ sbFailures' \in 0..MaxFailures
         /\ sbRetryAt' \in Nat \cup {Never}
<1>1. CASE Completes
  BY <1>1, SendAssumption DEF SendAssumption, Completes, Idle
<1>2. CASE Fails
  <2>1. sbFailures' \in 0..MaxFailures
    BY <1>2, SendAssumption DEF SendAssumption, Fails, SInv, SendTypeOK
  <2>2. RetryDelay(sbFailures') \in Nat
    BY <2>1, SendAssumption DEF SendAssumption
  <2>3. sbRetryAt' \in Nat
    BY <1>2, <2>2 DEF Fails, SInv, SendTypeOK
  <2> QED BY <1>2, <2>1, <2>3 DEF Fails, Idle
<1>3. CASE Delivered
  BY <1>3 DEF Delivered, Idle, SInv, SendTypeOK
<1> QED BY <1>1, <1>2, <1>3

\* A reservation is within the budget of the window it is made in, which it may begin.
LEMMA ReservationKeeps ==
  ASSUME SInv, NEW entries \in BatchSizes, ReserveBatch(entries)
  PROVE  SInv'
<1>1. /\ entries \in Nat /\ entries > 0 /\ entries <= MaxEntries
      /\ sbRun.held = 0 /\ sbNow \in Nat
  BY SendAssumption
     DEF SendAssumption, SInv, SendTypeOK, CountersTyped, ReserveBatch
<1>2. /\ sbRuns' = RunsNow + 1 /\ RunsNow + 1 <= MaxRuns
      /\ sbEntries' = EntriesNow + entries /\ EntriesNow + entries <= MaxEntries
      /\ sbLast' = sbNow /\ sbWindow' \in {sbNow, sbWindow}
      /\ sbRun' = [at |-> "gate", held |-> entries]
      /\ UNCHANGED <<sbFailures, sbRetryAt, sbNow>>
  BY DEF ReserveBatch, Reserve, RollWindow, Accepts
<1>3. SendTypeOK'
  BY <1>1, <1>2 DEF SInv, SendTypeOK
<1>4. CASE Rolls
  <2>1. /\ sbSpent' = Nothing /\ sbLost' = Nothing
        /\ RunsNow = 0 /\ EntriesNow = 0
    BY <1>4 DEF ReserveBatch, Reserve, RollWindow, RunsNow, EntriesNow
  <2> QED BY <1>1, <1>2, <1>3, <2>1 DEF SInv, CountersTyped, BudgetAccounts, Nothing, Tally
<1>5. CASE ~Rolls
  <2>1. /\ sbSpent' = sbSpent /\ sbLost' = sbLost
        /\ RunsNow = sbRuns /\ EntriesNow = sbEntries
    BY <1>5 DEF ReserveBatch, Reserve, RollWindow, RunsNow, EntriesNow
  <2> QED BY <1>1, <1>2, <1>3, <2>1 DEF SInv, CountersTyped, BudgetAccounts, Tally
<1> QED BY <1>4, <1>5

\* A run that is deferred may begin a window as well.
LEMMA DeferralKeeps ==
  ASSUME SInv, NEW entries \in BatchSizes, BudgetPauses(entries)
  PROVE  SInv'
<1>1. /\ sbRun.held = 0 /\ sbNow \in Nat
      /\ LastNow \in Nat \cup {Never} /\ RunsNow <= MaxRuns /\ EntriesNow <= MaxEntries
  BY CountersNow, SendAssumption
     DEF SendAssumption, SInv, SendTypeOK, CountersTyped, BudgetPauses
<1>2. /\ sbRuns' = RunsNow /\ sbEntries' = EntriesNow /\ sbLast' = LastNow
      /\ sbWindow' \in {sbNow, sbWindow} /\ sbNow' = sbNow
  BY DEF BudgetPauses, Defer, RollWindow
<1>3. /\ sbRun' \in [at: {"idle", "reload"}, held: {0}]
      /\ sbFailures' \in 0..MaxFailures /\ sbRetryAt' \in Nat \cup {Never}
  BY RunEnds DEF BudgetPauses
<1>4. SendTypeOK'
  BY <1>1, <1>2, <1>3, SendAssumption DEF SendAssumption, SInv, SendTypeOK
<1>5. CASE Rolls
  <2>1. /\ sbSpent' = Nothing /\ sbLost' = Nothing
        /\ RunsNow = 0 /\ EntriesNow = 0
    BY <1>5 DEF BudgetPauses, Defer, RollWindow, RunsNow, EntriesNow
  <2> QED BY <1>1, <1>2, <1>3, <1>4, <2>1
          DEF SInv, CountersTyped, BudgetAccounts, Nothing, Tally
<1>6. CASE ~Rolls
  <2>1. /\ sbSpent' = sbSpent /\ sbLost' = sbLost
        /\ RunsNow = sbRuns /\ EntriesNow = sbEntries
    BY <1>6 DEF BudgetPauses, Defer, RollWindow, RunsNow, EntriesNow
  <2> QED BY <1>1, <1>2, <1>3, <1>4, <2>1
          DEF SInv, CountersTyped, BudgetAccounts, Tally
<1> QED BY <1>5, <1>6

-----------------------------------------------------------------------------
\* Every step of the controller and of its budget keeps the accounts.
LEMMA SendStepInv == SInv /\ [SendNext]_sendVars => SInv'
<1> SUFFICES ASSUME SInv, [SendNext]_sendVars PROVE SInv'
  OBVIOUS
<1> USE SendAssumption DEF SendAssumption, SInv, SendTypeOK, CountersTyped, BudgetAccounts,
                           Tally, budgetVars
<1>1. CASE RequestSync
  BY <1>1 DEF RequestSync, Idle
<1>2. CASE DeliveryBlocked \/ ReloadEnds \/ LoadRejects
  <2>1. /\ sbRun' \in [at: {"idle", "reload"}, held: {0}]
        /\ sbFailures' \in 0..MaxFailures /\ sbRetryAt' \in Nat \cup {Never}
    BY <1>2, RunEnds DEF DeliveryBlocked, ReloadEnds, LoadRejects
  <2> QED BY <1>2, <2>1 DEF DeliveryBlocked, ReloadEnds, LoadRejects
<1>3. ASSUME NEW entries \in BatchSizes, ReserveBatch(entries) \/ BudgetPauses(entries)
      PROVE  SInv'
  BY <1>3, ReservationKeeps, DeferralKeeps
<1>4. CASE GateLetsThrough
  BY <1>4 DEF GateLetsThrough
<1>5. CASE GateDenies
  <2>1. /\ sbRun' \in [at: {"idle", "reload"}, held: {0}]
        /\ sbFailures' \in 0..MaxFailures /\ sbRetryAt' \in Nat \cup {Never}
    BY <1>5, RunEnds DEF GateDenies
  <2> QED BY <1>5, <2>1 DEF GateDenies, Refund
<1>6. ASSUME NEW attempted \in 0..MaxEntries, BatchEnds(attempted)
      PROVE  SInv'
  <2>1. /\ sbRun' \in [at: {"idle", "reload"}, held: {0}]
        /\ sbFailures' \in 0..MaxFailures /\ sbRetryAt' \in Nat \cup {Never}
    BY <1>6, RunEnds DEF BatchEnds
  <2> QED BY <1>6, <2>1 DEF BatchEnds, Refund
<1>7. CASE BatchRejects
  <2>1. /\ sbRun' \in [at: {"idle", "reload"}, held: {0}]
        /\ sbFailures' \in 0..MaxFailures /\ sbRetryAt' \in Nat \cup {Never}
    BY <1>7, RunEnds DEF BatchRejects
  <2> QED BY <1>7, <2>1 DEF BatchRejects
<1>8. CASE ClockMoves \/ UNCHANGED sendVars
  BY <1>8 DEF ClockMoves, sendVars
<1> QED BY <1>1, <1>2, <1>3, <1>4, <1>5, <1>6, <1>7, <1>8 DEF SendNext

\* The invariant of the budget holds at all times.
LEMMA SendInvariant == SendSpec => []SInv
BY SendInitInv, SendStepInv, PTL DEF SendSpec

\* The state of the budget and of the controller keeps its types.
THEOREM SendTypeCorrect == SendSpec => []SendTypeOK
<1>1. SInv => SendTypeOK
  BY DEF SInv
<1> QED BY <1>1, SendInvariant, PTL

\* However the clock is set, and however long a run waits for the gate or for its batch,
\* the counters are what was attempted, what was lost and what is held.
THEOREM SendBudgetAccounts == SendSpec => []BudgetAccounts
<1>1. SInv => BudgetAccounts
  BY DEF SInv
<1> QED BY <1>1, SendInvariant, PTL

\* The budget that the gate or the batch gives back is never more than is reserved: the
\* guards of a refund hold whenever a run that holds something ends.
THEOREM RefundsAreCovered ==
  SendSpec => [](sbRun.held > 0 => sbRuns >= 1 /\ sbEntries >= sbRun.held)
<1>1. SInv => (sbRun.held > 0 => sbRuns >= 1 /\ sbEntries >= sbRun.held)
  BY DEF SInv, SendTypeOK, CountersTyped, BudgetAccounts, Tally
<1> QED BY <1>1, SendInvariant, PTL

-----------------------------------------------------------------------------
(* The identity of the device.                                             *)

\* Where a tab is, and what it has read there.
TabFollows(t) ==
  /\ diTab[t] = "prepared" => diSession[t] = [key |-> t, wrap |-> t]
  /\ diTab[t] \in {"restoring", "healing", "open"} =>
       diRow # NoRecord /\ diSession[t].key = diRow.key
  /\ diTab[t] = "restoring" => diSession[t].wrap \in {NoName, diRow.wrap}
  /\ diTab[t] = "open" => diSession[t] = diRow /\ diRow.wrap # NoName

\* The record, the key that opens it and the wrap key that is published.
RowIsOne ==
  /\ diRow = NoRecord => diKeys = {}
  /\ diRow # NoRecord => diRow.key # NoName /\ diKeys = {diRow.key}
  /\ diDevice[Self].wrap \in {NoName, diRow.wrap}

\* What a tab has read of the registry is of an epoch that has been; if no other has come
\* since, it is still so.
ViewsFollow ==
  /\ diView \in [DiTabs -> SUBSET RegistryView]
  /\ \A t \in DiTabs :
       /\ diView[t] # NoView => diTab[t] = "open"
       /\ \A view \in diView[t] :
            /\ diView[t] = {view} /\ view.epoch <= diEpoch
            /\ view.epoch = diEpoch => view.device = diDevice

DiInv == DiTypeOK /\ (\A t \in DiTabs : TabFollows(t)) /\ RowIsOne /\ ViewsFollow

\* At first there is no identity, or one from before wrap keys.
LEMMA DiInitInv == DiInit => DiInv
BY DiAssumption
   DEF DiAssumption, DiInit, DiInv, DiTypeOK, TabFollows, RowIsOne, ViewsFollow, NoRecord,
       NoView, DeviceRecord, Names, Published, RegistryView

\* The steps of a tab towards its session.
LEMMA SessionStepsKeepInv ==
  ASSUME DiInv, NEW t \in DiTabs,
         FindIdentity(t) \/ CommitIdentity(t) \/ AdoptIdentity(t) \/ RestoreSession(t)
         \/ HealWrap(t) \/ CloseTab(t)
  PROVE  DiInv'
<1> USE DiAssumption DEF DiAssumption, DiInv
<1>1. t # NoName /\ t \in Names /\ [key |-> t, wrap |-> t] # NoRecord
  BY DEF Names, NoRecord
<1>2. CASE FindIdentity(t)
  <2>1. DiTypeOK'
    BY <1>1, <1>2 DEF FindIdentity, Moves, Has, DiTypeOK, DeviceRecord
  <2>2. ASSUME NEW u \in DiTabs
        PROVE  TabFollows(u)'
    BY <1>1, <1>2 DEF FindIdentity, Moves, Has, DiTypeOK, TabFollows, DeviceRecord
  <2>3. RowIsOne' /\ ViewsFollow'
    BY <1>2 DEF FindIdentity, Moves, Has, DiTypeOK, RowIsOne, ViewsFollow
  <2> QED BY <2>1, <2>2, <2>3
<1>3. CASE CommitIdentity(t)
  <2>1. diRow' = [key |-> t, wrap |-> t] /\ diKeys' = {t}
    BY <1>3 DEF CommitIdentity, TabFollows, RowIsOne
  <2>2. DiTypeOK'
    BY <1>1, <1>3, <2>1 DEF CommitIdentity, Moves, DiTypeOK, DeviceRecord
  <2>3. ASSUME NEW u \in DiTabs
        PROVE  TabFollows(u)'
    BY <1>1, <1>3, <2>1 DEF CommitIdentity, Moves, DiTypeOK, TabFollows
  <2>4. RowIsOne' /\ ViewsFollow'
    BY <1>1, <1>3, <2>1 DEF CommitIdentity, Moves, DiTypeOK, RowIsOne, ViewsFollow, NoRecord
  <2> QED BY <2>2, <2>3, <2>4
<1>4. CASE AdoptIdentity(t)
  <2>1. DiTypeOK'
    BY <1>4 DEF AdoptIdentity, Moves, Has, DiTypeOK
  <2>2. ASSUME NEW u \in DiTabs
        PROVE  TabFollows(u)'
    BY <1>4 DEF AdoptIdentity, Moves, Has, DiTypeOK, TabFollows
  <2>3. RowIsOne' /\ ViewsFollow'
    BY <1>4 DEF AdoptIdentity, Moves, Has, DiTypeOK, RowIsOne, ViewsFollow
  <2> QED BY <2>1, <2>2, <2>3
<1>5. CASE RestoreSession(t)
  <2>1. DiTypeOK'
    BY <1>5 DEF RestoreSession, Moves, DiTypeOK
  <2>2. ASSUME NEW u \in DiTabs
        PROVE  TabFollows(u)'
    <3>1. diSession[t].wrap # NoName => diSession[t] = diRow
      BY <1>5 DEF RestoreSession, DiTypeOK, TabFollows, DeviceRecord
    <3> QED BY <1>5, <3>1 DEF RestoreSession, Moves, DiTypeOK, TabFollows
  <2>3. RowIsOne' /\ ViewsFollow'
    BY <1>5 DEF RestoreSession, Moves, DiTypeOK, RowIsOne, ViewsFollow
  <2> QED BY <2>1, <2>2, <2>3
<1>6. CASE HealWrap(t)
  <2>1. /\ diRow' \in DeviceRecord /\ diRow'.key = diRow.key /\ diRow # NoRecord
        /\ diRow'.wrap # NoName /\ (diRow.wrap # NoName => diRow' = diRow)
    BY <1>1, <1>6 DEF HealWrap, Healed, DiTypeOK, DeviceRecord, TabFollows
  <2>2. diRow' # NoRecord
    BY <2>1 DEF NoRecord
  <2>3. DiTypeOK'
    BY <1>6, <2>1 DEF HealWrap, Moves, Has, DiTypeOK
  <2>4. ASSUME NEW u \in DiTabs
        PROVE  TabFollows(u)'
    <3>1. u = t => diTab'[u] = "open" /\ diSession'[u] = diRow'
      BY <1>6 DEF HealWrap, Moves, Has, DiTypeOK
    <3>2. u # t => diTab'[u] = diTab[u] /\ diSession'[u] = diSession[u]
      BY <1>6 DEF HealWrap, Moves, Has, DiTypeOK
    <3> QED BY <2>1, <2>2, <3>1, <3>2 DEF TabFollows
  <2>5. RowIsOne' /\ ViewsFollow'
    BY <1>6, <2>1, <2>2 DEF HealWrap, Moves, Has, DiTypeOK, RowIsOne, ViewsFollow
  <2> QED BY <2>3, <2>4, <2>5
<1>7. CASE CloseTab(t)
  <2>1. DiTypeOK'
    BY <1>7 DEF CloseTab, Moves, Has, DiTypeOK, NoView, NoRecord, DeviceRecord
  <2>2. ASSUME NEW u \in DiTabs
        PROVE  TabFollows(u)'
    BY <1>7 DEF CloseTab, Moves, Has, DiTypeOK, TabFollows
  <2>3. RowIsOne' /\ ViewsFollow'
    BY <1>7 DEF CloseTab, Moves, Has, DiTypeOK, RowIsOne, ViewsFollow, NoView
  <2> QED BY <2>1, <2>2, <2>3
<1> QED BY <1>2, <1>3, <1>4, <1>5, <1>6, <1>7

\* The registry moves to a later epoch or stays; what was read of one before stays behind.
LEMMA ViewsFallBehind ==
  ASSUME DiInv, diView' \in [DiTabs -> SUBSET RegistryView], diEpoch' \in Nat,
         diEpoch' > diEpoch, UNCHANGED diTab,
         \A u \in DiTabs : diView'[u] \in {diView[u], NoView}
  PROVE  ViewsFollow'
<1> SUFFICES ASSUME NEW u \in DiTabs
             PROVE  /\ diView'[u] # NoView => diTab[u] = "open"
                    /\ \A view \in diView'[u] :
                         diView'[u] = {view} /\ view.epoch < diEpoch'
  BY DEF ViewsFollow, RegistryView
<1>1. \A view \in diView[u] : view.epoch \in 0..MaxDiEpoch
  BY DEF DiInv, DiTypeOK, RegistryView
<1> QED BY <1>1, DiAssumption DEF DiInv, DiTypeOK, ViewsFollow, NoView, DiAssumption

\* What a tab reads is what is there.
LEMMA ReadProjectionKeepsInv ==
  ASSUME DiInv, NEW t \in DiTabs, ReadProjection(t)
  PROVE  DiInv'
<1>1. [epoch |-> diEpoch, device |-> diDevice] \in RegistryView
  BY DEF DiInv, DiTypeOK, RegistryView
<1>2. DiTypeOK'
  BY <1>1 DEF DiInv, DiTypeOK, ReadProjection, ViewsFollow
<1>3. ViewsFollow'
  BY <1>1, DiAssumption DEF DiAssumption, DiInv, DiTypeOK, ReadProjection, ViewsFollow
<1>4. (\A u \in DiTabs : TabFollows(u)') /\ RowIsOne'
  BY DEF DiInv, ReadProjection, TabFollows, RowIsOne
<1> QED BY <1>2, <1>3, <1>4 DEF DiInv

\* An event that the registry takes is of the next epoch, and what it was built from is
\* what was there.
LEMMA TakenIsCurrent ==
  ASSUME DiInv, NEW t \in DiTabs, NEW view \in diView[t], IsTaken(view.epoch + 1)
  PROVE  /\ view.epoch = diEpoch /\ view.device = diDevice /\ diEpoch \in Nat
         /\ diTab[t] = "open"
<1>1. view.epoch \in 0..MaxDiEpoch /\ view.epoch <= diEpoch /\ diEpoch \in 0..MaxDiEpoch
  BY DEF DiInv, DiTypeOK, RegistryView, ViewsFollow
<1> QED BY <1>1, DiAssumption DEF DiAssumption, IsTaken, DiInv, ViewsFollow, NoView

\* What the registry shows of a device after one more event.
LEMMA RegistryMoves ==
  ASSUME DiInv, NEW d \in {Self, Peer}, NEW device \in Published, diEpoch < MaxDiEpoch,
         diEpoch' = diEpoch + 1, diDevice' = [diDevice EXCEPT ![d] = device],
         d = Self => device.wrap \in {NoName, diRow.wrap},
         UNCHANGED <<diRow, diKeys, diTab, diSession>>,
         diView' \in [DiTabs -> SUBSET RegistryView],
         \A u \in DiTabs : diView'[u] \in {diView[u], NoView}
  PROVE  DiInv'
<1>1. diEpoch \in Nat /\ diEpoch' \in 0..MaxDiEpoch
  BY DiAssumption DEF DiAssumption, DiInv, DiTypeOK
<1>2. DiTypeOK'
  BY <1>1 DEF DiInv, DiTypeOK
<1>3. ViewsFollow'
  BY <1>1, ViewsFallBehind
<1>4. (\A u \in DiTabs : TabFollows(u)') /\ RowIsOne'
  BY DiAssumption DEF DiAssumption, DiInv, DiTypeOK, TabFollows, RowIsOne
<1> QED BY <1>2, <1>3, <1>4 DEF DiInv

\* The emissions of a tab: what is published is the wrap key of the record.
LEMMA EmissionsKeepInv ==
  ASSUME DiInv, NEW t \in DiTabs, PublishWrap(t) \/ RotatePeer(t) \/ EmitNothing(t)
  PROVE  DiInv'
<1>1. /\ diView' = [diView EXCEPT ![t] = NoView]
      /\ UNCHANGED <<diRow, diKeys, diTab, diSession>>
  BY DEF PublishWrap, RotatePeer, EmitNothing, EmissionEnds
<1>2. /\ diView' \in [DiTabs -> SUBSET RegistryView]
      /\ \A u \in DiTabs : diView'[u] \in {diView[u], NoView}
  BY <1>1 DEF DiInv, ViewsFollow, NoView
<1>3. CASE PublishWrap(t)
  <2>1. PICK view \in diView[t] :
          /\ view.epoch < MaxDiEpoch /\ IsTaken(view.epoch + 1) /\ diEpoch' = view.epoch + 1
          /\ diDevice' = [diDevice EXCEPT ![Self] = [@ EXCEPT !.status = "active",
                                                             !.wrap = diSession[t].wrap]]
    BY <1>3 DEF PublishWrap
  <2>2. view.epoch = diEpoch /\ diTab[t] = "open"
    BY <2>1, TakenIsCurrent
  <2>3. diSession[t] = diRow /\ diRow \in DeviceRecord
    BY <2>2 DEF DiInv, TabFollows, DiTypeOK
  <2>4. PICK device : device = [diDevice[Self] EXCEPT !.status = "active", !.wrap = diRow.wrap]
    OBVIOUS
  <2>5. device \in Published /\ device.wrap = diRow.wrap
    BY <2>3, <2>4 DEF DiInv, DiTypeOK, Published, DeviceRecord
  <2>6. diDevice' = [diDevice EXCEPT ![Self] = device]
    BY <2>1, <2>3, <2>4
  <2> QED BY <1>1, <1>2, <2>1, <2>2, <2>5, <2>6, RegistryMoves
<1>4. CASE RotatePeer(t)
  <2>1. PICK view \in diView[t] :
          /\ view.epoch < MaxDiEpoch /\ IsTaken(view.epoch + 1) /\ diEpoch' = view.epoch + 1
          /\ diDevice' = [diDevice EXCEPT ![Peer].key = @ + 1]
    BY <1>4 DEF RotatePeer
  <2>2. view.epoch = diEpoch
    BY <2>1, TakenIsCurrent
  <2>3. PICK device : device = [diDevice[Peer] EXCEPT !.key = @ + 1]
    OBVIOUS
  <2>4. device \in Published
    BY <2>3 DEF DiInv, DiTypeOK, Published
  <2>5. diDevice' = [diDevice EXCEPT ![Peer] = device]
    BY <2>1, <2>3
  <2> QED BY <1>1, <1>2, <2>1, <2>2, <2>4, <2>5, RegistryMoves, DiAssumption DEF DiAssumption
<1>5. CASE EmitNothing(t)
  <2>1. UNCHANGED <<diEpoch, diDevice>>
    BY <1>5 DEF EmitNothing
  <2>2. DiTypeOK'
    BY <1>1, <1>2, <2>1 DEF DiInv, DiTypeOK
  <2>3. ViewsFollow'
    BY <1>1, <1>2, <2>1 DEF DiInv, ViewsFollow, NoView
  <2>4. (\A u \in DiTabs : TabFollows(u)') /\ RowIsOne'
    BY <1>1, <2>1 DEF DiInv, TabFollows, RowIsOne
  <2> QED BY <2>2, <2>3, <2>4 DEF DiInv
<1> QED BY <1>3, <1>4, <1>5

\* What other devices have published comes in.
LEMMA ElsewhereKeepsInv ==
  ASSUME DiInv, NEW d \in {Self, Peer}, AuthorizedElsewhere(d) \/ RevokedElsewhere(d)
  PROVE  DiInv'
<1>1. PICK device :
        /\ AuthorityMoves(d, device)
        /\ \/ \E wrap \in {diDevice[d].wrap, NoName} :
                device = [diDevice[d] EXCEPT !.status = "active", !.wrap = wrap]
           \/ device = [diDevice[d] EXCEPT !.status = "revoked"]
  BY DEF AuthorizedElsewhere, RevokedElsewhere
<1>2. diDevice[d] \in Published
  BY DEF DiInv, DiTypeOK
<1>3. device \in Published /\ device.wrap \in {diDevice[d].wrap, NoName}
  BY <1>1, <1>2 DEF Published
<1>4. d = Self => device.wrap \in {NoName, diRow.wrap}
  BY <1>3 DEF DiInv, RowIsOne
<1>5. /\ diEpoch < MaxDiEpoch /\ diEpoch' = diEpoch + 1
      /\ diDevice' = [diDevice EXCEPT ![d] = device]
      /\ UNCHANGED <<diRow, diKeys, diTab, diSession, diView>>
  BY <1>1 DEF AuthorityMoves
<1>6. diView \in [DiTabs -> SUBSET RegistryView]
  BY DEF DiInv, ViewsFollow
<1> QED BY <1>3, <1>4, <1>5, <1>6, RegistryMoves

\* Every step keeps the invariant.
LEMMA DiNextInv ==
  ASSUME DiInv, [DiNext]_diVars
  PROVE  DiInv'
<1>1. CASE DiNext
  BY <1>1, SessionStepsKeepInv, ReadProjectionKeepsInv, EmissionsKeepInv, ElsewhereKeepsInv
     DEF DiNext
<1>2. CASE UNCHANGED diVars
  BY <1>2 DEF diVars, DiInv, DiTypeOK, TabFollows, RowIsOne, ViewsFollow
<1> QED BY <1>1, <1>2

\* The state of the store and of the tabs is typed, for any tabs and epochs.
THEOREM DiTypeCorrect == DiSpec => []DiTypeOK
<1>1. DiInv => DiTypeOK
  BY DEF DiInv
<1> QED BY <1>1, DiInitInv, DiNextInv, PTL DEF DiSpec

\* All tabs of a device have the one identity of the record, for any number of tabs.
THEOREM DeviceHasOneIdentity == DiSpec => []OneIdentity
<1>1. DiInv => OneIdentity
  BY DEF DiInv, TabFollows, RowIsOne, OneIdentity
<1> QED BY <1>1, DiInitInv, DiNextInv, PTL DEF DiSpec

\* A step brings a revoked device back only if the controller has authorized it anew, and
\* rotates the key that the audit showed.
LEMMA StepUndoesNothing ==
  ASSUME DiInv, DiNext, NEW d \in {Self, Peer}
  PROVE  /\ diDevice[d].status = "revoked" /\ diDevice'[d].status = "active" =>
              AuthorizedElsewhere(d)
         /\ \A t \in DiTabs : \A view \in diView[t] :
              RotatePeer(t) => diDevice'[Peer].key = view.device[Peer].key + 1
<1> USE DiAssumption DEF DiAssumption
<1>1. /\ diDevice \in [{Self, Peer} -> Published]
      /\ \A e \in {Self, Peer} : diDevice[e] \in Published
  BY DEF DiInv, DiTypeOK
<1>2. ASSUME NEW t \in DiTabs, NEW view \in diView[t], RotatePeer(t)
      PROVE  /\ diDevice'[Peer].key = view.device[Peer].key + 1
             /\ diDevice'[d].status = diDevice[d].status
  <2>1. PICK seen \in diView[t] :
          /\ IsTaken(seen.epoch + 1) /\ diDevice' = [diDevice EXCEPT ![Peer].key = @ + 1]
    BY <1>2 DEF RotatePeer
  <2>2. seen = view /\ view.device = diDevice
    BY <2>1, TakenIsCurrent DEF DiInv, ViewsFollow
  <2> QED BY <1>1, <2>1, <2>2 DEF Published
<1>3. ASSUME diDevice[d].status = "revoked", diDevice'[d].status = "active"
      PROVE  AuthorizedElsewhere(d)
  <2>1. diDevice' # diDevice
    BY <1>3
  <2>2. ~ \E t \in DiTabs : RotatePeer(t)
    BY <1>2, <1>3 DEF RotatePeer
  <2>3. ~ \E t \in DiTabs : PublishWrap(t)
    <3> SUFFICES ASSUME NEW t \in DiTabs, PublishWrap(t)
                 PROVE  FALSE
      OBVIOUS
    <3>1. PICK view \in diView[t] :
            /\ view.device[Self].status = "active" /\ IsTaken(view.epoch + 1)
            /\ diDevice' = [diDevice EXCEPT ![Self] = [@ EXCEPT !.status = "active",
                                                               !.wrap = diSession[t].wrap]]
      BY DEF PublishWrap
    <3>2. diDevice[Self].status = "active"
      BY <3>1, TakenIsCurrent
    <3> QED BY <1>1, <1>3, <3>1, <3>2
  <2>4. PICK e \in {Self, Peer} : AuthorizedElsewhere(e) \/ RevokedElsewhere(e)
    BY <2>1, <2>2, <2>3
       DEF DiNext, FindIdentity, CommitIdentity, AdoptIdentity, RestoreSession, HealWrap,
           CloseTab, ReadProjection, EmitNothing
  <2>5. PICK device : diDevice' = [diDevice EXCEPT ![e] = device]
                      /\ (AuthorizedElsewhere(e) \/ device.status = "revoked")
    BY <1>1, <2>4 DEF AuthorizedElsewhere, RevokedElsewhere, AuthorityMoves, Published
  <2> QED BY <1>1, <1>3, <2>5
<1> QED BY <1>2, <1>3

\* An emission undoes nothing that has happened since it was built, for any number of tabs.
THEOREM EmissionsUndoNothing == DiSpec => NothingIsUndone
<1>1. DiInv /\ [DiNext]_diVars =>
        [\A d \in {Self, Peer} :
           /\ diDevice[d].status = "revoked" /\ diDevice'[d].status = "active" =>
                AuthorizedElsewhere(d)
           /\ \A t \in DiTabs : \A view \in diView[t] :
                RotatePeer(t) => diDevice'[Peer].key = view.device[Peer].key + 1]_diVars
  BY StepUndoesNothing
<1> QED BY <1>1, DiInitInv, DiNextInv, PTL DEF DiSpec, NothingIsUndone

-----------------------------------------------------------------------------
(***************************************************************************)
(* Folds of finite sets.                                                   *)
(***************************************************************************)

\* A set of numbers has a lowest.
LEMMA LowestNumber ==
  ASSUME NEW T \in SUBSET Nat, T # {}
  PROVE  \E i \in T : \A j \in T : i <= j
  <1>1. PICK R : R = {ss \in Nat \X Nat : ss[1] < ss[2]} OBVIOUS
  <1>2. IsWellFoundedOn(R, Nat) BY <1>1, NatLessThanWellFounded DEF OpToRel
  <1>3. PICK x \in T : \A y \in T : ~(<<y, x>> \in R) BY <1>2, WFMin
  <1>4. \A y, z \in Nat : y < z => <<y, z>> \in R BY <1>1
  <1>5. \A y \in T : ~(y < x) BY <1>3, <1>4
  <1>6. \A y \in T : x <= y BY <1>5
  <1> QED BY <1>6

\* Among sets, one of the smallest.
LEMMA SmallestSet ==
  ASSUME NEW C, C # {}, \A s \in C : IsFiniteSet(s)
  PROVE  \E s \in C : \A r \in C : Cardinality(s) <= Cardinality(r)
  <1> DEFINE T == {Cardinality(s) : s \in C}
  <1>1. \A s \in C : Cardinality(s) \in Nat BY FS_CardinalityType
  <1>2. T \in SUBSET Nat /\ T # {} BY <1>1
  <1>3. PICK i \in T : \A j \in T : i <= j BY <1>2, LowestNumber
  <1>4. PICK s \in C : i = Cardinality(s) OBVIOUS
  <1> QED BY <1>3, <1>4

\* What a fold makes of the subsets of A, which it takes apart by pick, if step says how
\* it goes on from one element less.
FoldOf(F, A, base, pick, step) ==
  \A s \in SUBSET A :
    F[s] = IF s = {} THEN base ELSE step[<<pick[s], F[s \ {pick[s]}]>>]

\* Every finite set can be folded.
LEMMA FoldExists ==
  ASSUME NEW A, IsFiniteSet(A), NEW R, NEW base \in R,
         NEW pick, \A s \in SUBSET A : s # {} => pick[s] \in s,
         NEW step, \A x \in A, v \in R : step[<<x, v>>] \in R
  PROVE  \E F \in [SUBSET A -> R] : FoldOf(F, A, base, pick, step)
  <1> DEFINE Small(k) == {s \in SUBSET A : Cardinality(s) <= k}
             Folds(k, F) ==
               /\ F \in [Small(k) -> R]
               /\ \A s \in Small(k) :
                    F[s] = IF s = {} THEN base ELSE step[<<pick[s], F[s \ {pick[s]}]>>]
             Can(k) == \E F : Folds(k, F)
  <1>1. \A s \in SUBSET A : IsFiniteSet(s) /\ Cardinality(s) \in Nat
    BY FS_Subset, FS_CardinalityType
  <1>2. \A s \in SUBSET A : s # {} => /\ s \ {pick[s]} \in SUBSET A
                                      /\ Cardinality(s \ {pick[s]}) = Cardinality(s) - 1
    BY <1>1, FS_RemoveElement
  <1>3. \E F : Folds(0, F)
    <2>1. \A s \in Small(0) : s = {} BY <1>1, FS_EmptySet
    <2>2. Folds(0, [s \in Small(0) |-> base]) BY <2>1
    <2> QED BY <2>2
  <1>4. ASSUME NEW k \in Nat, Can(k)
        PROVE  Can(k + 1)
    <2>a. PICK F : Folds(k, F) BY <1>4
    <2> DEFINE H == [s \in Small(k + 1) |->
                       IF s = {} THEN base ELSE step[<<pick[s], F[s \ {pick[s]}]>>]]
    <2>1. \A s \in Small(k + 1) : s # {} => pick[s] \in A /\ s \ {pick[s]} \in Small(k)
      BY <1>1, <1>2
    <2>2. \A s \in Small(k) : s \in Small(k + 1) BY <1>1
    <2>3. \A s \in Small(k) : H[s] = F[s] BY <2>a, <2>2
    <2>4. \A s \in Small(k) : F[s] \in R BY <2>a
    <2>5. H \in [Small(k + 1) -> R] BY <2>1, <2>4
    <2>6. \A s \in Small(k + 1) :
            H[s] = IF s = {} THEN base ELSE step[<<pick[s], H[s \ {pick[s]}]>>]
      BY <2>1, <2>3
    <2> QED BY <2>5, <2>6
  <1>5. Cardinality(A) \in Nat /\ Can(Cardinality(A))
    <2>1. Can(0) BY <1>3
    <2>2. Cardinality(A) \in Nat BY <1>1
    <2> HIDE DEF Can
    <2>3. {k \in Nat : ~Can(k)} = {}
      <3> SUFFICES ASSUME {k \in Nat : ~Can(k)} # {} PROVE FALSE OBVIOUS
      <3>1. PICK k \in {j \in Nat : ~Can(j)} : \A j \in {i \in Nat : ~Can(i)} : k <= j
        <4>1. {j \in Nat : ~Can(j)} \in SUBSET Nat OBVIOUS
        <4> QED BY <4>1, LowestNumber
      <3>2. k # 0 BY <2>1, <3>1
      <3>3. k - 1 \in Nat /\ ~(k <= k - 1) /\ (k - 1) + 1 = k BY <3>1, <3>2
      <3>4. Can(k - 1) BY <3>1, <3>3
      <3>5. Can((k - 1) + 1) BY <1>4, <3>3, <3>4
      <3> QED BY <3>1, <3>3, <3>5
    <2> QED BY <2>2, <2>3
  <1>6. PICK F : Folds(Cardinality(A), F) BY <1>5
  <1>7. Small(Cardinality(A)) = SUBSET A BY <1>1, FS_Subset
  <1> QED BY <1>6, <1>7 DEF FoldOf

-----------------------------------------------------------------------------
(***************************************************************************)
(* The mailbox.                                                            *)
(***************************************************************************)

\* Events with a date and an id of their own.
Dated(L) ==
  /\ IsFiniteSet(L)
  /\ \A e \in L : e.at \in Nat /\ e.id \in Nat
  /\ \A e, f \in L : e.id = f.id => e = f

\* Their order is strict and total.
LEMMA DatedOrder ==
  ASSUME NEW L, Dated(L)
  PROVE  /\ \A e, f, g \in L : Before(e, f) /\ Before(f, g) => Before(e, g)
         /\ \A e, f \in L : e = f \/ Before(e, f) \/ Before(f, e)
         /\ \A e, f \in L : ~(Before(e, f) /\ Before(f, e))
         /\ \A e \in L : ~Before(e, e)
  BY DEF Dated, Before

\* What is not empty has an event that comes last.
LEMMA DatedHasLast ==
  ASSUME NEW L, Dated(L), L # {}
  PROVE  \E e \in L : \A f \in L : f = e \/ Before(f, e)
  <1> DEFINE After(e) == {f \in L : Before(e, f)}
             C == {After(e) : e \in L}
  <1>1. \A e \in L : IsFiniteSet(After(e)) /\ Cardinality(After(e)) \in Nat
    BY FS_Subset, FS_CardinalityType DEF Dated
  <1>2. PICK c \in C : \A d \in C : Cardinality(c) <= Cardinality(d)
    <2>1. C # {} /\ \A c \in C : IsFiniteSet(c) BY <1>1
    <2> HIDE DEF C
    <2> QED BY <2>1, SmallestSet
  <1>3. PICK e \in L : c = After(e) OBVIOUS
  <1>4. ASSUME NEW f \in L, Before(e, f) PROVE FALSE
    <2>1. After(f) \subseteq After(e) /\ f \in After(e) /\ f \notin After(f) BY <1>4, DatedOrder
    <2>2. After(f) # After(e) BY <2>1
    <2>3. Cardinality(After(f)) < Cardinality(After(e)) BY <1>1, <2>1, <2>2, FS_Subset
    <2>4. After(f) \in C BY <1>4
    <2>5. Cardinality(After(e)) <= Cardinality(After(f)) BY <1>2, <1>3, <2>4
    <2> QED BY <1>1, <2>3, <2>5
  <1> QED BY <1>4, DatedOrder

\* A log, or a part of one.
IsLog(L) ==
  /\ L \subseteq MailboxEvent
  /\ IsFiniteSet(L)
  /\ \A e, f \in L : e.id = f.id => e = f

\* A log is such events.
LEMMA LogIsDated ==
  ASSUME NEW L, IsLog(L)
  PROVE  Dated(L)
  BY DEF IsLog, MailboxEvent, Dated

\* The order of the log is strict and total.
LEMMA LogOrder ==
  ASSUME NEW L, IsLog(L)
  PROVE  /\ \A e, f, g \in L : Before(e, f) /\ Before(f, g) => Before(e, g)
         /\ \A e, f \in L : e = f \/ Before(e, f) \/ Before(f, e)
         /\ \A e, f \in L : ~(Before(e, f) /\ Before(f, e))
         /\ \A e \in L : ~Before(e, e)
  BY LogIsDated, DatedOrder

\* A part of a log is one.
LEMMA PartOfLog ==
  ASSUME NEW L, IsLog(L), NEW S \in SUBSET L
  PROVE  IsLog(S)
  BY FS_Subset DEF IsLog

\* It is the one that the replay takes and the one that is newest.
LEMMA LastOfLog ==
  ASSUME NEW L, IsLog(L), L # {}
  PROVE  /\ ReplayedLast(L) \in L
         /\ \A f \in L \ {ReplayedLast(L)} : Before(f, ReplayedLast(L))
         /\ Newest(L) \in L
         /\ \A e \in L : (\A f \in L : f = e \/ Before(f, e)) => Newest(L) = e
  <1>1. PICK e \in L : \A f \in L : f = e \/ Before(f, e) BY LogIsDated, DatedHasLast
  <1>2. \A f \in L \ {e} : Before(f, e) BY <1>1
  <1>3. ReplayedLast(L) \in L /\ \A f \in L \ {ReplayedLast(L)} : Before(f, ReplayedLast(L))
    BY <1>2 DEF ReplayedLast
  <1>4. Newest(L) \in L /\ \A f \in L : f = Newest(L) \/ Before(f, Newest(L))
    BY <1>1 DEF Newest
  <1>5. \A g \in L : (\A f \in L : f = g \/ Before(f, g)) => Newest(L) = g
    BY <1>4, LogOrder
  <1> QED BY <1>3, <1>4, <1>5

\* The stages of an envelope.
LEMMA Ranks ==
  /\ Rank("none") = 0 /\ Rank("queued") = 1 /\ Rank("delivered") = 2
  /\ Rank("fetched") = 3 /\ Rank("expired") = 4
  BY DEF Rank

Stages == {{"delivered", "fetched", "expired"}, {"delivered", "expired"}}

\* What an event makes of each field of a row.
InboxAfter(row, e) ==
  IF e.kind = "queued" THEN Queue(row.inbox, e.target, ToOwner)
  ELSE IF e.kind \in {"delivered", "fetched", "expired"} THEN Advance(row.inbox, e.kind)
  ELSE row.inbox

OutboxAfter(row, e) ==
  IF e.kind = "queued" THEN Queue(row.outbox, e.target, FromOwner)
  ELSE IF e.kind \in {"delivered", "expired"} THEN Advance(row.outbox, e.kind)
  ELSE row.outbox

ReceiptsAfter(row, e) ==
  IF e.kind = "receipt" /\ row.inbox # "none" THEN row.receipts \cup {e} ELSE row.receipts

AckAfter(row, e) == IF e.kind = "ack" /\ row.outbox # "none" THEN e ELSE row.ack

CheckpointAfter(row, e) == IF e.kind = "checkpoint" THEN e ELSE row.checkpoint

\* So does an event to the whole of it.
LEMMA ApplyFields ==
  ASSUME NEW row \in Row, NEW e \in MailboxEvent
  PROVE  /\ ApplyMailboxEvent(row, e) =
              [inbox |-> InboxAfter(row, e), outbox |-> OutboxAfter(row, e),
               receipts |-> ReceiptsAfter(row, e), ack |-> AckAfter(row, e),
               checkpoint |-> CheckpointAfter(row, e)]
         /\ ApplyMailboxEvent(row, e) \in Row
  <1>1. e.kind \in Kinds BY DEF MailboxEvent
  <1>2. ApplyMailboxEvent(row, e) =
          [inbox |-> InboxAfter(row, e), outbox |-> OutboxAfter(row, e),
           receipts |-> ReceiptsAfter(row, e), ack |-> AckAfter(row, e),
           checkpoint |-> CheckpointAfter(row, e)]
    <2>1. CASE e.kind = "queued"
      BY <2>1 DEF Row, ApplyMailboxEvent, applyQueued, InboxAfter, OutboxAfter, ReceiptsAfter,
                  AckAfter, CheckpointAfter
    <2>2. CASE e.kind = "delivered"
      BY <2>2 DEF Row, ApplyMailboxEvent, applyDelivered, InboxAfter, OutboxAfter, ReceiptsAfter,
                  AckAfter, CheckpointAfter
    <2>3. CASE e.kind = "fetched"
      BY <2>3 DEF Row, ApplyMailboxEvent, applyFetched, InboxAfter, OutboxAfter, ReceiptsAfter,
                  AckAfter, CheckpointAfter
    <2>4. CASE e.kind = "expired"
      BY <2>4 DEF Row, ApplyMailboxEvent, applyExpired, InboxAfter, OutboxAfter, ReceiptsAfter,
                  AckAfter, CheckpointAfter
    <2>5. CASE e.kind = "receipt"
      BY <2>5 DEF Row, ApplyMailboxEvent, applyReceipt, InboxAfter, OutboxAfter, ReceiptsAfter,
                  AckAfter, CheckpointAfter
    <2>6. CASE e.kind = "ack"
      BY <2>6 DEF Row, ApplyMailboxEvent, applyAck, InboxAfter, OutboxAfter, ReceiptsAfter,
                  AckAfter, CheckpointAfter
    <2>7. CASE e.kind = "checkpoint"
      BY <2>7 DEF Row, ApplyMailboxEvent, applyCheckpoint, InboxAfter, OutboxAfter, ReceiptsAfter,
                  AckAfter, CheckpointAfter
    <2> QED BY <1>1, <2>1, <2>2, <2>3, <2>4, <2>5, <2>6, <2>7 DEF Kinds
  <1>3. InboxAfter(row, e) \in Status /\ OutboxAfter(row, e) \in Status
    BY DEF InboxAfter, OutboxAfter, Queue, Advance, Status, Row
  <1>4. /\ ReceiptsAfter(row, e) \in SUBSET MailboxEvent
        /\ AckAfter(row, e) \in MailboxEvent \cup {NoEvent}
        /\ CheckpointAfter(row, e) \in MailboxEvent \cup {NoEvent}
    BY DEF ReceiptsAfter, AckAfter, CheckpointAfter, Row
  <1> QED BY <1>2, <1>3, <1>4 DEF Row

\* The stage that a log gives an envelope: what is in the set that it chooses from, and is
\* not before any other stage, is that stage.
LEMMA StatusIs ==
  ASSUME NEW L, NEW t, NEW party, t \in party, Queued(L, t) # {}, NEW kinds \in Stages,
         NEW v \in {"queued"} \cup ({e.kind : e \in Since(L, t)} \cap kinds),
         \A e \in Since(L, t) : e.kind \in kinds => Rank(e.kind) <= Rank(v)
  PROVE  StatusBy(L, t, party, kinds) = v
  <1> DEFINE K == {"queued"} \cup ({e.kind : e \in Since(L, t)} \cap kinds)
             Top(w) == \A e \in Since(L, t) : e.kind \in kinds => Rank(e.kind) <= Rank(w)
  <1>1. StatusBy(L, t, party, kinds) = CHOOSE w \in K : Top(w) BY DEF StatusBy
  <1>2. ASSUME NEW w \in K, Top(w) PROVE w = v
    <2>1. \A k \in K : k = "queued" \/ k \in {"delivered", "fetched", "expired"} BY DEF Stages
    <2>2. w # "queued" => Rank(w) <= Rank(v) BY <1>2
    <2>3. v # "queued" => Rank(v) <= Rank(w) BY <1>2
    <2>4. v \in K BY Zenon
    <2>5. v = "queued" \/ v \in {"delivered", "fetched", "expired"} BY <2>1, <2>4
    <2>6. w = "queued" \/ w \in {"delivered", "fetched", "expired"} BY <2>1
    <2> HIDE DEF K, Top
    <2> QED BY <2>2, <2>3, <2>5, <2>6, Ranks
  <1>3. v \in K /\ Top(v) BY Zenon
  <1> QED BY <1>1, <1>2, <1>3

\* And there is one.
LEMMA StatusBounds ==
  ASSUME NEW L, NEW t, NEW party, t \in party, Queued(L, t) # {}, NEW kinds \in Stages
  PROVE  /\ StatusBy(L, t, party, kinds) \in {"queued"} \cup ({e.kind : e \in Since(L, t)} \cap kinds)
         /\ \A e \in Since(L, t) :
              e.kind \in kinds => Rank(e.kind) <= Rank(StatusBy(L, t, party, kinds))
  <1> DEFINE H == {e.kind : e \in Since(L, t)} \cap kinds
             v == IF "expired" \in H THEN "expired" ELSE IF "fetched" \in H THEN "fetched"
                  ELSE IF "delivered" \in H THEN "delivered" ELSE "queued"
  <1>1. H \subseteq {"delivered", "fetched", "expired"} BY DEF Stages
  <1>2. v \in {"queued"} \cup H OBVIOUS
  <1>3. \A k \in H : Rank(k) <= Rank(v)
    <2> HIDE DEF H
    <2> QED BY <1>1, Ranks
  <1>4. \A e \in Since(L, t) : e.kind \in kinds => Rank(e.kind) <= Rank(v)
    <2>1. \A e \in Since(L, t) : e.kind \in kinds => e.kind \in H OBVIOUS
    <2> QED BY <1>3, <2>1
  <1>5. StatusBy(L, t, party, kinds) = v
    <2>1. v \in {"queued"} \cup ({e.kind : e \in Since(L, t)} \cap kinds) BY <1>2
    <2> HIDE DEF v
    <2> QED BY <1>4, <2>1, StatusIs
  <1> QED BY <1>2, <1>4, <1>5

\* The events about t, of which x is the last.
EndsWith(L, t, x) ==
  /\ IsLog(L) /\ x \in L
  /\ \A e \in L : e.target = t
  /\ \A f \in L \ {x} : Before(f, x)

\* The events of L before its last one, and what that one adds.
LEMMA LastAdds ==
  ASSUME NEW L, NEW t, NEW x, EndsWith(L, t, x), NEW R, R = L \ {x}
  PROVE  /\ Queued(L, t) = Queued(R, t) \cup (IF x.kind = "queued" THEN {x} ELSE {})
         /\ Since(L, t) = Since(R, t) \cup (IF Queued(R, t) # {} THEN {x} ELSE {})
         /\ Queued(R, t) = {} => Since(R, t) = {}
  <1> USE DEF EndsWith
  <1>1. Queued(L, t) = Queued(R, t) \cup (IF x.kind = "queued" THEN {x} ELSE {})
    BY DEF Queued
  <1>2. ASSUME NEW e \in L
        PROVE  e \in Since(L, t) <=> (e \in Since(R, t) \/ (e = x /\ Queued(R, t) # {}))
    <2>1. CASE e = x
      <3>1. \A q \in Queued(R, t) : Before(q, x) BY DEF Queued
      <3>2. ~Before(x, x) BY LogOrder
      <3>3. x \notin Since(R, t) BY DEF Since
      <3> QED BY <1>1, <2>1, <3>1, <3>2, <3>3 DEF Since
    <2>2. CASE e # x
      <3>1. e \in R /\ ~Before(x, e) BY <2>2, LogOrder
      <3> QED BY <1>1, <2>2, <3>1 DEF Since
    <2> QED BY <2>1, <2>2
  <1>3. Since(L, t) \subseteq L /\ Since(R, t) \subseteq L BY DEF Since
  <1>4. Queued(R, t) = {} => Since(R, t) = {} BY DEF Since
  <1> QED BY <1>1, <1>2, <1>3, <1>4

\* What x makes of the stage that R gives an envelope.
StageGrows(L, R, t, x) ==
  \A party : \A kinds \in Stages :
    LET was == StatusBy(R, t, party, kinds)
    IN  /\ was = "none" <=> t \notin party \/ Queued(R, t) = {}
        /\ StatusBy(L, t, party, kinds) =
             IF x.kind = "queued" THEN Queue(was, t, party)
             ELSE IF x.kind \in kinds THEN Advance(was, x.kind)
             ELSE was

\* The last event does so.
LEMMA StatusGrows ==
  ASSUME NEW L, NEW t, NEW x, EndsWith(L, t, x)
  PROVE  StageGrows(L, L \ {x}, t, x)
  <1>a. PICK R : R = L \ {x} OBVIOUS
  <1> SUFFICES StageGrows(L, R, t, x) BY <1>a, Zenon
  <1> SUFFICES ASSUME NEW party, NEW kinds \in Stages
               PROVE  LET was == StatusBy(R, t, party, kinds)
                      IN  /\ was = "none" <=> t \notin party \/ Queued(R, t) = {}
                          /\ StatusBy(L, t, party, kinds) =
                               IF x.kind = "queued" THEN Queue(was, t, party)
                               ELSE IF x.kind \in kinds THEN Advance(was, x.kind)
                               ELSE was
    BY DEF StageGrows
  <1> DEFINE was == StatusBy(R, t, party, kinds)
  <1>1. /\ Queued(L, t) = Queued(R, t) \cup (IF x.kind = "queued" THEN {x} ELSE {})
        /\ Since(L, t) = Since(R, t) \cup (IF Queued(R, t) # {} THEN {x} ELSE {})
        /\ Queued(R, t) = {} => Since(R, t) = {}
    BY <1>a, LastAdds
  <1>2. CASE t \notin party
    BY <1>2 DEF StatusBy, Status, Queue, Advance
  <1>3. CASE t \in party /\ Queued(R, t) = {}
    <2>1. was = "none" BY <1>3 DEF StatusBy
    <2>2. CASE x.kind = "queued"
      <3>1. Queued(L, t) # {} /\ Since(L, t) = {} BY <1>1, <1>3, <2>2
      <3>2. StatusBy(L, t, party, kinds) = "queued" BY <1>3, <3>1, StatusIs
      <3> QED BY <1>3, <2>1, <2>2, <3>2 DEF Queue, Status
    <2>3. CASE x.kind # "queued"
      <3>1. Queued(L, t) = {} BY <1>1, <1>3, <2>3
      <3>2. StatusBy(L, t, party, kinds) = "none" BY <3>1 DEF StatusBy
      <3> QED BY <1>3, <2>1, <2>3, <3>2 DEF Advance, Status
    <2> QED BY <2>2, <2>3
  <1>4. CASE t \in party /\ Queued(R, t) # {}
    <2>1. /\ was \in {"queued"} \cup ({e.kind : e \in Since(R, t)} \cap kinds)
          /\ \A e \in Since(R, t) : e.kind \in kinds => Rank(e.kind) <= Rank(was)
      BY <1>4, StatusBounds
    <2>2. was \in {"queued", "delivered", "fetched", "expired"} BY <2>1 DEF Stages
    <2>3. was \in Status /\ was # "none" BY <2>2 DEF Status
    <2>4. Queued(L, t) # {} /\ Since(L, t) = Since(R, t) \cup {x} BY <1>1, <1>4
    <2>5. "queued" \notin kinds BY DEF Stages
    <2>6. CASE x.kind \in kinds /\ Rank(x.kind) > Rank(was)
      <3>1. x.kind \in {"queued"} \cup ({e.kind : e \in Since(L, t)} \cap kinds) BY <2>4, <2>6
      <3>2. x.kind \in {"delivered", "fetched", "expired"} BY <2>6 DEF Stages
      <3>3. \A e \in Since(R, t) : e.kind \in kinds => e.kind \in {"delivered", "fetched", "expired"}
        BY DEF Stages
      <3>4. \A e \in Since(R, t) : e.kind \in kinds => Rank(e.kind) <= Rank(x.kind)
        BY <2>1, <2>2, <2>6, <3>2, <3>3, Ranks
      <3>5. Rank(x.kind) <= Rank(x.kind) BY <3>2, Ranks
      <3>6. \A e \in Since(L, t) : e.kind \in kinds => Rank(e.kind) <= Rank(x.kind)
        BY <2>4, <3>4, <3>5
      <3>7. StatusBy(L, t, party, kinds) = x.kind BY <1>4, <2>4, <3>1, <3>6, StatusIs
      <3> QED BY <1>4, <2>3, <2>5, <2>6, <3>7 DEF Advance
    <2>7. CASE x.kind \notin kinds \/ ~(Rank(x.kind) > Rank(was))
      <3>1. was \in {"queued"} \cup ({e.kind : e \in Since(L, t)} \cap kinds) BY <2>1, <2>4
      <3>2. x.kind \in kinds => Rank(x.kind) <= Rank(was)
        <4>1. x.kind \in kinds => x.kind \in {"delivered", "fetched", "expired"} BY DEF Stages
        <4> QED BY <2>2, <2>7, <4>1, Ranks
      <3>3. \A e \in Since(L, t) : e.kind \in kinds => Rank(e.kind) <= Rank(was)
        BY <2>1, <2>4, <3>2
      <3>4. StatusBy(L, t, party, kinds) = was
        <4>1. PICK v \in {"queued"} \cup ({e.kind : e \in Since(L, t)} \cap kinds) : v = was
          BY <3>1
        <4>2. \A e \in Since(L, t) : e.kind \in kinds => Rank(e.kind) <= Rank(v) BY <3>3, <4>1
        <4>3. StatusBy(L, t, party, kinds) = v BY <1>4, <2>4, <4>2, StatusIs
        <4> QED BY <4>1, <4>3
      <3> QED BY <1>4, <2>3, <2>5, <2>7, <3>4 DEF Advance, Queue
    <2> QED BY <2>6, <2>7
  <1> QED BY <1>2, <1>3, <1>4

\* What a log says of an envelope is a row, and the last event of it makes the row what
\* it is.
LEMMA ExpectedGrows ==
  ASSUME NEW L, NEW t, NEW x, EndsWith(L, t, x), NEW R, R = L \ {x}, Expected(R, t) \in Row
  PROVE  Expected(L, t) = ApplyMailboxEvent(Expected(R, t), x)
  <1> DEFINE inStages == {"delivered", "fetched", "expired"}
             outStages == {"delivered", "expired"}
             receipts(S) == IF t \in ToOwner THEN OfKind(Since(S, t), "receipt") ELSE {}
             ack(S) == IF t \in FromOwner THEN Newest(OfKind(Since(S, t), "ack")) ELSE NoEvent
             checkpoint(S) == Newest({e \in S : e.target = t /\ e.kind = "checkpoint"})
  <1>b. IsLog(L) /\ x \in L /\ (\A e \in L : e.target = t) /\ \A f \in L \ {x} : Before(f, x)
    BY DEF EndsWith
  <1>1. /\ Queued(L, t) = Queued(R, t) \cup (IF x.kind = "queued" THEN {x} ELSE {})
        /\ Since(L, t) = Since(R, t) \cup (IF Queued(R, t) # {} THEN {x} ELSE {})
        /\ Queued(R, t) = {} => Since(R, t) = {}
    BY LastAdds
  <1>c. StageGrows(L, R, t, x) BY StatusGrows, Zenon
  <1>2. \A S : Expected(S, t) =
                 [inbox |-> StatusBy(S, t, ToOwner, inStages), outbox |-> StatusBy(S, t, FromOwner, outStages),
                  receipts |-> receipts(S), ack |-> ack(S), checkpoint |-> checkpoint(S)]
    BY DEF Expected
  <1>3. x.target = t /\ x \in MailboxEvent /\ IsLog(R) BY <1>b, PartOfLog DEF IsLog
  <1>4. \A S \in SUBSET L : x \in S => Newest(S) = x
    <2> SUFFICES ASSUME NEW S \in SUBSET L, x \in S PROVE Newest(S) = x OBVIOUS
    <2>1. IsLog(S) /\ S # {} BY <1>b, PartOfLog
    <2>2. \A f \in S : f = x \/ Before(f, x) BY <1>b
    <2> QED BY <2>1, <2>2, LastOfLog
  <1>a. PICK row \in Row : row = Expected(R, t) OBVIOUS
  <1>5. /\ row.inbox = StatusBy(R, t, ToOwner, inStages) /\ row.outbox = StatusBy(R, t, FromOwner, outStages)
        /\ row.receipts = receipts(R) /\ row.ack = ack(R) /\ row.checkpoint = checkpoint(R)
    <2> HIDE DEF inStages, outStages, receipts, ack, checkpoint
    <2> QED BY <1>a, <1>2
  <1>6. /\ row.inbox = "none" <=> t \notin ToOwner \/ Queued(R, t) = {}
        /\ StatusBy(L, t, ToOwner, inStages) = InboxAfter(row, x)
    <2>1. inStages \in Stages /\ "queued" \notin inStages BY DEF Stages
    <2> HIDE DEF inStages
    <2>2. LET was == StatusBy(R, t, ToOwner, inStages)
          IN  /\ was = "none" <=> t \notin ToOwner \/ Queued(R, t) = {}
              /\ StatusBy(L, t, ToOwner, inStages) =
                   IF x.kind = "queued" THEN Queue(was, t, ToOwner)
                   ELSE IF x.kind \in inStages THEN Advance(was, x.kind) ELSE was
      BY <2>1, <1>c DEF StageGrows
    <2>3. /\ row.inbox = "none" <=> t \notin ToOwner \/ Queued(R, t) = {}
          /\ StatusBy(L, t, ToOwner, inStages) =
               IF x.kind = "queued" THEN Queue(row.inbox, t, ToOwner)
               ELSE IF x.kind \in inStages THEN Advance(row.inbox, x.kind) ELSE row.inbox
      BY <1>5, <2>2
    <2> QED BY <1>3, <2>3 DEF InboxAfter, inStages
  <1>7. /\ row.outbox = "none" <=> t \notin FromOwner \/ Queued(R, t) = {}
        /\ StatusBy(L, t, FromOwner, outStages) = OutboxAfter(row, x)
    <2>1. outStages \in Stages /\ "queued" \notin outStages BY DEF Stages
    <2> HIDE DEF outStages
    <2>2. LET was == StatusBy(R, t, FromOwner, outStages)
          IN  /\ was = "none" <=> t \notin FromOwner \/ Queued(R, t) = {}
              /\ StatusBy(L, t, FromOwner, outStages) =
                   IF x.kind = "queued" THEN Queue(was, t, FromOwner)
                   ELSE IF x.kind \in outStages THEN Advance(was, x.kind) ELSE was
      BY <2>1, <1>c DEF StageGrows
    <2>3. /\ row.outbox = "none" <=> t \notin FromOwner \/ Queued(R, t) = {}
          /\ StatusBy(L, t, FromOwner, outStages) =
               IF x.kind = "queued" THEN Queue(row.outbox, t, FromOwner)
               ELSE IF x.kind \in outStages THEN Advance(row.outbox, x.kind) ELSE row.outbox
      BY <1>5, <2>2
    <2> QED BY <1>3, <2>3 DEF OutboxAfter, outStages
  <1>8. receipts(L) = ReceiptsAfter(row, x)
    <2>1. CASE t \in ToOwner /\ Queued(R, t) # {} /\ x.kind = "receipt"
      <3>1. OfKind(Since(L, t), "receipt") = OfKind(Since(R, t), "receipt") \cup {x}
        BY <1>1, <2>1 DEF OfKind
      <3> QED BY <1>5, <1>6, <2>1, <3>1 DEF ReceiptsAfter
    <2>2. CASE t \notin ToOwner BY <1>5, <1>6, <2>2 DEF ReceiptsAfter
    <2>3. CASE t \in ToOwner /\ (Queued(R, t) = {} \/ x.kind # "receipt")
      <3>1. OfKind(Since(L, t), "receipt") = OfKind(Since(R, t), "receipt")
        BY <1>1, <2>3 DEF OfKind
      <3> QED BY <1>5, <1>6, <2>3, <3>1 DEF ReceiptsAfter
    <2> QED BY <2>1, <2>2, <2>3
  <1>9. ack(L) = AckAfter(row, x)
    <2>1. CASE t \in FromOwner /\ Queued(R, t) # {} /\ x.kind = "ack"
      <3>1. x \in OfKind(Since(L, t), "ack") /\ OfKind(Since(L, t), "ack") \in SUBSET L
        BY <1>b, <1>1, <2>1 DEF OfKind, Since
      <3>2. Newest(OfKind(Since(L, t), "ack")) = x BY <1>4, <3>1
      <3> QED BY <1>7, <2>1, <3>2 DEF AckAfter
    <2>2. CASE t \notin FromOwner BY <1>5, <1>7, <2>2 DEF AckAfter
    <2>3. CASE t \in FromOwner /\ (Queued(R, t) = {} \/ x.kind # "ack")
      <3>1. OfKind(Since(L, t), "ack") = OfKind(Since(R, t), "ack")
        BY <1>1, <2>3 DEF OfKind
      <3> QED BY <1>5, <1>7, <2>3, <3>1 DEF AckAfter
    <2> QED BY <2>1, <2>2, <2>3
  <1>10. checkpoint(L) = CheckpointAfter(row, x)
    <2>1. CASE x.kind = "checkpoint"
      <3>1. checkpoint(L) = x BY <1>b, <1>3, <1>4, <2>1
      <3> QED BY <2>1, <3>1 DEF CheckpointAfter
    <2>2. CASE x.kind # "checkpoint"
      <3>1. {e \in L : e.target = t /\ e.kind = "checkpoint"}
              = {e \in R : e.target = t /\ e.kind = "checkpoint"}
        BY <2>2
      <3>2. checkpoint(L) = checkpoint(R) BY <3>1
      <3> QED BY <1>5, <2>2, <3>2 DEF CheckpointAfter
    <2> QED BY <2>1, <2>2
  <1> HIDE DEF receipts, ack, checkpoint, inStages, outStages
  <1> QED BY <1>a, <1>2, <1>3, <1>6, <1>7, <1>8, <1>9, <1>10, ApplyFields

\* Logs with the same events of an envelope, before and after it was queued, give it the
\* same stage.
LEMMA SameStatus ==
  ASSUME NEW L, NEW M, NEW t, Queued(L, t) = Queued(M, t), Since(L, t) = Since(M, t),
         NEW party, NEW kinds \in Stages
  PROVE  StatusBy(L, t, party, kinds) = StatusBy(M, t, party, kinds)
  <1>1. CASE t \notin party \/ Queued(L, t) = {} BY <1>1 DEF StatusBy
  <1>2. CASE t \in party /\ Queued(L, t) # {}
    <2>1. PICK v : v = StatusBy(L, t, party, kinds) OBVIOUS
    <2>2. /\ v \in {"queued"} \cup ({e.kind : e \in Since(M, t)} \cap kinds)
          /\ \A e \in Since(M, t) : e.kind \in kinds => Rank(e.kind) <= Rank(v)
      BY <1>2, <2>1, StatusBounds
    <2>3. StatusBy(M, t, party, kinds) = v BY <1>2, <2>2, StatusIs
    <2> QED BY <2>1, <2>3
  <1> QED BY <1>1, <1>2

\* Without events there is no row.
LEMMA NothingExpected ==
  ASSUME NEW t PROVE Expected({}, t) = NoRow /\ NoRow \in Row
  BY DEF Expected, StatusBy, Queued, Since, OfKind, Newest, NoRow, Row, Status

\* The replay of a log in its order gives what the log says of an envelope.
LEMMA ReplayIsExpected ==
  ASSUME NEW S, IsLog(S), NEW t
  PROVE  Replayed(S, t) = Expected(S, t) /\ Expected(S, t) \in Row
  <1> DEFINE A == {e \in S : e.target = t /\ ~Mismatch(e)}
             pick == [s \in SUBSET A |-> ReplayedLast(s)]
             step == [xv \in A \X Row |-> ApplyMailboxEvent(xv[2], xv[1])]
             Steps(F) == F = [s \in SUBSET A |->
                                IF s = {} THEN NoRow
                                ELSE LET x == ReplayedLast(s) IN ApplyMailboxEvent(F[s \ {x}], x)]
             iter == CHOOSE F : Steps(F)
  <1>1. \A s \in SUBSET A : IsLog(s) /\ IsFiniteSet(s) BY PartOfLog DEF IsLog
  <1>2. \A s \in SUBSET A : s # {} => /\ ReplayedLast(s) \in s
                                      /\ \A f \in s \ {ReplayedLast(s)} : Before(f, ReplayedLast(s))
    BY <1>1, LastOfLog
  <1>3. \A e \in A : e \in MailboxEvent /\ e.target = t BY DEF IsLog
  <1>4. \A x \in A, v \in Row : step[<<x, v>>] \in Row BY <1>3, ApplyFields
  <1>5. PICK F \in [SUBSET A -> Row] : FoldOf(F, A, NoRow, pick, step)
    <2>1. IsFiniteSet(A) BY <1>1
    <2>2. \A s \in SUBSET A : s # {} => pick[s] \in s BY <1>2
    <2>3. NoRow \in Row BY NothingExpected
    <2> HIDE DEF A, pick, step
    <2> QED BY <1>4, <2>1, <2>2, <2>3, FoldExists
  <1>6. Steps(F)
    <2>1. ASSUME NEW s \in SUBSET A
          PROVE  F[s] = IF s = {} THEN NoRow
                        ELSE LET x == ReplayedLast(s) IN ApplyMailboxEvent(F[s \ {x}], x)
      <3>1. F[s] = IF s = {} THEN NoRow ELSE step[<<pick[s], F[s \ {pick[s]}]>>]
        BY <1>5 DEF FoldOf
      <3>2. CASE s # {}
        <4>1. pick[s] = ReplayedLast(s) /\ ReplayedLast(s) \in A BY <1>2, <3>2
        <4>2. F[s \ {ReplayedLast(s)}] \in Row BY <1>5
        <4>3. step[<<ReplayedLast(s), F[s \ {ReplayedLast(s)}]>>]
                = ApplyMailboxEvent(F[s \ {ReplayedLast(s)}], ReplayedLast(s))
          BY <4>1, <4>2
        <4> QED BY <3>1, <3>2, <4>1, <4>3, Zenon
      <3> QED BY <3>1, <3>2
    <2> QED BY <1>5, <2>1
  <1>7. Steps(iter) BY <1>6
  <1>8. Replayed(S, t) = iter[A] BY DEF Replayed, MapThenFoldSet
  <1>9. /\ iter[{}] = NoRow
        /\ \A s \in SUBSET A : s # {} =>
             iter[s] = ApplyMailboxEvent(iter[s \ {ReplayedLast(s)}], ReplayedLast(s))
    <2> HIDE DEF iter
    <2> QED BY <1>7
  <1>10. \A s \in SUBSET A : iter[s] = Expected(s, t) /\ Expected(s, t) \in Row
    <2> HIDE DEF iter
    <2> DEFINE Good(s) == iter[s] = Expected(s, t) /\ Expected(s, t) \in Row
    <2>1. Good({}) BY <1>9, NothingExpected
    <2>2. ASSUME NEW s \in SUBSET A, s # {}, Good(s \ {ReplayedLast(s)})
          PROVE  Good(s)
      <3>1. PICK x : x = ReplayedLast(s) OBVIOUS
      <3>2. EndsWith(s, t, x) BY <1>1, <1>2, <1>3, <2>2, <3>1 DEF EndsWith
      <3>3. Expected(s \ {x}, t) \in Row /\ iter[s \ {x}] = Expected(s \ {x}, t) BY <2>2, <3>1
      <3>4. Expected(s, t) = ApplyMailboxEvent(Expected(s \ {x}, t), x) BY <3>2, <3>3, ExpectedGrows
      <3>5. iter[s] = ApplyMailboxEvent(iter[s \ {x}], x) BY <1>9, <2>2, <3>1
      <3>6. x \in MailboxEvent BY <1>3, <3>2 DEF EndsWith
      <3>7. iter[s] = Expected(s, t) BY <3>3, <3>4, <3>5, Zenon
      <3>8. Expected(s, t) \in Row BY <3>3, <3>4, <3>6, ApplyFields
      <3> QED BY <3>7, <3>8
    <2> HIDE DEF Good
    <2> DEFINE C == {s \in SUBSET A : ~Good(s)}
    <2>3. C = {}
      <3> SUFFICES ASSUME C # {} PROVE FALSE OBVIOUS
      <3>1. \A s \in C : IsFiniteSet(s) BY <1>1
      <3>2. PICK s \in C : \A r \in C : Cardinality(s) <= Cardinality(r)
        <4> HIDE DEF C
        <4> QED BY <3>1, SmallestSet
      <3>3. s \in SUBSET A /\ s # {} /\ ~Good(s) BY <2>1, <3>2
      <3>4. /\ Cardinality(s \ {ReplayedLast(s)}) = Cardinality(s) - 1
            /\ Cardinality(s) \in Nat
        BY <1>1, <1>2, <3>3, FS_RemoveElement, FS_CardinalityType
      <3>5. s \ {ReplayedLast(s)} \notin C BY <3>2, <3>4
      <3>6. Good(s \ {ReplayedLast(s)}) BY <3>3, <3>5
      <3> QED BY <2>2, <3>3, <3>6
    <2> QED BY <2>3 DEF Good
  <1>11. iter[A] = Expected(A, t) /\ Expected(A, t) \in Row
    <2> HIDE DEF iter
    <2> QED BY <1>10
  <1>12. Expected(A, t) = Expected(S, t)
    <2>1. {e \in A : e.target = t /\ e.kind = "checkpoint"}
            = {e \in S : e.target = t /\ e.kind = "checkpoint"}
      BY DEF Mismatch
    <2>2. CASE t \notin ToOwner \cup FromOwner
      BY <2>1, <2>2 DEF Expected, StatusBy
    <2>3. CASE t \in ToOwner \cup FromOwner
      <3>1. A = {e \in S : e.target = t} BY <2>3 DEF Mismatch
      <3>2. Queued(A, t) = Queued(S, t) /\ Since(A, t) = Since(S, t) BY <3>1 DEF Queued, Since
      <3> HIDE DEF A
      <3>3. \A party : \A kinds \in Stages :
              StatusBy(A, t, party, kinds) = StatusBy(S, t, party, kinds)
        BY <3>2, SameStatus
      <3>4. /\ StatusBy(A, t, ToOwner, {"delivered", "fetched", "expired"})
                 = StatusBy(S, t, ToOwner, {"delivered", "fetched", "expired"})
            /\ StatusBy(A, t, FromOwner, {"delivered", "expired"})
                 = StatusBy(S, t, FromOwner, {"delivered", "expired"})
        BY <3>3 DEF Stages
      <3> QED BY <2>1, <3>2, <3>4, Zenon DEF Expected
    <2> QED BY <2>2, <2>3
  <1> HIDE DEF iter, A
  <1> QED BY <1>8, <1>11, <1>12, Zenon

-----------------------------------------------------------------------------
\* Whatever a log has about t comes after t was queued.
Ordered(L, t) ==
  \A e \in L, q \in Queued(L, t) : e.target = t /\ e.kind # "queued" => Before(q, e)

\* A row is of an envelope that was queued, to or from the owner, and has its receipts
\* and its acknowledgement; a checkpoint that a row has is in the log.
Backed(row, L, t) ==
  /\ row.inbox # "none" => t \in ToOwner /\ Queued(L, t) # {}
  /\ row.outbox # "none" => t \in FromOwner /\ Queued(L, t) # {}
  /\ row.receipts # {} => row.inbox # "none"
  /\ row.ack # NoEvent => row.outbox # "none"
  /\ row.checkpoint # NoEvent => \E e \in L : e.target = t /\ e.kind = "checkpoint"

\* The ranks of the stages, and that nothing goes back by advancing.
LEMMA StatusRanks ==
  /\ \A st \in Status : Rank(st) \in 0..4 /\ (Rank(st) = 0 <=> st = "none")
  /\ \A st \in Status, k \in {"delivered", "fetched", "expired"} :
       /\ Advance(st, k) \in Status /\ Rank(Advance(st, k)) >= Rank(st)
       /\ Advance(st, k) = st \/ (Advance(st, k) = k /\ st # "none")
  BY Ranks DEF Status, Advance

\* What the newest of some events is.
LEMMA NewestOfSome ==
  ASSUME NEW L, IsLog(L), NEW S \in SUBSET L
  PROVE  Newest(S) # NoEvent <=> S # {}
  <1>1. IsLog(S) BY PartOfLog
  <1>2. S # {} => Newest(S) \in MailboxEvent BY <1>1, LastOfLog DEF IsLog
  <1>3. S = {} => Newest(S) = NoEvent BY DEF Newest
  <1> QED BY <1>2, <1>3, MailboxAssumption DEF MailboxAssumption

\* The fields of what a log says.
LEMMA ExpectedFields ==
  ASSUME NEW L, IsLog(L), NEW t
  PROVE  /\ Expected(L, t) \in Row
         /\ Expected(L, t).inbox = StatusBy(L, t, ToOwner, {"delivered", "fetched", "expired"})
         /\ Expected(L, t).outbox = StatusBy(L, t, FromOwner, {"delivered", "expired"})
         /\ Expected(L, t).receipts = IF t \in ToOwner THEN OfKind(Since(L, t), "receipt") ELSE {}
         /\ Expected(L, t).ack # NoEvent <=> t \in FromOwner /\ OfKind(Since(L, t), "ack") # {}
         /\ Expected(L, t).checkpoint # NoEvent
              <=> \E e \in L : e.target = t /\ e.kind = "checkpoint"
  <1>1. Expected(L, t) \in Row BY ReplayIsExpected
  <1>2. /\ Expected(L, t).inbox = StatusBy(L, t, ToOwner, {"delivered", "fetched", "expired"})
        /\ Expected(L, t).outbox = StatusBy(L, t, FromOwner, {"delivered", "expired"})
    BY DEF Expected
  <1>3. Expected(L, t).receipts = IF t \in ToOwner THEN OfKind(Since(L, t), "receipt") ELSE {}
    BY DEF Expected
  <1>4. Expected(L, t).ack = IF t \in FromOwner THEN Newest(OfKind(Since(L, t), "ack")) ELSE NoEvent
    BY DEF Expected
  <1>5. OfKind(Since(L, t), "ack") \in SUBSET L BY DEF OfKind, Since
  <1>6. PICK C \in SUBSET L : C = {e \in L : e.target = t /\ e.kind = "checkpoint"} OBVIOUS
  <1>7. Expected(L, t).checkpoint = Newest(C) BY <1>6 DEF Expected
  <1>8. Newest(C) # NoEvent <=> C # {} BY NewestOfSome
  <1>9. Newest(OfKind(Since(L, t), "ack")) # NoEvent <=> OfKind(Since(L, t), "ack") # {}
    BY <1>5, NewestOfSome
  <1> QED BY <1>1, <1>2, <1>3, <1>4, <1>6, <1>7, <1>8, <1>9

\* An envelope has a stage if it was queued and its owner is a party, and that is at least
\* what its events say.
LEMMA ExpectedStages ==
  ASSUME NEW L, IsLog(L), NEW t
  PROVE  /\ Expected(L, t).inbox \in Status /\ Expected(L, t).outbox \in Status
         /\ Expected(L, t).inbox # "none" <=> t \in ToOwner /\ Queued(L, t) # {}
         /\ Expected(L, t).outbox # "none" <=> t \in FromOwner /\ Queued(L, t) # {}
         /\ \A e \in Since(L, t) :
              /\ t \in ToOwner /\ e.kind \in {"delivered", "fetched", "expired"} =>
                   Rank(e.kind) <= Rank(Expected(L, t).inbox)
              /\ t \in FromOwner /\ e.kind \in {"delivered", "expired"} =>
                   Rank(e.kind) <= Rank(Expected(L, t).outbox)
         /\ Expected(L, t).inbox \in
              {"none", "queued"} \cup ({e.kind : e \in Since(L, t)} \cap {"delivered", "fetched", "expired"})
         /\ Expected(L, t).outbox \in
              {"none", "queued"} \cup ({e.kind : e \in Since(L, t)} \cap {"delivered", "expired"})
  <1>1. Expected(L, t).inbox \in Status /\ Expected(L, t).outbox \in Status
    BY ExpectedFields DEF Row
  <1>2. \A e \in Since(L, t) : Queued(L, t) # {} BY DEF Since
  <1>3. \A party : \A kinds \in Stages :
          /\ t \notin party \/ Queued(L, t) = {} => StatusBy(L, t, party, kinds) = "none"
          /\ t \in party /\ Queued(L, t) # {} =>
               /\ StatusBy(L, t, party, kinds) \in
                    {"queued"} \cup ({e.kind : e \in Since(L, t)} \cap kinds)
               /\ \A e \in Since(L, t) :
                    e.kind \in kinds => Rank(e.kind) <= Rank(StatusBy(L, t, party, kinds))
    <2> SUFFICES ASSUME NEW party, NEW kinds \in Stages
                 PROVE  /\ t \notin party \/ Queued(L, t) = {} => StatusBy(L, t, party, kinds) = "none"
                        /\ t \in party /\ Queued(L, t) # {} =>
                             /\ StatusBy(L, t, party, kinds) \in
                                  {"queued"} \cup ({e.kind : e \in Since(L, t)} \cap kinds)
                             /\ \A e \in Since(L, t) :
                                  e.kind \in kinds => Rank(e.kind) <= Rank(StatusBy(L, t, party, kinds))
      OBVIOUS
    <2>1. t \notin party \/ Queued(L, t) = {} => StatusBy(L, t, party, kinds) = "none" BY DEF StatusBy
    <2> QED BY <2>1, StatusBounds
  <1>4. PICK in \in Stages : in = {"delivered", "fetched", "expired"} BY DEF Stages
  <1>5. PICK out \in Stages : out = {"delivered", "expired"} BY DEF Stages
  <1>6. Expected(L, t).inbox = StatusBy(L, t, ToOwner, in) BY <1>4, ExpectedFields
  <1>7. Expected(L, t).outbox = StatusBy(L, t, FromOwner, out) BY <1>5, ExpectedFields
  <1>8. "none" \notin in /\ "none" \notin out BY <1>4, <1>5
  <1> QED BY <1>1, <1>2, <1>3, <1>4, <1>5, <1>6, <1>7, <1>8

\* What more events say goes beyond what fewer say.
LEMMA ExpectedWithin ==
  ASSUME NEW M, IsLog(M), NEW L \in SUBSET M, NEW t
  PROVE  Within(Expected(L, t), Expected(M, t))
  <1>1. IsLog(L) BY PartOfLog
  <1>2. Queued(L, t) \subseteq Queued(M, t) BY DEF Queued
  <1>3. Since(L, t) \subseteq Since(M, t) BY <1>2 DEF Since
  <1>4. Rank(Expected(L, t).inbox) <= Rank(Expected(M, t).inbox)
    <2>1. CASE Expected(L, t).inbox = "none" BY <2>1, ExpectedStages, StatusRanks, Ranks
    <2>2. CASE Expected(L, t).inbox = "queued"
      BY <1>1, <1>2, <2>2, ExpectedStages, StatusRanks, Ranks
    <2>3. CASE Expected(L, t).inbox \in
                 ({e.kind : e \in Since(L, t)} \cap {"delivered", "fetched", "expired"})
      <3>1. PICK e \in Since(M, t) : e.kind = Expected(L, t).inbox BY <1>3, <2>3
      <3>2. t \in ToOwner BY <1>1, <2>3, ExpectedStages
      <3> QED BY <2>3, <3>1, <3>2, ExpectedStages
    <2> QED BY <1>1, <2>1, <2>2, <2>3, ExpectedStages
  <1>5. Rank(Expected(L, t).outbox) <= Rank(Expected(M, t).outbox)
    <2>1. CASE Expected(L, t).outbox = "none" BY <2>1, ExpectedStages, StatusRanks, Ranks
    <2>2. CASE Expected(L, t).outbox = "queued"
      BY <1>1, <1>2, <2>2, ExpectedStages, StatusRanks, Ranks
    <2>3. CASE Expected(L, t).outbox \in
                 ({e.kind : e \in Since(L, t)} \cap {"delivered", "expired"})
      <3>1. PICK e \in Since(M, t) : e.kind = Expected(L, t).outbox BY <1>3, <2>3
      <3>2. t \in FromOwner BY <1>1, <2>3, ExpectedStages
      <3> QED BY <2>3, <3>1, <3>2, ExpectedStages
    <2> QED BY <1>1, <2>1, <2>2, <2>3, ExpectedStages
  <1>6. Expected(L, t).receipts \subseteq Expected(M, t).receipts
    <2>1. /\ Expected(L, t).receipts = IF t \in ToOwner THEN OfKind(Since(L, t), "receipt") ELSE {}
          /\ Expected(M, t).receipts = IF t \in ToOwner THEN OfKind(Since(M, t), "receipt") ELSE {}
      BY <1>1, ExpectedFields
    <2>2. OfKind(Since(L, t), "receipt") \subseteq OfKind(Since(M, t), "receipt") BY <1>3 DEF OfKind
    <2> QED BY <2>1, <2>2
  <1>7. Expected(L, t).ack # NoEvent => Expected(M, t).ack # NoEvent
    <2>1. /\ Expected(L, t).ack # NoEvent <=> t \in FromOwner /\ OfKind(Since(L, t), "ack") # {}
          /\ Expected(M, t).ack # NoEvent <=> t \in FromOwner /\ OfKind(Since(M, t), "ack") # {}
      BY <1>1, ExpectedFields
    <2>2. OfKind(Since(L, t), "ack") \subseteq OfKind(Since(M, t), "ack") BY <1>3 DEF OfKind
    <2> QED BY <2>1, <2>2
  <1> QED BY <1>4, <1>5, <1>6, <1>7 DEF Within

\* Going beyond is transitive.
LEMMA WithinIsTransitive ==
  ASSUME NEW p \in Row, NEW q \in Row, NEW r \in Row, Within(p, q), Within(q, r)
  PROVE  Within(p, r)
  <1>1. /\ Rank(p.inbox) \in 0..4 /\ Rank(q.inbox) \in 0..4 /\ Rank(r.inbox) \in 0..4
        /\ Rank(p.outbox) \in 0..4 /\ Rank(q.outbox) \in 0..4 /\ Rank(r.outbox) \in 0..4
    BY StatusRanks DEF Row
  <1> QED BY <1>1 DEF Within

\* An event of the log takes a row no further than the log, if the log has the envelope
\* queued first.
LEMMA ApplyWithin ==
  ASSUME NEW L, IsLog(L), NEW t, Ordered(L, t), NEW row \in Row, Within(row, Expected(L, t)),
         NEW e \in L, e.target = t
  PROVE  Within(ApplyMailboxEvent(row, e), Expected(L, t))
  <1>1. e \in MailboxEvent BY DEF IsLog
  <1>2. /\ row.inbox \in Status /\ row.outbox \in Status
        /\ Expected(L, t).inbox \in Status /\ Expected(L, t).outbox \in Status
    BY ExpectedStages DEF Row
  <1>3. PICK next \in Row : next = ApplyMailboxEvent(row, e) BY <1>1, ApplyFields
  <1>4. /\ next.inbox = InboxAfter(row, e) /\ next.outbox = OutboxAfter(row, e)
        /\ next.receipts = ReceiptsAfter(row, e) /\ next.ack = AckAfter(row, e)
    BY <1>1, <1>3, ApplyFields
  <1>5. row.inbox # "none" => t \in ToOwner /\ Queued(L, t) # {}
    BY <1>2, StatusRanks, ExpectedStages DEF Within
  <1>6. row.outbox # "none" => t \in FromOwner /\ Queued(L, t) # {}
    BY <1>2, StatusRanks, ExpectedStages DEF Within
  <1>7. Queued(L, t) # {} /\ e.kind # "queued" => e \in Since(L, t)
    BY DEF Ordered, Since
  <1>8. e.kind = "queued" => Queued(L, t) # {} BY DEF Queued
  <1>9. Rank(next.inbox) <= Rank(Expected(L, t).inbox)
    <2>1. CASE e.kind = "queued"
      BY <1>2, <1>4, <1>8, <2>1, StatusRanks, Ranks, ExpectedStages DEF InboxAfter, Queue, Within
    <2>2. CASE e.kind \in {"delivered", "fetched", "expired"}
      <3>1. next.inbox = Advance(row.inbox, e.kind) BY <1>4, <2>2 DEF InboxAfter
      <3>2. CASE next.inbox = row.inbox BY <3>2 DEF Within
      <3>3. CASE next.inbox = e.kind /\ row.inbox # "none"
        BY <1>5, <1>7, <2>2, <3>3, ExpectedStages
      <3> QED BY <1>2, <2>2, <3>1, <3>2, <3>3, StatusRanks
    <2>3. CASE e.kind \notin {"queued", "delivered", "fetched", "expired"}
      BY <1>4, <2>3 DEF InboxAfter, Within
    <2> QED BY <2>1, <2>2, <2>3
  <1>10. Rank(next.outbox) <= Rank(Expected(L, t).outbox)
    <2>1. CASE e.kind = "queued"
      BY <1>2, <1>4, <1>8, <2>1, StatusRanks, Ranks, ExpectedStages DEF OutboxAfter, Queue, Within
    <2>2. CASE e.kind \in {"delivered", "expired"}
      <3>1. next.outbox = Advance(row.outbox, e.kind) BY <1>4, <2>2 DEF OutboxAfter
      <3>2. CASE next.outbox = row.outbox BY <3>2 DEF Within
      <3>3. CASE next.outbox = e.kind /\ row.outbox # "none"
        BY <1>6, <1>7, <2>2, <3>3, ExpectedStages
      <3> QED BY <1>2, <2>2, <3>1, <3>2, <3>3, StatusRanks
    <2>3. CASE e.kind \notin {"queued", "delivered", "expired"}
      BY <1>4, <2>3 DEF OutboxAfter, Within
    <2> QED BY <2>1, <2>2, <2>3
  <1>11. next.receipts \subseteq Expected(L, t).receipts
    <2>1. row.receipts \subseteq Expected(L, t).receipts BY DEF Within
    <2>2. Expected(L, t).receipts = IF t \in ToOwner THEN OfKind(Since(L, t), "receipt") ELSE {}
      BY ExpectedFields
    <2>3. e.kind = "receipt" /\ row.inbox # "none" =>
            t \in ToOwner /\ e \in OfKind(Since(L, t), "receipt")
      BY <1>5, <1>7 DEF OfKind
    <2> QED BY <1>4, <2>1, <2>2, <2>3 DEF ReceiptsAfter
  <1>12. next.ack # NoEvent => Expected(L, t).ack # NoEvent
    <2>1. row.ack # NoEvent => Expected(L, t).ack # NoEvent BY DEF Within
    <2>2. Expected(L, t).ack # NoEvent <=> t \in FromOwner /\ OfKind(Since(L, t), "ack") # {}
      BY ExpectedFields
    <2>3. e.kind = "ack" /\ row.outbox # "none" =>
            t \in FromOwner /\ e \in OfKind(Since(L, t), "ack")
      BY <1>6, <1>7 DEF OfKind
    <2> QED BY <1>4, <2>1, <2>2, <2>3 DEF AckAfter
  <1> QED BY <1>3, <1>9, <1>10, <1>11, <1>12 DEF Within

\* A row stays backed by whatever event of the log it is given.
LEMMA ApplyBacked ==
  ASSUME NEW L, IsLog(L), NEW t, NEW row \in Row, Backed(row, L, t), NEW e \in L, e.target = t
  PROVE  /\ Backed(ApplyMailboxEvent(row, e), L, t)
         /\ Rank(row.inbox) <= Rank(ApplyMailboxEvent(row, e).inbox)
         /\ Rank(row.outbox) <= Rank(ApplyMailboxEvent(row, e).outbox)
  <1>1. e \in MailboxEvent BY DEF IsLog
  <1>2. PICK next \in Row : next = ApplyMailboxEvent(row, e) BY <1>1, ApplyFields
  <1>3. /\ next.inbox = InboxAfter(row, e) /\ next.outbox = OutboxAfter(row, e)
        /\ next.receipts = ReceiptsAfter(row, e) /\ next.ack = AckAfter(row, e)
        /\ next.checkpoint = CheckpointAfter(row, e)
    BY <1>1, <1>2, ApplyFields
  <1>4. row.inbox \in Status /\ row.outbox \in Status BY DEF Row
  <1>5. e.kind = "queued" => Queued(L, t) # {} BY DEF Queued
  <1>6. /\ next.inbox # "none" => t \in ToOwner /\ Queued(L, t) # {}
        /\ row.inbox # "none" => next.inbox # "none"
        /\ Rank(row.inbox) <= Rank(next.inbox)
    <2>1. CASE e.kind = "queued"
      BY <1>3, <1>4, <1>5, <2>1, StatusRanks, Ranks DEF InboxAfter, Queue, Backed
    <2>2. CASE e.kind \in {"delivered", "fetched", "expired"}
      <3>1. next.inbox = Advance(row.inbox, e.kind) BY <1>3, <2>2 DEF InboxAfter
      <3>2. Rank(row.inbox) <= Rank(next.inbox) BY <1>4, <2>2, <3>1, StatusRanks
      <3>3. row.inbox = "none" <=> next.inbox = "none"
        BY <1>4, <2>2, <3>1, StatusRanks
      <3> QED BY <3>2, <3>3 DEF Backed
    <2>3. CASE e.kind \notin {"queued", "delivered", "fetched", "expired"}
      BY <1>3, <1>4, <2>3, StatusRanks DEF InboxAfter, Backed
    <2> QED BY <2>1, <2>2, <2>3
  <1>7. /\ next.outbox # "none" => t \in FromOwner /\ Queued(L, t) # {}
        /\ row.outbox # "none" => next.outbox # "none"
        /\ Rank(row.outbox) <= Rank(next.outbox)
    <2>1. CASE e.kind = "queued"
      BY <1>3, <1>4, <1>5, <2>1, StatusRanks, Ranks DEF OutboxAfter, Queue, Backed
    <2>2. CASE e.kind \in {"delivered", "expired"}
      <3>1. next.outbox = Advance(row.outbox, e.kind) BY <1>3, <2>2 DEF OutboxAfter
      <3>2. Rank(row.outbox) <= Rank(next.outbox) BY <1>4, <2>2, <3>1, StatusRanks
      <3>3. row.outbox = "none" <=> next.outbox = "none"
        BY <1>4, <2>2, <3>1, StatusRanks
      <3> QED BY <3>2, <3>3 DEF Backed
    <2>3. CASE e.kind \notin {"queued", "delivered", "expired"}
      BY <1>3, <1>4, <2>3, StatusRanks DEF OutboxAfter, Backed
    <2> QED BY <2>1, <2>2, <2>3
  <1>8. next.receipts # {} => next.inbox # "none"
    BY <1>3, <1>6 DEF ReceiptsAfter, Backed
  <1>9. next.ack # NoEvent => next.outbox # "none"
    BY <1>3, <1>7 DEF AckAfter, Backed
  <1>10. next.checkpoint # NoEvent => \E f \in L : f.target = t /\ f.kind = "checkpoint"
    BY <1>3 DEF CheckpointAfter, Backed
  <1> QED BY <1>2, <1>6, <1>7, <1>8, <1>9, <1>10 DEF Backed

\* What a log says is backed by it and by any longer one.
LEMMA ExpectedBacked ==
  ASSUME NEW M, IsLog(M), NEW L \in SUBSET M, NEW t
  PROVE  Backed(Expected(L, t), M, t)
  <1>1. IsLog(L) BY PartOfLog
  <1>2. Queued(L, t) \subseteq Queued(M, t) BY DEF Queued
  <1>3. \A e \in Since(L, t) : Queued(L, t) # {} BY DEF Since
  <1>4. PICK row : row = Expected(L, t) OBVIOUS
  <1>5. /\ row.inbox # "none" <=> t \in ToOwner /\ Queued(L, t) # {}
        /\ row.outbox # "none" <=> t \in FromOwner /\ Queued(L, t) # {}
    BY <1>1, <1>4, ExpectedStages
  <1>6. /\ row.receipts = IF t \in ToOwner THEN OfKind(Since(L, t), "receipt") ELSE {}
        /\ row.ack # NoEvent <=> t \in FromOwner /\ OfKind(Since(L, t), "ack") # {}
        /\ row.checkpoint # NoEvent <=> \E e \in L : e.target = t /\ e.kind = "checkpoint"
    BY <1>1, <1>4, ExpectedFields
  <1>7. row.receipts # {} => t \in ToOwner /\ Queued(L, t) # {} BY <1>3, <1>6 DEF OfKind
  <1>8. row.ack # NoEvent => t \in FromOwner /\ Queued(L, t) # {} BY <1>3, <1>6 DEF OfKind
  <1> QED BY <1>2, <1>4, <1>5, <1>6, <1>7, <1>8 DEF Backed

\* Rows stay backed, and behind the log, as it grows.
LEMMA LogGrows ==
  ASSUME NEW M, IsLog(M), NEW L \in SUBSET M, NEW t, NEW row \in Row
  PROVE  /\ Backed(row, L, t) => Backed(row, M, t)
         /\ Within(row, Expected(L, t)) => Within(row, Expected(M, t))
         /\ Ordered(M, t) => Ordered(L, t)
  <1>1. IsLog(L) /\ Queued(L, t) \subseteq Queued(M, t) BY PartOfLog DEF Queued
  <1>2. Expected(L, t) \in Row /\ Expected(M, t) \in Row BY <1>1, ExpectedFields
  <1>3. Within(Expected(L, t), Expected(M, t)) BY ExpectedWithin
  <1>4. Within(row, Expected(L, t)) => Within(row, Expected(M, t))
    BY <1>2, <1>3, WithinIsTransitive
  <1> QED BY <1>1, <1>4 DEF Backed, Ordered

\* A rebuild writes a row that is backed and no further than the log.
LEMMA OverwrittenIsSound ==
  ASSUME NEW M, IsLog(M), NEW L \in SUBSET M, NEW t, NEW row \in Row, Backed(row, M, t)
  PROVE  LET next == Overwritten(row, Replayed(L, t))
         IN  /\ next \in Row
             /\ Backed(next, M, t)
             /\ Within(row, Expected(M, t)) => Within(next, Expected(M, t))
             /\ L = M => next = Expected(M, t)
  <1>1. IsLog(L) BY PartOfLog
  <1>2. PICK rebuilt \in Row : rebuilt = Expected(L, t) BY <1>1, ReplayIsExpected
  <1>3. Replayed(L, t) = rebuilt BY <1>1, <1>2, ReplayIsExpected
  <1>4. Backed(rebuilt, M, t) /\ Within(rebuilt, Expected(M, t))
    BY <1>2, ExpectedBacked, ExpectedWithin
  <1>5. PICK next \in Row : next = Overwritten(row, rebuilt) BY DEF Overwritten, Row
  <1>6. /\ next.inbox = IF rebuilt.inbox = "none" THEN row.inbox ELSE rebuilt.inbox
        /\ next.receipts = IF rebuilt.inbox = "none" THEN row.receipts ELSE rebuilt.receipts
        /\ next.outbox = IF rebuilt.outbox = "none" THEN row.outbox ELSE rebuilt.outbox
        /\ next.ack = IF rebuilt.outbox = "none" THEN row.ack ELSE rebuilt.ack
        /\ next.checkpoint = IF rebuilt.checkpoint = NoEvent THEN row.checkpoint
                             ELSE rebuilt.checkpoint
    BY <1>5 DEF Overwritten
  <1>7. Backed(next, M, t) BY <1>4, <1>6 DEF Backed
  <1>8. Within(row, Expected(M, t)) => Within(next, Expected(M, t)) BY <1>4, <1>6 DEF Within
  <1>9. ASSUME L = M PROVE next = rebuilt
    <2>1. Backed(rebuilt, L, t) BY <1>4, <1>9
    <2>2. /\ rebuilt.inbox # "none" <=> t \in ToOwner /\ Queued(M, t) # {}
          /\ rebuilt.outbox # "none" <=> t \in FromOwner /\ Queued(M, t) # {}
      BY <1>2, <1>9, ExpectedStages
    <2>3. rebuilt.checkpoint # NoEvent <=> \E e \in M : e.target = t /\ e.kind = "checkpoint"
      BY <1>2, <1>9, ExpectedFields
    <2>4. next.inbox = rebuilt.inbox /\ next.receipts = rebuilt.receipts
      BY <1>6, <2>1, <2>2 DEF Backed
    <2>5. next.outbox = rebuilt.outbox /\ next.ack = rebuilt.ack
      BY <1>6, <2>1, <2>2 DEF Backed
    <2>6. next.checkpoint = rebuilt.checkpoint BY <1>6, <2>3 DEF Backed
    <2> QED BY <2>4, <2>5, <2>6 DEF Row
  <1> QED BY <1>2, <1>3, <1>5, <1>7, <1>8, <1>9

-----------------------------------------------------------------------------
\* Where the events of the log are from.
LogKnown == \A e \in log : e \in Events \/ e.id \in FreshIds

\* The log is one, its events have ids of their own, and every row is backed by it and no
\* further than it.
MailboxInv ==
  /\ TypeOK
  /\ IsLog(log)
  /\ LogKnown
  /\ \A t \in Targets : Backed(rows[t], log, t)
  /\ \A t \in Targets : Ordered(log, t) => Within(rows[t], Expected(log, t))

\* At first there is nothing.
LEMMA MailboxInitInv == Init => MailboxInv
  <1> SUFFICES ASSUME Init PROVE MailboxInv OBVIOUS
  <1>1. IsLog({}) BY FS_EmptySet DEF IsLog
  <1>2. TypeOK BY NothingExpected DEF Init, TypeOK
  <1>3. ASSUME NEW t \in Targets
        PROVE  Backed(rows[t], log, t) /\ Within(rows[t], Expected(log, t))
    <2>1. rows[t] = NoRow /\ log = {} BY DEF Init
    <2>2. Backed(NoRow, {}, t) BY DEF Backed, NoRow
    <2>3. Within(Expected({}, t), Expected({}, t)) BY <1>1, ExpectedWithin
    <2> QED BY <2>1, <2>2, <2>3, NothingExpected
  <1> QED BY <1>1, <1>2, <1>3 DEF Init, MailboxInv, LogKnown

\* The log with one more event.
LEMMA LogWithOneMore ==
  ASSUME MailboxInv, NEW e \in MailboxEvent,
         \/ e \in Events
         \/ e.id \in FreshIds \ {f.id : f \in log}
  PROVE  /\ IsLog(log \cup {e})
         /\ \A f \in log \cup {e} : f \in Events \/ f.id \in FreshIds
  <1>1. IsFiniteSet(log \cup {e}) BY FS_AddElement DEF MailboxInv, IsLog
  <1>2. \A f \in log : f.id = e.id => f = e
    BY MailboxAssumption DEF MailboxAssumption, MailboxInv, LogKnown
  <1>3. \A f \in log \cup {e} : \A g \in log \cup {e} : f.id = g.id => f = g
    BY <1>2 DEF MailboxInv, IsLog
  <1> QED BY <1>1, <1>3 DEF MailboxInv, IsLog, LogKnown

\* An event that is put in the log and into the rows of its envelope.
LEMMA ProjectedKeepsRows ==
  ASSUME MailboxInv, NEW e \in MailboxEvent, IsLog(log \cup {e}), AppendProjected(e)
  PROVE  /\ rows' \in [Targets -> Row]
         /\ \A t \in Targets :
              /\ Backed(rows'[t], log', t)
              /\ Ordered(log', t) => Within(rows'[t], Expected(log', t))
              /\ Rank(rows[t].inbox) <= Rank(rows'[t].inbox)
              /\ Rank(rows[t].outbox) <= Rank(rows'[t].outbox)
  <1>1. e.target \in Targets BY DEF MailboxEvent
  <1>2. PICK M : M = log \cup {e} OBVIOUS
  <1>3. IsLog(M) /\ log' = M /\ log \in SUBSET M /\ e \in M BY <1>2 DEF AppendProjected
  <1>4. /\ rows \in [Targets -> Row]
        /\ rows' = [rows EXCEPT ![e.target] = ApplyMailboxEvent(rows[e.target], e)]
    BY DEF MailboxInv, TypeOK, AppendProjected
  <1>5. ASSUME NEW t \in Targets
        PROVE  /\ rows'[t] \in Row
               /\ Backed(rows'[t], M, t)
               /\ Ordered(M, t) => Within(rows'[t], Expected(M, t))
               /\ Rank(rows[t].inbox) <= Rank(rows'[t].inbox)
               /\ Rank(rows[t].outbox) <= Rank(rows'[t].outbox)
    <2>1. PICK row \in Row : row = rows[t] BY <1>4
    <2>2. Backed(row, log, t) /\ (Ordered(log, t) => Within(row, Expected(log, t)))
      BY <2>1 DEF MailboxInv
    <2>3. Backed(row, M, t) /\ (Ordered(M, t) => Within(row, Expected(M, t)))
      BY <1>3, <2>2, LogGrows
    <2>4. CASE t = e.target
      <3>1. rows'[t] = ApplyMailboxEvent(row, e) BY <1>1, <1>4, <2>1, <2>4
      <3>2. ApplyMailboxEvent(row, e) \in Row BY ApplyFields
      <3>3. /\ Backed(ApplyMailboxEvent(row, e), M, t)
            /\ Rank(row.inbox) <= Rank(ApplyMailboxEvent(row, e).inbox)
            /\ Rank(row.outbox) <= Rank(ApplyMailboxEvent(row, e).outbox)
        BY <1>3, <2>3, <2>4, ApplyBacked
      <3>4. Ordered(M, t) => Within(ApplyMailboxEvent(row, e), Expected(M, t))
        BY <1>3, <2>3, <2>4, ApplyWithin
      <3> QED BY <2>1, <3>1, <3>2, <3>3, <3>4
    <2>5. CASE t # e.target
      <3>1. rows'[t] = row BY <1>4, <2>1, <2>5
      <3>2. Rank(row.inbox) \in 0..4 /\ Rank(row.outbox) \in 0..4 BY StatusRanks DEF Row
      <3> QED BY <2>1, <2>3, <3>1, <3>2
    <2> QED BY <2>4, <2>5
  <1>6. rows' \in [Targets -> Row] BY <1>4, <1>5
  <1> QED BY <1>3, <1>5, <1>6

\* What an event does that is put in the log and into the rows: the sweeps and the
\* appends of events from outside.
LEMMA ProjectedKeepsInv ==
  ASSUME MailboxInv, NEW e \in MailboxEvent,
         \/ e \in Events
         \/ e.id \in FreshIds \ {f.id : f \in log},
         AppendProjected(e), UNCHANGED <<now, rebuild, sweep, sweepNow>>,
         candidates' \in [Sweepers -> SUBSET Targets]
  PROVE  MailboxInv'
  <1>1. IsLog(log \cup {e}) /\ \A f \in log \cup {e} : f \in Events \/ f.id \in FreshIds
    BY LogWithOneMore
  <1>2. /\ rows' \in [Targets -> Row]
        /\ \A t \in Targets : /\ Backed(rows'[t], log', t)
                              /\ Ordered(log', t) => Within(rows'[t], Expected(log', t))
    BY <1>1, ProjectedKeepsRows
  <1>3. log' = log \cup {e} /\ projected' = projected \cup {e} BY DEF AppendProjected
  <1>4. TypeOK' BY <1>2, <1>3 DEF MailboxInv, TypeOK, rebuild
  <1> QED BY <1>1, <1>2, <1>3, <1>4 DEF MailboxInv, LogKnown

\* An event that is kept for later.
LEMMA UndecryptableKeepsInv ==
  ASSUME MailboxInv, NEW e \in Events, AppendUndecryptable(e)
  PROVE  MailboxInv'
  <1>1. e \in MailboxEvent BY MailboxAssumption DEF MailboxAssumption
  <1>2. PICK M : M = log \cup {e} OBVIOUS
  <1>3. IsLog(M) /\ (\A f \in M : f \in Events \/ f.id \in FreshIds) /\ log \in SUBSET M
    BY <1>1, <1>2, LogWithOneMore
  <1>4. log' = M /\ UNCHANGED <<now, projected, rows, rebuild, sweeping>>
    BY <1>2 DEF AppendUndecryptable
  <1>5. TypeOK' BY <1>1, <1>2, <1>4 DEF MailboxInv, TypeOK, rebuild, sweeping
  <1>6. ASSUME NEW t \in Targets
        PROVE  Backed(rows[t], M, t) /\ (Ordered(M, t) => Within(rows[t], Expected(M, t)))
    <2>1. PICK row \in Row : row = rows[t] BY DEF MailboxInv, TypeOK
    <2>2. Backed(row, log, t) /\ (Ordered(log, t) => Within(row, Expected(log, t)))
      BY <2>1 DEF MailboxInv
    <2> QED BY <1>3, <2>1, <2>2, LogGrows
  <1> QED BY <1>3, <1>4, <1>5, <1>6 DEF MailboxInv, LogKnown

\* What a rebuild leaves of the row of an envelope.
LEMMA RebuildWrites ==
  ASSUME MailboxInv, NEW r \in Rebuilders, RebuildWrite(r), NEW t \in Targets
  PROVE  /\ rows'[t] \in Row
         /\ Backed(rows'[t], log, t)
         /\ Ordered(log, t) => Within(rows'[t], Expected(log, t))
         /\ taken[r] = log => rows'[t] = Expected(log, t)
  <1>1. PICK row \in Row : row = rows[t] BY DEF MailboxInv, TypeOK
  <1>2. PICK L \in SUBSET log : L = taken[r] BY DEF MailboxInv, TypeOK
  <1>3. PICK next : next = Overwritten(row, Replayed(L, t)) OBVIOUS
  <1>4. rows'[t] = next BY <1>1, <1>2, <1>3 DEF RebuildWrite
  <1>5. /\ IsLog(log) /\ Backed(row, log, t)
        /\ Ordered(log, t) => Within(row, Expected(log, t))
    BY <1>1 DEF MailboxInv
  <1>6. /\ next \in Row
        /\ Backed(next, log, t)
        /\ Within(row, Expected(log, t)) => Within(next, Expected(log, t))
        /\ L = log => next = Expected(log, t)
    BY <1>3, <1>5, OverwrittenIsSound
  <1> QED BY <1>2, <1>4, <1>5, <1>6

\* The steps that leave the log and the rows alone.
LEMMA OthersKeepInv ==
  ASSUME MailboxInv, UNCHANGED <<log, projected, rows>>, TypeOK'
  PROVE  MailboxInv'
  BY DEF MailboxInv, LogKnown

\* Rebuilds.
LEMMA RebuildKeepsInv ==
  ASSUME MailboxInv, NEW r \in Rebuilders, RebuildRead(r) \/ RebuildWrite(r) \/ RebuildStops(r)
  PROVE  MailboxInv'
  <1>1. CASE RebuildRead(r)
    <2>1. PICK known \in SUBSET Targets :
            taken' = [taken EXCEPT ![r] = {e \in log : e.target \in known}]
      BY <1>1 DEF RebuildRead
    <2>2. UNCHANGED <<now, log, projected, rows, sweeping>> /\ rebuilding' = rebuilding \cup {r}
      BY <1>1 DEF RebuildRead
    <2>3. TypeOK' BY <2>1, <2>2 DEF MailboxInv, TypeOK, sweeping
    <2> QED BY <2>2, <2>3, OthersKeepInv
  <1>2. CASE RebuildWrite(r)
    <2>1. \A t \in Targets : /\ rows'[t] \in Row
                             /\ Backed(rows'[t], log, t)
                             /\ Ordered(log, t) => Within(rows'[t], Expected(log, t))
      BY <1>2, RebuildWrites
    <2>2. /\ UNCHANGED <<now, log, projected, sweeping>>
          /\ taken' = [taken EXCEPT ![r] = {}] /\ rebuilding' = rebuilding \ {r}
          /\ rows' = [t \in Targets |-> rows'[t]]
      BY <1>2 DEF RebuildWrite, RebuildEnds
    <2>3. TypeOK'
      <3>1. rows' \in [Targets -> Row] BY <2>1, <2>2
      <3> QED BY <2>2, <3>1 DEF MailboxInv, TypeOK, sweeping
    <2> QED BY <2>1, <2>2, <2>3 DEF MailboxInv, LogKnown
  <1>3. CASE RebuildStops(r)
    <2>1. UNCHANGED <<now, log, projected, rows, sweeping>> BY <1>3 DEF RebuildStops
    <2>2. TypeOK' BY <1>3 DEF MailboxInv, TypeOK, RebuildStops, RebuildEnds, sweeping
    <2> QED BY <2>1, <2>2, OthersKeepInv
  <1> QED BY <1>1, <1>2, <1>3

\* Sweeps.
LEMMA SweepKeepsInv ==
  ASSUME MailboxInv, NEW s \in Sweepers, Sweep(s)
  PROVE  MailboxInv'
  <1>1. CASE SweepEnvelope(s)
    <2>1. PICK t \in candidates[s], i \in FreshIds \ {e.id : e \in log} :
            /\ AppendProjected(SweptEvent(s, t, i))
            /\ candidates' = [candidates EXCEPT ![s] = @ \ {t}]
      BY <1>1 DEF SweepEnvelope
    <2>2. /\ t \in Targets /\ i \in Nat /\ sweepNow[s] \in Nat
          /\ candidates' \in [Sweepers -> SUBSET Targets]
      BY <2>1, MailboxAssumption DEF MailboxAssumption, MailboxInv, TypeOK
    <2>3. PICK e : e = SweptEvent(s, t, i) OBVIOUS
    <2>4. e \in MailboxEvent /\ e.id = i BY <2>2, <2>3 DEF SweptEvent, MailboxEvent, Kinds
    <2>5. AppendProjected(e) BY <2>1, <2>3, Zenon
    <2>6. UNCHANGED <<now, rebuild, sweep, sweepNow>> BY <1>1 DEF SweepEnvelope
    <2> QED BY <2>1, <2>2, <2>4, <2>5, <2>6, ProjectedKeepsInv
  <1>2. CASE SweepInbox(s)
    <2>1. UNCHANGED <<now, log, projected, rows, rebuild>> BY <1>2 DEF SweepInbox
    <2>2. TypeOK' BY <1>2, <2>1 DEF MailboxInv, TypeOK, SweepInbox, rebuild
    <2> QED BY <2>1, <2>2, OthersKeepInv
  <1>3. CASE SweepOutbox(s)
    <2>1. UNCHANGED <<now, log, projected, rows, rebuild>> BY <1>3 DEF SweepOutbox
    <2>2. TypeOK' BY <1>3, <2>1 DEF MailboxInv, TypeOK, SweepOutbox, rebuild
    <2> QED BY <2>1, <2>2, OthersKeepInv
  <1>4. CASE SweepSkips(s)
    <2>1. UNCHANGED <<now, log, projected, rows, rebuild>> BY <1>4 DEF SweepSkips
    <2>2. TypeOK' BY <1>4, <2>1 DEF MailboxInv, TypeOK, SweepSkips, rebuild
    <2> QED BY <2>1, <2>2, OthersKeepInv
  <1>5. CASE SweepEnds(s)
    <2>1. UNCHANGED <<now, log, projected, rows, rebuild>> BY <1>5 DEF SweepEnds
    <2>2. TypeOK' BY <1>5, <2>1 DEF MailboxInv, TypeOK, SweepEnds, rebuild
    <2> QED BY <2>1, <2>2, OthersKeepInv
  <1> QED BY <1>1, <1>2, <1>3, <1>4, <1>5 DEF Sweep, SweepDone, SweepStops

\* Every step keeps the invariant.
LEMMA MailboxNextInv ==
  ASSUME MailboxInv, [Next]_vars
  PROVE  MailboxInv'
  <1>1. ASSUME NEW e \in Events, AppendMailboxEvent(e) PROVE MailboxInv'
    <2>1. e \in MailboxEvent BY MailboxAssumption DEF MailboxAssumption
    <2>2. AppendProjected(e) /\ UNCHANGED <<now, rebuild, sweep, sweepNow>>
      BY <1>1 DEF AppendMailboxEvent, sweeping
    <2>3. candidates' \in [Sweepers -> SUBSET Targets]
      BY <1>1 DEF AppendMailboxEvent, sweeping, MailboxInv, TypeOK
    <2> QED BY <2>1, <2>2, <2>3, ProjectedKeepsInv
  <1>2. CASE Tick
    <2>1. UNCHANGED <<log, projected, rows, rebuild, sweeping>> BY <1>2 DEF Tick
    <2>2. TypeOK' BY <1>2, <2>1 DEF MailboxInv, TypeOK, Tick, rebuild, sweeping
    <2> QED BY <2>1, <2>2, OthersKeepInv
  <1>3. CASE UNCHANGED vars
    <2>1. TypeOK' BY <1>3 DEF MailboxInv, TypeOK, vars
    <2> QED BY <1>3, <2>1, OthersKeepInv DEF vars
  <1> QED BY <1>1, <1>2, <1>3, UndecryptableKeepsInv, RebuildKeepsInv, SweepKeepsInv DEF Next

\* The state of the mailbox is typed, for any events, rebuilds and sweeps.
THEOREM MailboxTypeCorrect == Spec => []TypeOK
  <1>1. MailboxInv => TypeOK BY DEF MailboxInv
  <1> QED BY <1>1, MailboxInitInv, MailboxNextInv, PTL DEF Spec

\* Rows show nothing that a replay of the log would not, for any events, in any order, and
\* any number of rebuilds and sweeps at a time.
THEOREM MailboxRowsBehindLog == Spec => []RowsBehindLog
  <1>1. MailboxInv => RowsBehindLog BY DEF MailboxInv, RowsBehindLog, InOrder, Ordered
  <1> QED BY <1>1, MailboxInitInv, MailboxNextInv, PTL DEF Spec

\* A rebuild that has missed nothing leaves the rows as the log says.
THEOREM MailboxRebuildHeals == Spec => RebuildHeals
  <1>1. MailboxInv =>
          \A r \in Rebuilders : RebuildWrite(r) /\ taken[r] = log =>
            \A t \in Targets : rows'[t] = Expected(log, t)
    BY RebuildWrites
  <1> QED BY <1>1, MailboxInitInv, MailboxNextInv, PTL DEF Spec, RebuildHeals

\* A step that is no rebuild takes no row back.
LEMMA RowsGoOn ==
  ASSUME MailboxInv, [Next]_vars, \A r \in Rebuilders : ~RebuildWrite(r), NEW t \in Targets
  PROVE  /\ Rank(rows[t].inbox) <= Rank(rows'[t].inbox)
         /\ Rank(rows[t].outbox) <= Rank(rows'[t].outbox)
  <1>1. ASSUME NEW e \in MailboxEvent, AppendProjected(e),
               e \in Events \/ e.id \in FreshIds \ {f.id : f \in log}
        PROVE  /\ Rank(rows[t].inbox) <= Rank(rows'[t].inbox)
               /\ Rank(rows[t].outbox) <= Rank(rows'[t].outbox)
    BY <1>1, LogWithOneMore, ProjectedKeepsRows
  <1>2. CASE rows' = rows
    <2>1. rows[t] \in Row BY DEF MailboxInv, TypeOK
    <2> QED BY <1>2, <2>1, StatusRanks DEF Row
  <1>3. CASE \E e \in Events : AppendMailboxEvent(e)
    BY <1>1, <1>3, MailboxAssumption DEF MailboxAssumption, AppendMailboxEvent
  <1>4. CASE \E s \in Sweepers : SweepEnvelope(s)
    <2>1. PICK s \in Sweepers : SweepEnvelope(s) BY <1>4
    <2>2. PICK u \in candidates[s], i \in FreshIds \ {e.id : e \in log} :
            AppendProjected(SweptEvent(s, u, i))
      BY <2>1 DEF SweepEnvelope
    <2>3. u \in Targets /\ i \in Nat /\ sweepNow[s] \in Nat
      BY <2>2, MailboxAssumption DEF MailboxAssumption, MailboxInv, TypeOK
    <2>4. PICK e : e = SweptEvent(s, u, i) OBVIOUS
    <2>5. e \in MailboxEvent /\ e.id = i BY <2>3, <2>4 DEF SweptEvent, MailboxEvent, Kinds
    <2>6. AppendProjected(e) BY <2>2, <2>4, Zenon
    <2> QED BY <1>1, <2>2, <2>5, <2>6
  <1>5. CASE UNCHANGED vars BY <1>2, <1>5 DEF vars
  <1>6. ASSUME NEW s \in Sweepers, Sweep(s), ~SweepEnvelope(s) PROVE rows' = rows
    BY <1>6 DEF Sweep, SweepInbox, SweepOutbox, SweepSkips, SweepDone, SweepStops, SweepEnds
  <1>7. ASSUME NEW e \in Events, AppendUndecryptable(e) PROVE rows' = rows
    BY <1>7 DEF AppendUndecryptable
  <1>8. ASSUME NEW r \in Rebuilders, RebuildRead(r) \/ RebuildStops(r) PROVE rows' = rows
    BY <1>8 DEF RebuildRead, RebuildStops
  <1>9. Tick => rows' = rows BY DEF Tick
  <1> QED BY <1>2, <1>3, <1>4, <1>5, <1>6, <1>7, <1>8, <1>9 DEF Next

\* A step takes the rows of an envelope back only if it is a rebuild that has missed
\* something.
LEMMA StepRegresses ==
  ASSUME MailboxInv, [Next]_vars, NEW t \in Targets, InOrder(t),
         Rank(rows'[t].inbox) < Rank(rows[t].inbox)
           \/ Rank(rows'[t].outbox) < Rank(rows[t].outbox)
  PROVE  \E r \in Rebuilders : RebuildWrite(r) /\ taken[r] # log
  <1>1. /\ Rank(rows[t].inbox) \in Nat /\ Rank(rows[t].outbox) \in Nat
        /\ Rank(rows'[t].inbox) \in Nat /\ Rank(rows'[t].outbox) \in Nat
    <2>1. MailboxInv' BY MailboxNextInv
    <2>2. rows[t] \in Row /\ rows'[t] \in Row BY <2>1 DEF MailboxInv, TypeOK
    <2> QED BY <2>2, StatusRanks DEF Row
  <1>2. PICK r \in Rebuilders : RebuildWrite(r) BY <1>1, RowsGoOn
  <1>3. CASE taken[r] = log
    <2>1. rows'[t] = Expected(log, t) BY <1>2, <1>3, RebuildWrites
    <2>2. Within(rows[t], Expected(log, t)) BY DEF MailboxInv, InOrder, Ordered
    <2> QED BY <1>1, <2>1, <2>2 DEF Within
  <1> QED BY <1>2, <1>3

\* No envelope goes back in its life cycle, for any events, rebuilds and sweeps, except by
\* a rebuild that has missed something.
THEOREM MailboxRegressesByOldRebuilds == Spec => OnlyOldRebuildsRegress
  <1>1. MailboxInv /\ [Next]_vars =>
          \A t \in Targets :
            InOrder(t) /\ (Rank(rows'[t].inbox) < Rank(rows[t].inbox)
                            \/ Rank(rows'[t].outbox) < Rank(rows[t].outbox))
            => \E r \in Rebuilders : RebuildWrite(r) /\ taken[r] # log
    BY StepRegresses
  <1> QED BY <1>1, MailboxInitInv, MailboxNextInv, PTL DEF Spec, OnlyOldRebuildsRegress

-----------------------------------------------------------------------------
(***************************************************************************)
(* What is kept by its parties.                                            *)
(***************************************************************************)

\* An event that was accepted has passed the checks.
EvInv ==
  /\ part = "events" => evEvent \in UnsignedEvent
  /\ evStage = "accepted" => evEvent \in UnsignedEvent /\ validateUnsignedEvent(evEvent)

\* Payloads of the three forms have no field in common that would make one another.
LEMMA CheckedKeepsItsScope ==
  ASSUME NEW e \in UnsignedEvent, validateUnsignedEvent(e)
  PROVE  /\ e.privacy \in Sealing /\ e.kind \notin Identity =>
              "ciphertext" \in e.payload.fields /\ e.payload.fields \cap {"text", "control"} = {}
         /\ e.privacy \notin Sealing => ~looksLikePrivatePayloadEnvelope(e.payload)
         /\ e.kind \in Decrypted => IsPrivatePayload(e.payload)
         /\ e.kind \in Reputations \cup {"control"} => e.privacy \notin Sealing
  <1> DEFINE p == e.payload
  <1>1. e.privacy \in KindScopes[e.kind] /\ FitsKind(e.kind, p) /\ FitsScope(e.privacy, e.kind, p)
    BY DEF validateUnsignedEvent
  <1>2. e.kind \in EVENT_KINDS /\ e.privacy \in PRIVACY_SCOPES BY DEF UnsignedEvent
  <1> HIDE DEF p
  <1>3. IsPrivatePayload(p) => p.fields = {"ciphertext", "box"} BY DEF IsPrivatePayload
  <1>4. IsMlsMessage(p) => p.fields = {"ciphertext", "message"} BY DEF IsMlsMessage
  <1>5. IsMlsControl(p) => p.fields = {"control"} /\ p.version = "control" BY DEF IsMlsControl
  <1>6. e.privacy \in Sealing /\ e.kind \notin Identity =>
          IsPrivatePayload(p) \/ (IsMlsMessage(p) /\ p.version = "message")
    BY <1>1 DEF FitsScope, Sealing, looksLikeMlsApplicationMessageEnvelope
  <1>7. e.privacy \notin Sealing => ~looksLikePrivatePayloadEnvelope(p)
    BY <1>1 DEF FitsScope, Sealing
  <1>8. e.kind \in Decrypted => IsPrivatePayload(p)
    <2> SUFFICES ASSUME e.kind \in Decrypted PROVE IsPrivatePayload(p) OBVIOUS
    <2>1. looksLikePrivatePayloadEnvelope(p) BY <1>1 DEF FitsKind
    <2>2. e.privacy \in Sealing /\ e.kind \notin Identity
      BY <1>7, <2>1 DEF Decrypted, Identity
    <2>3. "box" \in p.fields BY <2>1 DEF looksLikePrivatePayloadEnvelope
    <2> QED BY <1>4, <1>6, <2>2, <2>3
  <1>9. e.kind \in Reputations \cup {"control"} => e.privacy \notin Sealing
    <2> SUFFICES ASSUME e.kind \in Reputations \cup {"control"}, e.privacy \in Sealing PROVE FALSE
      OBVIOUS
    <2>1. e.kind \notin Identity BY DEF Reputations, Identity
    <2>2. "text" \in p.fields \/ IsMlsControl(p) BY <1>1 DEF FitsKind
    <2> QED BY <1>3, <1>4, <1>5, <1>6, <2>1, <2>2
  <1>10. e.privacy \in Sealing /\ e.kind \notin Identity =>
           "ciphertext" \in p.fields /\ p.fields \cap {"text", "control"} = {}
    BY <1>3, <1>4, <1>6
  <1> QED BY <1>7, <1>8, <1>9, <1>10 DEF p

-----------------------------------------------------------------------------
\* The wraps of an event are those of the recipients that its sender resolved from the
\* logs as it had read them.
WrapsOf(to, read, sealed) ==
  UNION {{[identity |-> i, device |-> d, ref |-> read[i].device[d].ref] :
            d \in {e \in Addressed(read[i]) : sealed \in {Anyone, e}}} : i \in to}

IsSealed(m) == m.to \subseteq Identities /\ m.wraps = WrapsOf(m.to, m.read, m.sealed)

MailInv ==
  /\ \A m \in smSent \cup smDraft : IsSealed(m)
  /\ DOMAIN smStored = MailDevices /\ DOMAIN smOpened = MailDevices
  /\ \A d \in MailDevices :
       /\ smStored[d] \subseteq smSent
       /\ \A m \in smOpened[d] : m \in smSent /\ KeyOutcome(m, d) = "resolved"

\* A sealed event opens for its parties and for no other device.
LEMMA OpensForItsParties ==
  ASSUME NEW m, IsSealed(m), NEW d \in MailDevices
  PROVE  KeyOutcome(m, d) = "resolved" <=> d \in Parties(m)
  <1> DEFINE h == HomeOf[d]
             row == m.read[h].device[d]
  <1>1. h \in Identities /\ HeldRef[d] # NoRef BY MailAssumption DEF MailAssumption
  <1>2. KeyOutcome(m, d) = "resolved" <=> \E w \in WrapsFor(m, d) : w.ref = HeldRef[d]
    BY DEF KeyOutcome, Unwraps
  <1>3. WrapsFor(m, d) =
          IF h \in m.to /\ d \in Addressed(m.read[h]) /\ m.sealed \in {Anyone, d}
          THEN {[identity |-> h, device |-> d, ref |-> row.ref]} ELSE {}
    BY DEF WrapsFor, IsSealed, WrapsOf
  <1>4. d \in Addressed(m.read[h]) <=> m.read[h].known /\ row.status = "active" /\ row.ref # NoRef
    BY DEF Addressed
  <1>5. (\E w \in WrapsFor(m, d) : w.ref = HeldRef[d]) <=>
          h \in m.to /\ d \in Addressed(m.read[h]) /\ m.sealed \in {Anyone, d} /\ row.ref = HeldRef[d]
    <2> HIDE DEF h, row
    <2>1. PICK own : own = [identity |-> h, device |-> d, ref |-> row.ref] OBVIOUS
    <2>2. own.ref = row.ref BY <2>1
    <2> QED BY Zenon, <1>3, <2>1, <2>2
  <1>6. d \in Parties(m) <=>
          /\ h \in m.to /\ m.read[h].known /\ row.status = "active" /\ row.ref = HeldRef[d]
          /\ m.sealed \in {Anyone, d}
    BY DEF Parties
  <1> HIDE DEF h, row
  <1> QED BY <1>1, <1>2, <1>4, <1>5, <1>6

\* What is sealed has the wraps of the recipients that were resolved.
LEMMA SealedWell ==
  ASSUME NEW to \in SUBSET Identities, NEW sealed, SealEvent(to, sealed)
  PROVE  \A m \in smDraft' : IsSealed(m)
  <1>1. PICK wraps : wraps = normalizeMailboxRecipients(resolveRecipients(to), sealed) OBVIOUS
  <1>2. PICK view : view = smView OBVIOUS
  <1>3. smDraft' = {[id |-> Cardinality(smSent), to |-> to, sealed |-> sealed, wraps |-> wraps,
                     read |-> view]}
    BY <1>1, <1>2 DEF SealEvent
  <1>4. wraps = {r \in UNION {{[identity |-> i, device |-> d, ref |-> view[i].device[d].ref] :
                                 d \in Addressed(view[i])} : i \in to} :
                   sealed \in {Anyone, r.device}}
    BY <1>1, <1>2 DEF normalizeMailboxRecipients, resolveRecipients
  <1>5. wraps = WrapsOf(to, view, sealed)
    <2>1. \A w : w \in wraps <=>
            \E i \in to : \E d \in Addressed(view[i]) :
              /\ w = [identity |-> i, device |-> d, ref |-> view[i].device[d].ref]
              /\ sealed \in {Anyone, d}
      BY <1>4
    <2>2. \A w : w \in WrapsOf(to, view, sealed) <=>
            \E i \in to : \E d \in Addressed(view[i]) :
              /\ w = [identity |-> i, device |-> d, ref |-> view[i].device[d].ref]
              /\ sealed \in {Anyone, d}
      BY DEF WrapsOf
    <2> QED BY <2>1, <2>2
  <1>6. ASSUME NEW m \in smDraft' PROVE IsSealed(m)
    <2>1. m.to = to /\ m.sealed = sealed /\ m.read = view /\ m.wraps = wraps BY <1>3
    <2> QED BY <1>5, <2>1 DEF IsSealed
  <1> QED BY <1>6

\* Every step of the mail keeps the invariant.
LEMMA MailStepInv ==
  ASSUME MailInv, MailNext \/ UNCHANGED smVars
  PROVE  MailInv'
  <1> USE DEF MailInv
  <1>1. ASSUME NEW i, NEW moved, LogMoves(i, moved) PROVE MailInv'
    BY <1>1 DEF LogMoves, KeyOutcome, WrapsFor, Unwraps
  <1>2. ASSUME NEW i \in Identities, PullLog(i) PROVE MailInv'
    BY <1>2 DEF PullLog
  <1>3. ASSUME NEW to \in SUBSET Identities, NEW sealed, SealEvent(to, sealed) PROVE MailInv'
    <2>1. UNCHANGED <<smSent, smStored, smOpened>> BY <1>3 DEF SealEvent
    <2> QED BY <1>3, <2>1, SealedWell
  <1>4. CASE AppendEvent \/ ForgetDraft
    BY <1>4 DEF AppendEvent, ForgetDraft, NoDraft
  <1>5. ASSUME NEW d \in MailDevices, NEW m \in smSent, ReceiveEvent(m, d) PROVE MailInv'
    <2>1. PICK opened \in {{}, {m}} :
            /\ opened # {} => KeyOutcome(m, d) = "resolved"
            /\ smOpened' = [smOpened EXCEPT ![d] = @ \cup opened]
      BY <1>5 DEF ReceiveEvent
    <2>2. /\ smStored' = [smStored EXCEPT ![d] = @ \cup {m}]
          /\ UNCHANGED <<smSent, smDraft>>
      BY <1>5 DEF ReceiveEvent
    <2> QED BY <2>1, <2>2
  <1>6. ASSUME NEW d \in MailDevices, ReloadEvents(d) PROVE MailInv'
    BY <1>6 DEF ReloadEvents
  <1>7. CASE UNCHANGED smVars BY <1>7 DEF smVars
  <1> QED
    BY <1>1, <1>2, <1>3, <1>4, <1>5, <1>6, <1>7
       DEF MailNext, CreateController, AuthorizeRecipient, RevokeRecipient

\* At first nothing is sealed.
LEMMA MailInitInv == MailInit => MailInv
BY DEF MailInit, MailInv, NoDraft

\* What is stored and opened fits the parties.
LEMMA OpenedFits == MailInv => OpenedByItsParties
BY OpensForItsParties DEF MailInv, OpenedByItsParties

\* OpenedByItsParties for any logs, identities and devices.
THEOREM MailIsOpenedByItsParties == MailSpec => []OpenedByItsParties
<1>1. MailInv /\ [MailNext]_smVars => MailInv' BY MailStepInv
<1> QED BY <1>1, MailInitInv, OpenedFits, PTL DEF MailSpec

\* KeptByItsParties for any devices and logs.
THEOREM DeviceKeepsParties == DeviceSpec => []KeptByItsParties
<1>1. DeviceInit => EvInv /\ MailInv
  BY MailInitInv DEF DeviceInit, EvInit, EvInv
<1>2. ASSUME EvInv, MailInv, [DeviceNext]_deviceVars PROVE EvInv' /\ MailInv'
  <2>1. MailNext \/ UNCHANGED smVars BY <1>2 DEF DeviceNext, deviceVars, Idles
  <2>2. part' = part /\ (UNCHANGED evVars \/ (part = "events" /\ EvNext))
    BY <1>2 DEF DeviceNext, deviceVars, Idles
  <2>3. ASSUME UNCHANGED evVars PROVE EvInv'
    <3>1. evEvent' = evEvent /\ evStage' = evStage BY <2>3 DEF evVars
    <3> QED BY <1>2, <2>2, <3>1 DEF EvInv, validateUnsignedEvent
  <2>4. ASSUME part = "events", EvNext PROVE EvInv'
    <3>1. evEvent' = evEvent /\ evEvent \in UnsignedEvent
      BY <1>2, <2>4 DEF EvInv, EvNext, CreateEvent, AcceptEvent, Passes
    <3>2. evStage' = "accepted" => validateUnsignedEvent(evEvent)
      BY <2>4 DEF EvNext, CreateEvent, AcceptEvent, Passes
    <3> QED BY <3>1, <3>2 DEF EvInv, validateUnsignedEvent
  <2>5. MailInv' BY <1>2, <2>1, MailStepInv
  <2> QED BY <2>2, <2>3, <2>4, <2>5
<1>3. EvInv => ScopesAreKept
  BY CheckedKeepsItsScope DEF EvInv, ScopesAreKept
<1>4. EvInv /\ MailInv => KeptByItsParties BY <1>3, OpenedFits DEF KeptByItsParties
<1> QED BY <1>1, <1>2, <1>4, PTL DEF DeviceSpec

-----------------------------------------------------------------------------
(* The rebuilds of the user data root.                                       *)

\* A log of the user data root, or a part of one.
IsUdrLog(S) == S \subseteq UdrEvents /\ IsFiniteSet(S)

\* Its order is strict and total, and it has a last event.
LEMMA UdrLogOrder ==
  ASSUME NEW S, IsUdrLog(S)
  PROVE  /\ \A e, f, g \in S : UdrBefore(e, f) /\ UdrBefore(f, g) => UdrBefore(e, g)
         /\ \A e, f \in S : e = f \/ UdrBefore(e, f) \/ UdrBefore(f, e)
         /\ \A e, f \in S : ~(UdrBefore(e, f) /\ UdrBefore(f, e))
         /\ \A e \in S : ~UdrBefore(e, e)
         /\ \A e, f \in S : UdrBefore(e, f) => e.at <= f.at
         /\ S # {} => \E e \in S : \A f \in S \ {e} : UdrBefore(f, e)
  <1>1. \A e \in S : e \in UdrEvent BY UdrAssumption DEF UdrAssumption, IsUdrLog
  <1>2. \A e \in S : e.at \in Nat /\ e.id \in Nat BY <1>1 DEF UdrEvent
  <1>3. Dated(S) BY <1>2, UdrAssumption DEF UdrAssumption, Dated, IsUdrLog
  <1>4. \A e, f : UdrBefore(e, f) <=> Before(e, f) BY DEF UdrBefore, Before
  <1>5. S # {} => \E e \in S : \A f \in S : f = e \/ Before(f, e) BY <1>3, DatedHasLast
  <1>6. S # {} => \E e \in S : \A f \in S \ {e} : UdrBefore(f, e) BY <1>4, <1>5
  <1>7. \A e, f \in S : UdrBefore(e, f) => e.at <= f.at BY <1>2 DEF UdrBefore
  <1>8. /\ \A e, f, g \in S : Before(e, f) /\ Before(f, g) => Before(e, g)
        /\ \A e, f \in S : e = f \/ Before(e, f) \/ Before(f, e)
        /\ \A e, f \in S : ~(Before(e, f) /\ Before(f, e))
        /\ \A e \in S : ~Before(e, e)
    BY <1>3, DatedOrder
  <1> QED BY <1>4, <1>6, <1>7, <1>8

\* The replay ends with the last event.
LEMMA UdrLastOfLog ==
  ASSUME NEW S, IsUdrLog(S), S # {}, NEW x, x = UdrReplayedLast(S)
  PROVE  x \in S /\ \A f \in S \ {x} : UdrBefore(f, x)
  BY UdrLogOrder DEF UdrReplayedLast

\* What an event that was not applied yet makes of each field.
LEMMA UdrFields ==
  ASSUME NEW state \in UdrState, NEW e \in UdrEvents, e \notin state.applied
  PROVE  /\ ApplyUdrEvent(state, e) =
              [members |-> IF e.kind = "added" THEN state.members \cup {e.item}
                           ELSE IF e.kind = "removed" THEN state.members \ {e.item}
                           ELSE state.members,
               mailbox |-> IF e.kind = "bound" THEN e.item ELSE state.mailbox,
               updatedAt |-> IF e.at > state.updatedAt THEN e.at ELSE state.updatedAt,
               applied |-> state.applied \cup {e}]
         /\ ApplyUdrEvent(state, e) \in UdrState
  <1>1. e \in UdrEvent BY UdrAssumption DEF UdrAssumption
  <1>2. e.kind \in {"added", "removed", "bound"} /\ e.item \in UdrItems /\ e.at \in Nat
    BY <1>1 DEF UdrEvent
  <1>3. PICK next : next = ApplyUdrKind(state, e) OBVIOUS
  <1>4. next = [members |-> IF e.kind = "added" THEN state.members \cup {e.item}
                            ELSE IF e.kind = "removed" THEN state.members \ {e.item}
                            ELSE state.members,
                mailbox |-> IF e.kind = "bound" THEN e.item ELSE state.mailbox,
                updatedAt |-> state.updatedAt,
                applied |-> state.applied]
    BY <1>2, <1>3 DEF ApplyUdrKind, UdrState
  <1>5. ApplyUdrEvent(state, e) =
          [next EXCEPT !.applied = @ \cup {e}, !.updatedAt = IF e.at > @ THEN e.at ELSE @]
    BY <1>3 DEF ApplyUdrEvent
  <1>6. ApplyUdrEvent(state, e) =
          [members |-> next.members, mailbox |-> next.mailbox,
           updatedAt |-> IF e.at > state.updatedAt THEN e.at ELSE state.updatedAt,
           applied |-> state.applied \cup {e}]
    BY <1>4, <1>5
  <1>7. next.members \in SUBSET UdrItems /\ next.mailbox \in UdrItems \cup {NoMailbox}
    BY <1>2, <1>4 DEF UdrState
  <1> QED BY <1>2, <1>4, <1>6, <1>7 DEF UdrState

\* What a log says, without its last event and with it.
LEMMA UdrGrows ==
  ASSUME NEW S, IsUdrLog(S), NEW x \in S, \A f \in S \ {x} : UdrBefore(f, x),
         NEW R, R = S \ {x}, UdrOf(R) \in UdrState
  PROVE  UdrOf(S) = ApplyUdrEvent(UdrOf(R), x)
  <1> DEFINE members(L) == {e.item : e \in {f \in NewestUdr(L) : f.kind = "added"}}
             updatedAt(L) == IF L = {} THEN 0 ELSE (CHOOSE e \in L : \A f \in L : f.at <= e.at).at
  <1>1. x \in UdrEvent /\ IsUdrLog(R)
    BY UdrAssumption, FS_Subset DEF UdrAssumption, IsUdrLog
  <1>2. \A L : UdrOf(L) = [members |-> members(L), mailbox |-> BoundBy(L),
                           updatedAt |-> updatedAt(L), applied |-> L]
    BY DEF UdrOf
  <1>3. PICK row \in UdrState : row = UdrOf(R) OBVIOUS
  <1>4. row.members = members(R) /\ row.mailbox = BoundBy(R) /\ row.updatedAt = updatedAt(R)
        /\ row.applied = R
    <2> HIDE DEF members, updatedAt
    <2> QED BY <1>2, <1>3
  <1>5. ~UdrBefore(x, x) /\ \A f \in R : ~UdrBefore(x, f) /\ UdrBefore(f, x)
    BY UdrLogOrder
  <1>6. \A e : e \in NewestUdr(S) <=>
                 \/ e = x
                 \/ e \in NewestUdr(R) /\ (x.item = e.item => x.kind = "bound")
    BY <1>5 DEF NewestUdr
  <1>7. members(S) = IF x.kind = "added" THEN row.members \cup {x.item}
                     ELSE IF x.kind = "removed" THEN row.members \ {x.item}
                     ELSE row.members
    <2> DEFINE added(L) == {f \in NewestUdr(L) : f.kind = "added"}
    <2>1. CASE x.kind = "bound"
      <3>1. added(S) = added(R) BY <1>6, <2>1
      <3> QED BY <1>4, <2>1, <3>1
    <2>2. CASE x.kind = "added"
      <3>1. \A i : i \in members(S) <=> i = x.item \/ i \in members(R) BY <1>6, <2>2
      <3> QED BY <1>4, <2>2, <3>1
    <2>3. CASE x.kind = "removed"
      <3>1. \A i : i \in members(S) <=> i # x.item /\ i \in members(R) BY <1>6, <2>3
      <3> QED BY <1>4, <2>3, <3>1
    <2> QED BY <1>1, <2>1, <2>2, <2>3 DEF UdrEvent
  <1>8. BoundBy(S) = IF x.kind = "bound" THEN x.item ELSE row.mailbox
    <2> DEFINE bound(L) == {e \in L : e.kind = "bound"}
    <2>1. CASE x.kind = "bound"
      <3>1. x \in bound(S) /\ \A f \in bound(S) : ~UdrBefore(x, f) BY <1>5, <2>1
      <3>2. \A e \in bound(S) : (\A f \in bound(S) : ~UdrBefore(e, f)) => e = x BY <1>5, <2>1
      <3>3. (CHOOSE e \in bound(S) : \A f \in bound(S) : ~UdrBefore(e, f)) = x BY <3>1, <3>2
      <3> QED BY <2>1, <3>1, <3>3 DEF BoundBy
    <2>2. CASE x.kind # "bound"
      <3>1. bound(S) = bound(R) BY <2>2
      <3> DEFINE last(B) == IF B = {} THEN NoMailbox
                            ELSE (CHOOSE e \in B : \A f \in B : ~UdrBefore(e, f)).item
      <3>2. BoundBy(S) = last(bound(S)) /\ BoundBy(R) = last(bound(R)) BY DEF BoundBy
      <3> HIDE DEF last, bound
      <3>3. BoundBy(S) = BoundBy(R) BY <3>1, <3>2
      <3> QED BY <1>4, <2>2, <3>3
    <2> QED BY <2>1, <2>2
  <1>9. updatedAt(S) = IF x.at > row.updatedAt THEN x.at ELSE row.updatedAt
    <2>1. \A e \in S : e.at \in Nat /\ e.at <= x.at
      <3>1. \A e \in S : e \in UdrEvent BY UdrAssumption DEF UdrAssumption, IsUdrLog
      <3>2. \A e \in S : e.at \in Nat BY <3>1 DEF UdrEvent
      <3> QED BY <1>5, <3>2, UdrLogOrder
    <2>2. updatedAt(S) = x.at
      <3>1. PICK e : e = CHOOSE g \in S : \A f \in S : f.at <= g.at OBVIOUS
      <3>2. e \in S /\ \A f \in S : f.at <= e.at BY <2>1, <3>1
      <3>3. e.at = x.at BY <2>1, <3>2
      <3> QED BY <3>1, <3>3
    <2>3. row.updatedAt <= x.at /\ row.updatedAt \in Nat
      <3>1. CASE R = {}
        BY <1>1, <1>4, <3>1 DEF UdrEvent
      <3>2. CASE R # {}
        <4>1. PICK l \in R : \A f \in R \ {l} : UdrBefore(f, l) BY <1>1, <3>2, UdrLogOrder
        <4>2. \A f \in R : f.at <= l.at BY <1>1, <2>1, <4>1, UdrLogOrder
        <4>3. PICK e : e = CHOOSE g \in R : \A f \in R : f.at <= g.at OBVIOUS
        <4>4. e \in R BY <4>2, <4>3
        <4>5. row.updatedAt = e.at BY <1>4, <3>2, <4>3
        <4> QED BY <2>1, <4>4, <4>5
      <3> QED BY <3>1, <3>2
    <2>4. x.at \in Nat BY <2>1
    <2> HIDE DEF updatedAt
    <2> QED BY <2>2, <2>3, <2>4
  <1>10. S = row.applied \cup {x} /\ x \notin row.applied BY <1>4
  <1>11. UdrOf(S) =
           [members |-> IF x.kind = "added" THEN row.members \cup {x.item}
                        ELSE IF x.kind = "removed" THEN row.members \ {x.item}
                        ELSE row.members,
            mailbox |-> IF x.kind = "bound" THEN x.item ELSE row.mailbox,
            updatedAt |-> IF x.at > row.updatedAt THEN x.at ELSE row.updatedAt,
            applied |-> row.applied \cup {x}]
    <2> HIDE DEF members, updatedAt
    <2> QED BY <1>2, <1>7, <1>8, <1>9, <1>10
  <1>12. x \in UdrEvents BY DEF IsUdrLog
  <1> QED BY <1>3, <1>10, <1>11, <1>12, UdrFields

\* The replay of a log gives what the log says.
LEMMA UdrReplayIsUdrOf ==
  ASSUME NEW S, IsUdrLog(S)
  PROVE  FoldedUdr(S) = UdrOf(S \ UdrInvalid) /\ UdrOf(S \ UdrInvalid) \in UdrState
  <1> DEFINE A == S \ UdrInvalid
             Steps(F) == F = [s \in SUBSET A |->
                                IF s = {} THEN EmptyUdrState
                                ELSE LET x == UdrReplayedLast(s) IN ApplyUdrEvent(F[s \ {x}], x)]
             iter == CHOOSE F : Steps(F)
             G == [s \in SUBSET A |-> UdrOf(s)]
  <1>1. \A s \in SUBSET A : IsUdrLog(s) BY FS_Subset DEF IsUdrLog
  <1>2. \A s \in SUBSET A : s # {} =>
          /\ UdrReplayedLast(s) \in s
          /\ \A f \in s \ {UdrReplayedLast(s)} : UdrBefore(f, UdrReplayedLast(s))
    BY <1>1, UdrLastOfLog
  <1>3. UdrOf({}) = EmptyUdrState /\ EmptyUdrState \in UdrState
    BY DEF UdrOf, EmptyUdrState, UdrState, BoundBy, NewestUdr
  <1>4. \A s \in SUBSET A : UdrOf(s) \in UdrState
    <2> DEFINE C == {s \in SUBSET A : UdrOf(s) \notin UdrState}
    <2> SUFFICES ASSUME C # {} PROVE FALSE OBVIOUS
    <2>1. \A s \in C : IsFiniteSet(s) BY <1>1 DEF IsUdrLog
    <2>2. PICK s \in C : \A r \in C : Cardinality(s) <= Cardinality(r)
      <3> HIDE DEF C
      <3> QED BY <2>1, SmallestSet
    <2>3. s \in SUBSET A /\ s # {} /\ UdrOf(s) \notin UdrState BY <1>3
    <2>4. PICK x \in s : \A f \in s \ {x} : UdrBefore(f, x) BY <1>2, <2>3
    <2>5. PICK r : r = s \ {x} OBVIOUS
    <2>6. Cardinality(r) = Cardinality(s) - 1 /\ Cardinality(s) \in Nat
      BY <2>1, <2>5, FS_RemoveElement, FS_CardinalityType
    <2>7. UdrOf(r) \in UdrState BY <2>2, <2>3, <2>5, <2>6
    <2>8. UdrOf(s) = ApplyUdrEvent(UdrOf(r), x) BY <1>1, <2>3, <2>4, <2>5, <2>7, UdrGrows
    <2>9. x \in UdrEvents /\ x \notin UdrOf(r).applied
      BY <1>1, <2>3, <2>5 DEF IsUdrLog, UdrOf
    <2> QED BY <2>3, <2>7, <2>8, <2>9, UdrFields
  <1>5. \A s \in SUBSET A : s # {} =>
          UdrOf(s) = ApplyUdrEvent(UdrOf(s \ {UdrReplayedLast(s)}), UdrReplayedLast(s))
    <2> SUFFICES ASSUME NEW s \in SUBSET A, s # {}
                 PROVE  UdrOf(s) = ApplyUdrEvent(UdrOf(s \ {UdrReplayedLast(s)}), UdrReplayedLast(s))
      OBVIOUS
    <2>1. PICK x \in s : x = UdrReplayedLast(s) /\ \A f \in s \ {x} : UdrBefore(f, x) BY <1>2
    <2>2. PICK r \in SUBSET A : r = s \ {x} OBVIOUS
    <2>3. UdrOf(s) = ApplyUdrEvent(UdrOf(r), x) BY <1>1, <1>4, <2>1, <2>2, UdrGrows
    <2> QED BY <2>1, <2>2, <2>3
  <1>6. Steps(G)
    <2>1. \A s \in SUBSET A : s # {} =>
            G[s] = ApplyUdrEvent(G[s \ {UdrReplayedLast(s)}], UdrReplayedLast(s))
      BY <1>5
    <2>2. \A s \in SUBSET A :
            G[s] = IF s = {} THEN EmptyUdrState
                   ELSE LET x == UdrReplayedLast(s) IN ApplyUdrEvent(G[s \ {x}], x)
      BY <1>3, <2>1
    <2> QED BY <2>2
  <1>7. Steps(iter) BY <1>6
  <1>8. FoldedUdr(S) = iter[A] BY DEF FoldedUdr, MapThenFoldSet
  <1>9. /\ iter[{}] = EmptyUdrState
         /\ \A s \in SUBSET A : s # {} =>
              iter[s] = ApplyUdrEvent(iter[s \ {UdrReplayedLast(s)}], UdrReplayedLast(s))
    <2> HIDE DEF iter
    <2> QED BY <1>7
  <1>10. iter[A] = UdrOf(A)
    <2> HIDE DEF iter
    <2> DEFINE C == {s \in SUBSET A : iter[s] # UdrOf(s)}
    <2> SUFFICES ASSUME C # {} PROVE FALSE OBVIOUS
    <2>1. \A s \in C : IsFiniteSet(s) BY <1>1 DEF IsUdrLog
    <2>2. PICK s \in C : \A r \in C : Cardinality(s) <= Cardinality(r)
      <3> HIDE DEF C
      <3> QED BY <2>1, SmallestSet
    <2>3. s \in SUBSET A /\ s # {} /\ iter[s] # UdrOf(s) BY <1>3, <1>9
    <2>4. PICK x \in s : x = UdrReplayedLast(s) BY <1>2, <2>3
    <2>5. PICK r \in SUBSET A : r = s \ {x} BY <2>3
    <2>6. Cardinality(r) = Cardinality(s) - 1 /\ Cardinality(s) \in Nat
      BY <2>1, <2>5, FS_RemoveElement, FS_CardinalityType
    <2>7. iter[r] = UdrOf(r) BY <2>2, <2>5, <2>6
    <2>8. iter[s] = ApplyUdrEvent(iter[r], x) /\ UdrOf(s) = ApplyUdrEvent(UdrOf(r), x)
      BY <1>5, <1>9, <2>3, <2>4, <2>5
    <2> QED BY <2>3, <2>7, <2>8
  <1> HIDE DEF iter
  <1> QED BY <1>4, <1>8, <1>10

-----------------------------------------------------------------------------
\* The log of the user data root is finite.
UdrInv == UdrTypeOK /\ IsFiniteSet(udrLog)

\* At first it is empty.
LEMMA UdrInitInv == UdrInit => UdrInv
BY FS_EmptySet DEF UdrInit, UdrInv, UdrTypeOK, EmptyUdrState, UdrState

\* What a rebuild writes.
LEMMA UdrRebuildWrites ==
  ASSUME UdrInv, NEW r \in UdrRebuilders, PutUdrState(r)
  PROVE  /\ udrRow' = UdrOf(udrOpened[r] \ UdrInvalid)
         /\ udrRow' \in UdrState
         /\ udrRow'.applied = udrOpened[r] \ UdrInvalid
         /\ udrOpened[r] \subseteq udrLog
  <1>1. udrOpened[r] \subseteq udrLog BY DEF UdrInv, UdrTypeOK
  <1>2. IsUdrLog(udrOpened[r]) BY <1>1, FS_Subset DEF UdrInv, UdrTypeOK, IsUdrLog
  <1>3. udrRow' = UdrOf(udrOpened[r] \ UdrInvalid) /\ udrRow' \in UdrState
    BY <1>2, UdrReplayIsUdrOf DEF PutUdrState
  <1> QED BY <1>1, <1>3 DEF UdrOf

\* An event that arrives is one more of the log.
LEMMA UdrAppends ==
  ASSUME UdrInv, NEW e \in UdrEvents, AppendUdrEvent(e) \/ AppendSealedUdrEvent(e)
  PROVE  UdrInv' /\ udrRow.applied \subseteq udrRow'.applied
  <1>1. udrLog' = udrLog \cup {e} /\ UNCHANGED <<udrRead, udrOpened, udrBusy>>
    BY DEF AppendUdrEvent, AppendSealedUdrEvent
  <1>2. IsFiniteSet(udrLog') BY <1>1, FS_AddElement DEF UdrInv
  <1>3. /\ udrRow' \in UdrState /\ udrRow'.applied \subseteq udrLog' \ UdrInvalid
        /\ udrRow.applied \subseteq udrRow'.applied
    <2>1. CASE AppendUdrEvent(e)
      <3>1. udrRow \in UdrState /\ e \notin udrRow.applied /\ e \notin UdrInvalid
            /\ udrRow' = ApplyUdrEvent(udrRow, e)
        BY <2>1 DEF AppendUdrEvent, UdrInv, UdrTypeOK
      <3>2. udrRow' \in UdrState /\ udrRow'.applied = udrRow.applied \cup {e} BY <3>1, UdrFields
      <3> QED BY <1>1, <3>1, <3>2 DEF UdrInv, UdrTypeOK
    <2>2. CASE AppendSealedUdrEvent(e)
      <3>1. udrRow' = udrRow BY <2>2 DEF AppendSealedUdrEvent
      <3> QED BY <1>1, <3>1 DEF UdrInv, UdrTypeOK
    <2> QED BY <2>1, <2>2
  <1>4. /\ udrLog' \subseteq UdrEvents
        /\ udrRead' \in [UdrRebuilders -> SUBSET udrLog']
        /\ udrOpened' \in [UdrRebuilders -> SUBSET udrLog']
        /\ udrBusy' \subseteq UdrRebuilders
    BY <1>1 DEF UdrInv, UdrTypeOK
  <1> QED BY <1>2, <1>3, <1>4 DEF UdrInv, UdrTypeOK

\* A step other than a rebuild's last forgets no event.
LEMMA UdrStepInv ==
  ASSUME UdrInv, UdrNext \/ UNCHANGED udrVars
  PROVE  /\ UdrInv'
         /\ \/ udrRow.applied \subseteq udrRow'.applied
            \/ \E r \in UdrRebuilders : PutUdrState(r)
  <1>1. ASSUME NEW r \in UdrRebuilders, ReadUdrLog(r) PROVE UdrInv' /\ udrRow' = udrRow
    BY <1>1 DEF ReadUdrLog, UdrInv, UdrTypeOK
  <1>2. ASSUME NEW r \in UdrRebuilders, PutUdrState(r) PROVE UdrInv'
    <2>1. udrRow' \in UdrState /\ udrRow'.applied \subseteq udrLog \ UdrInvalid
      BY <1>2, UdrRebuildWrites
    <2>2. udrLog' = udrLog BY <1>2 DEF PutUdrState
    <2>3. /\ udrRead' \in [UdrRebuilders -> SUBSET udrLog]
          /\ udrOpened' \in [UdrRebuilders -> SUBSET udrLog]
          /\ udrBusy' \subseteq UdrRebuilders
      BY <1>2 DEF PutUdrState, UdrRebuildEnds, UdrInv, UdrTypeOK
    <2> QED BY <2>1, <2>2, <2>3 DEF UdrInv, UdrTypeOK
  <1>3. ASSUME NEW r \in UdrRebuilders, UdrRebuildStops(r) PROVE UdrInv' /\ udrRow' = udrRow
    BY <1>3 DEF UdrRebuildStops, UdrRebuildEnds, UdrInv, UdrTypeOK
  <1>4. CASE UNCHANGED udrVars BY <1>4 DEF udrVars, UdrInv, UdrTypeOK
  <1> QED BY <1>1, <1>2, <1>3, <1>4, UdrAppends DEF UdrNext

\* And what a step may forget.
UdrStepHeals ==
  /\ \A r \in UdrRebuilders :
       PutUdrState(r) /\ udrOpened[r] = udrLog => udrRow' = UdrOf(udrLog \ UdrInvalid)
  /\ \A e \in udrRow.applied \ udrRow'.applied :
       \E r \in UdrRebuilders : PutUdrState(r) /\ (e \notin udrRead[r] \/ e \notin udrOpened[r])

\* It forgets only what a rebuild has missed.
LEMMA UdrHeals ==
  ASSUME UdrInv, UdrNext \/ UNCHANGED udrVars
  PROVE  UdrStepHeals
  <1>1. ASSUME NEW e \in udrRow.applied \ udrRow'.applied
        PROVE  \E r \in UdrRebuilders : PutUdrState(r) /\ (e \notin udrRead[r] \/ e \notin udrOpened[r])
    <2>1. PICK r \in UdrRebuilders : PutUdrState(r) BY UdrStepInv
    <2>2. e \notin udrOpened[r] \ UdrInvalid BY <2>1, UdrRebuildWrites
    <2>3. e \notin UdrInvalid BY DEF UdrInv, UdrTypeOK
    <2> QED BY <2>1, <2>2, <2>3
  <1> QED BY <1>1, UdrRebuildWrites DEF UdrStepHeals

\* A rebuild of the user data root that has read and can open all of its log puts the row
\* right, and the row forgets nothing else, for any events, keys and rebuilds.
THEOREM UdrRebuildsAreHealing == UdrSpec => UdrRebuildsHeal
  <1>1. UdrInv /\ [UdrNext]_udrVars => UdrInv' BY UdrStepInv
  <1>2. UdrInv /\ [UdrNext]_udrVars => UdrStepHeals BY UdrHeals
  <1> QED BY <1>1, <1>2, UdrInitInv, PTL DEF UdrSpec, UdrRebuildsHeal, UdrStepHeals

\* ProjectionsHeal for any events, rebuilds and sweeps: of the mailbox and of the user data
\* root.
THEOREM DeviceProjectionsHeal == DeviceSpec => ProjectionsHeal
  <1>1. DeviceInit => MailboxInv /\ UdrInv BY MailboxInitInv, UdrInitInv DEF DeviceInit
  <1>2. ASSUME MailboxInv, UdrInv, [DeviceNext]_deviceVars
        PROVE  MailboxInv' /\ UdrInv' /\ [Next]_vars /\ (UdrNext \/ UNCHANGED udrVars)
    <2>1. [Next]_vars /\ (UdrNext \/ UNCHANGED udrVars)
      BY <1>2 DEF DeviceNext, deviceVars, Idles
    <2> QED BY <1>2, <2>1, MailboxNextInv, UdrStepInv
  <1>3. MailboxInv /\ UdrInv /\ [DeviceNext]_deviceVars =>
          [\A r \in Rebuilders : RebuildWrite(r) /\ taken[r] = log =>
             \A t \in Targets : rows'[t] = Expected(log, t)]_vars
    BY RebuildWrites
  <1>4. MailboxInv /\ UdrInv /\ [DeviceNext]_deviceVars => UdrStepHeals BY <1>2, UdrHeals
  <1> QED BY <1>1, <1>2, <1>3, <1>4, PTL
          DEF DeviceSpec, ProjectionsHeal, RebuildHeals, UdrRebuildsHeal, UdrStepHeals

-----------------------------------------------------------------------------
(* Routes and threads.                                                       *)

\* The receipts that k has taken, and those of them of the rank that its status has.
TakenBy(k) == {r \in Receipts : r.id \in rsReceiptIds[k]}

StatusOf(r) == receiptTypeToStatus[r.type]

RankOf(status) == STATUS_PRECEDENCE[status]

TopOf(k) == {r \in TakenBy(k) : RankOf(StatusOf(r)) = RankOf(rsStatus[k])}

\* The status of k is of the highest rank that its receipts have, and its date is the last
\* one that those of this rank have, if any has one.
FollowsReceipts(k, createdAt) ==
  /\ TakenBy(k) = {} => rsStatus[k] = "queued" /\ rsUpdatedAt[k] = createdAt
  /\ TakenBy(k) # {} =>
       /\ \A r \in TakenBy(k) : RankOf(StatusOf(r)) <= RankOf(rsStatus[k])
       /\ \E r \in TopOf(k) : r.at = rsUpdatedAt[k]
       /\ \A r \in TopOf(k) :
            r.at # NoDate => rsUpdatedAt[k] # NoDate /\ r.at <= rsUpdatedAt[k]

RouteInv ==
  /\ RouteTypeOK
  /\ DOMAIN rsUpdatedAt = RouteKeepers
  /\ \E createdAt \in {0, NoDate} : \A k \in RouteKeepers : FollowsReceipts(k, createdAt)

\* The ranks of all statuses, and of those that receipts bring.
LEMMA RouteRanks ==
  /\ \A s \in DOMAIN STATUS_PRECEDENCE : RankOf(s) \in 0..6
  /\ RankOf("queued") = 0
  /\ \A r \in MailboxReceipt : /\ StatusOf(r) \in DOMAIN STATUS_PRECEDENCE
                               /\ RankOf(StatusOf(r)) > 0
  /\ \A s, t \in DOMAIN STATUS_PRECEDENCE :
       RankOf(s) = RankOf(t) => s = t \/ {s, t} \subseteq {"expired", "unreadable", "failed"}
  BY DEF RankOf, StatusOf, STATUS_PRECEDENCE, receiptTypeToStatus, MailboxReceipt

\* A receipt that k has not taken yet is one more.
LEMMA ReceiptFollows ==
  ASSUME RouteInv, NEW k \in RouteKeepers, NEW r \in Receipts, ApplyReceipt(k, r),
         NEW createdAt \in {0, NoDate}, FollowsReceipts(k, createdAt)
  PROVE  /\ FollowsReceipts(k, createdAt)'
         /\ rsStatus'[k] \in DOMAIN STATUS_PRECEDENCE
         /\ rsUpdatedAt'[k] \in Nat \cup {NoDate}
  <1> DEFINE status == StatusOf(r)
             later == RankOf(status) > RankOf(rsStatus[k])
             newer == RankOf(status) = RankOf(rsStatus[k]) /\ isNewerTimestamp(r.at, rsUpdatedAt[k])
  <1>1. /\ r \in MailboxReceipt /\ r.at \in Nat \cup {NoDate} /\ NoDate \notin Nat
        /\ \A s \in TakenBy(k) : s \in MailboxReceipt /\ s.at \in Nat \cup {NoDate}
    BY RouteAssumption DEF RouteAssumption, RouteInv, RouteTypeOK, MailboxReceipt, TakenBy
  <1>2. /\ rsStatus[k] \in DOMAIN STATUS_PRECEDENCE /\ rsUpdatedAt[k] \in Nat \cup {NoDate}
        /\ rsStatus \in [RouteKeepers -> DOMAIN STATUS_PRECEDENCE]
        /\ DOMAIN rsUpdatedAt = RouteKeepers /\ DOMAIN rsReceiptIds = RouteKeepers
    BY DEF RouteInv, RouteTypeOK
  <1>3. /\ rsReceiptIds'[k] = rsReceiptIds[k] \cup {r.id} /\ r.id \notin rsReceiptIds[k]
        /\ rsStatus'[k] = IF later THEN status ELSE rsStatus[k]
        /\ rsUpdatedAt'[k] = IF later \/ newer THEN r.at ELSE rsUpdatedAt[k]
    BY <1>2 DEF ApplyReceipt, Supersedes, SameRank, RankOf, StatusOf
  <1>4. TakenBy(k)' = TakenBy(k) \cup {r} /\ r \notin TakenBy(k)
    BY <1>3, RouteAssumption DEF RouteAssumption, TakenBy
  <1>5. /\ status \in DOMAIN STATUS_PRECEDENCE /\ RankOf(status) \in 0..6 /\ RankOf(status) > 0
        /\ RankOf(rsStatus[k]) \in 0..6
        /\ \A s \in TakenBy(k) : RankOf(StatusOf(s)) \in 0..6
    BY <1>1, <1>2, RouteRanks
  <1>6. rsStatus'[k] \in DOMAIN STATUS_PRECEDENCE /\ rsUpdatedAt'[k] \in Nat \cup {NoDate}
    BY <1>1, <1>2, <1>3, <1>5
  <1>7. TopOf(k)' = {s \in TakenBy(k)' : RankOf(StatusOf(s)) = RankOf(rsStatus'[k])}
    BY DEF TopOf, RankOf, StatusOf
  <1>8. /\ \A s \in TakenBy(k)' : RankOf(StatusOf(s)) <= RankOf(rsStatus'[k])
        /\ \E s \in TopOf(k)' : s.at = rsUpdatedAt'[k]
        /\ \A s \in TopOf(k)' :
             s.at # NoDate => rsUpdatedAt'[k] # NoDate /\ s.at <= rsUpdatedAt'[k]
    <2> HIDE DEF status
    <2>1. CASE later
      <3>1. rsStatus'[k] = status /\ rsUpdatedAt'[k] = r.at BY <1>3, <2>1
      <3>2. \A s \in TakenBy(k) : RankOf(StatusOf(s)) < RankOf(status)
        <4>1. CASE TakenBy(k) = {} BY <4>1
        <4>2. CASE TakenBy(k) # {} BY <1>5, <2>1, <4>2 DEF FollowsReceipts
        <4> QED BY <4>1, <4>2
      <3>3. TopOf(k)' = {r} BY <1>4, <1>5, <1>7, <3>1, <3>2 DEF status
      <3>4. \A s \in TakenBy(k)' : RankOf(StatusOf(s)) <= RankOf(status)
        BY <1>4, <1>5, <3>2 DEF status
      <3> QED BY <1>1, <3>1, <3>3, <3>4
    <2>2. CASE ~later
      <3>1. rsStatus'[k] = rsStatus[k] BY <1>3, <2>2
      <3>2. TakenBy(k) # {}
        BY <1>5, <2>2, RouteRanks DEF FollowsReceipts
      <3>3. /\ \A s \in TakenBy(k) : RankOf(StatusOf(s)) <= RankOf(rsStatus[k])
            /\ \E s \in TopOf(k) : s.at = rsUpdatedAt[k]
            /\ \A s \in TopOf(k) :
                 s.at # NoDate => rsUpdatedAt[k] # NoDate /\ s.at <= rsUpdatedAt[k]
        BY <3>2 DEF FollowsReceipts
      <3>4. TopOf(k)' = TopOf(k) \cup (IF RankOf(status) = RankOf(rsStatus[k]) THEN {r} ELSE {})
        BY <1>4, <1>7, <3>1 DEF TopOf, status
      <3>5. \A s \in TakenBy(k)' : RankOf(StatusOf(s)) <= RankOf(rsStatus'[k])
        BY <1>4, <1>5, <2>2, <3>1, <3>3 DEF status
      <3>6. \A s \in TopOf(k) : s.at \in Nat \cup {NoDate} BY <1>1 DEF TopOf
      <3>7. CASE newer
        <4>1. rsUpdatedAt'[k] = r.at /\ TopOf(k)' = TopOf(k) \cup {r} BY <1>3, <3>4, <3>7
        <4>2. r.at # NoDate /\ (rsUpdatedAt[k] = NoDate \/ r.at > rsUpdatedAt[k])
          BY <3>7 DEF isNewerTimestamp
        <4>3. \A s \in TopOf(k) : s.at # NoDate => s.at <= r.at
          BY <1>1, <1>2, <3>3, <3>6, <4>2
        <4> QED BY <1>1, <3>5, <4>1, <4>2, <4>3
      <3>8. CASE ~newer
        <4>1. rsUpdatedAt'[k] = rsUpdatedAt[k] BY <1>3, <2>2, <3>8
        <4>2. RankOf(status) = RankOf(rsStatus[k]) /\ r.at # NoDate =>
                rsUpdatedAt[k] # NoDate /\ r.at <= rsUpdatedAt[k]
          BY <1>1, <1>2, <3>8 DEF isNewerTimestamp
        <4> QED BY <3>3, <3>4, <3>5, <4>1, <4>2
      <3> QED BY <3>7, <3>8
    <2> QED BY <2>1, <2>2
  <1>9. TakenBy(k)' # {} BY <1>4
  <1> QED BY <1>6, <1>8, <1>9 DEF FollowsReceipts, RankOf, StatusOf

\* Every step keeps the invariant.
LEMMA RouteStepInv ==
  ASSUME RouteInv, RouteNext \/ UNCHANGED rsVars
  PROVE  RouteInv'
  <1>1. CASE UNCHANGED rsVars
    BY <1>1 DEF rsVars, RouteInv, RouteTypeOK, FollowsReceipts, TopOf, TakenBy, RankOf, StatusOf
  <1>2. ASSUME NEW k \in RouteKeepers, NEW r \in Receipts, ApplyReceipt(k, r) PROVE RouteInv'
    <2>1. PICK createdAt \in {0, NoDate} : \A l \in RouteKeepers : FollowsReceipts(l, createdAt)
      BY DEF RouteInv
    <2>2. /\ FollowsReceipts(k, createdAt)'
          /\ rsStatus'[k] \in DOMAIN STATUS_PRECEDENCE
          /\ rsUpdatedAt'[k] \in Nat \cup {NoDate}
      BY <1>2, <2>1, ReceiptFollows
    <2>3. /\ rsStatus' = [rsStatus EXCEPT ![k] = rsStatus'[k]]
          /\ rsUpdatedAt' = [rsUpdatedAt EXCEPT ![k] = rsUpdatedAt'[k]]
          /\ rsReceiptIds' = [rsReceiptIds EXCEPT ![k] = rsReceiptIds[k] \cup {r.id}]
      BY <1>2 DEF ApplyReceipt, RouteInv, RouteTypeOK
    <2>4. \A l \in RouteKeepers \ {k} : /\ rsStatus'[l] = rsStatus[l]
                                        /\ rsUpdatedAt'[l] = rsUpdatedAt[l]
                                        /\ rsReceiptIds'[l] = rsReceiptIds[l]
      BY <2>3 DEF RouteInv, RouteTypeOK
    <2>5. \A l \in RouteKeepers \ {k} : FollowsReceipts(l, createdAt)'
      BY <2>1, <2>4 DEF FollowsReceipts, TopOf, TakenBy, RankOf, StatusOf
    <2>6. RouteTypeOK' /\ DOMAIN rsUpdatedAt' = RouteKeepers
      BY <2>2, <2>3, <2>4 DEF RouteInv, RouteTypeOK
    <2> QED BY <2>2, <2>5, <2>6 DEF RouteInv
  <1> QED BY <1>1, <1>2 DEF RouteNext, ReceiptAgain

\* At first nobody has a receipt.
LEMMA RouteInitInv == RouteInit => RouteInv
  BY RouteAssumption
     DEF RouteAssumption, RouteInit, RouteInv, RouteTypeOK, FollowsReceipts, TakenBy, STATUS_PRECEDENCE

\* Whoever has the same receipts shows the same.
LEMMA SameReceiptsAgree == RouteInv => RoutesAgree
  <1> SUFFICES ASSUME RouteInv, NEW k \in RouteKeepers, NEW l \in RouteKeepers,
                      rsReceiptIds[k] = rsReceiptIds[l]
               PROVE  /\ RankOf(rsStatus[k]) = RankOf(rsStatus[l])
                      /\ rsUpdatedAt[k] = rsUpdatedAt[l]
                      /\ rsStatus[k] # rsStatus[l] =>
                           {rsStatus[k], rsStatus[l]} \subseteq {"expired", "unreadable", "failed"}
    BY DEF RoutesAgree, SameRank, RankOf
  <1>1. TakenBy(k) = TakenBy(l) BY DEF TakenBy
  <1>2. PICK createdAt \in {0, NoDate} : FollowsReceipts(k, createdAt) /\ FollowsReceipts(l, createdAt)
    BY DEF RouteInv
  <1>3. rsStatus[k] \in DOMAIN STATUS_PRECEDENCE /\ rsStatus[l] \in DOMAIN STATUS_PRECEDENCE
    BY DEF RouteInv, RouteTypeOK
  <1>4. CASE TakenBy(k) = {} BY <1>1, <1>2, <1>4 DEF FollowsReceipts
  <1>5. CASE TakenBy(k) # {}
    <2>1. PICK r \in TopOf(k) : r.at = rsUpdatedAt[k] BY <1>2, <1>5 DEF FollowsReceipts
    <2>2. PICK s \in TopOf(l) : s.at = rsUpdatedAt[l] BY <1>1, <1>2, <1>5 DEF FollowsReceipts
    <2>3. RankOf(rsStatus[k]) <= RankOf(rsStatus[l]) /\ RankOf(rsStatus[l]) <= RankOf(rsStatus[k])
      BY <1>1, <1>2, <1>5, <2>1, <2>2 DEF FollowsReceipts, TopOf
    <2>4. RankOf(rsStatus[k]) = RankOf(rsStatus[l]) BY <1>3, <2>3, RouteRanks
    <2>5. TopOf(k) = TopOf(l) BY <1>1, <2>4 DEF TopOf
    <2>6. /\ r.at # NoDate => rsUpdatedAt[l] # NoDate /\ r.at <= rsUpdatedAt[l]
          /\ s.at # NoDate => rsUpdatedAt[k] # NoDate /\ s.at <= rsUpdatedAt[k]
      BY <1>1, <1>2, <1>5, <2>1, <2>2, <2>5 DEF FollowsReceipts
    <2>7. rsUpdatedAt[k] \in Nat \cup {NoDate} /\ rsUpdatedAt[l] \in Nat \cup {NoDate}
      BY DEF RouteInv, RouteTypeOK
    <2>8. rsUpdatedAt[k] = rsUpdatedAt[l]
      BY <2>1, <2>2, <2>6, <2>7, RouteAssumption DEF RouteAssumption
    <2> QED BY <1>3, <2>4, <2>8, RouteRanks
  <1> QED BY <1>4, <1>5

\* Two who have taken the same receipts agree, for any receipts, in any order.
THEOREM RouteKeepersAgree == RouteSpec => []RoutesAgree
  <1>1. RouteInv /\ [RouteNext]_rsVars => RouteInv' BY RouteStepInv
  <1> QED BY <1>1, RouteInitInv, SameReceiptsAgree, PTL DEF RouteSpec

-----------------------------------------------------------------------------
\* The events that d has applied, and of them those of a kind about a message.
AppliedBy(d) == {e \in ChatEvents : e.id \in ctApplied[d]}

\* A message of d is as it was sent, or as it was edited, until it is deleted.
MessageFollows(d, m) ==
  /\ m.deleted => m.body = NoBody
  /\ m.deleted <=> Of(d, "deleted", m.id) # {}
  /\ \E e \in Of(d, "sent", m.id) :
       /\ m.by = e.by
       /\ ~m.deleted /\ Of(d, "edited", m.id) = {} => m.body = e.body
  /\ ~m.deleted /\ Of(d, "edited", m.id) # {} =>
       \E e \in Of(d, "edited", m.id) : m.body = e.body

\* What d shows is what the events it has applied say, whatever their order: who created
\* the thread, who accepted it, and which messages were sent.
FollowsEvents(d) ==
  /\ ctApplied[d] = {e.id : e \in AppliedBy(d)} /\ IsFiniteSet(AppliedBy(d))
  /\ \A e \in AppliedBy(d) : e.kind = "created" => ctCreated[d] = e.id
  /\ ctCreated[d] # NoThread => \E e \in AppliedBy(d) : e.kind = "created" /\ ctCreated[d] = e.id
  /\ ctAcceptedBy[d] = {e.by : e \in {f \in AppliedBy(d) : f.kind = "accepted"}}
  /\ \A m, n \in ctMessages[d] : m.id = n.id => m = n
  /\ \A e \in AppliedBy(d) : e.kind \in {"sent", "edited", "deleted"} =>
       \E m \in ctMessages[d] : m.id = e.message
  /\ \A m \in ctMessages[d] : MessageFollows(d, m)

ChatInv ==
  /\ DOMAIN ctCreated = ChatDevices /\ DOMAIN ctMessages = ChatDevices
  /\ DOMAIN ctAcceptedBy = ChatDevices /\ DOMAIN ctApplied = ChatDevices
  /\ ChatTypeOK
  /\ \A d \in ChatDevices : FollowsEvents(d)

\* An event that is applied is one more, and one more of its kind about its message.
LEMMA AppliedGrows ==
  ASSUME NEW d \in ChatDevices, ChatInv, NEW e \in ChatEvents, NEW kind, Applies(d, e, kind)
  PROVE  /\ AppliedBy(d)' = AppliedBy(d) \cup {e} /\ e.kind = kind
         /\ e \notin AppliedBy(d)
         /\ ctApplied'[d] = ctApplied[d] \cup {e.id}
         /\ ctApplied' = [ctApplied EXCEPT ![d] = ctApplied'[d]]
         /\ ctApplied'[d] = {f.id : f \in AppliedBy(d)'} /\ IsFiniteSet(AppliedBy(d)')
         /\ ctApplied'[d] \subseteq {f.id : f \in ChatEvents}
         /\ \A k, id : k # kind \/ id # e.message => Of(d, k, id)' = Of(d, k, id)
         /\ Of(d, kind, e.message)' = Of(d, kind, e.message) \cup {e}
  <1>1. /\ e.kind = kind /\ e.id \notin ctApplied[d] /\ DOMAIN ctApplied = ChatDevices
        /\ ctApplied' = [ctApplied EXCEPT ![d] = @ \cup {e.id}]
    BY DEF Applies, ChatInv
  <1>2. ctApplied'[d] = ctApplied[d] \cup {e.id} BY <1>1
  <1>3. \A f \in ChatEvents : f.id = e.id <=> f = e BY ChatAssumption DEF ChatAssumption
  <1>4. AppliedBy(d)' = AppliedBy(d) \cup {e} /\ e \notin AppliedBy(d)
    BY <1>1, <1>2, <1>3 DEF AppliedBy
  <1>5. /\ ctApplied[d] = {f.id : f \in AppliedBy(d)} /\ IsFiniteSet(AppliedBy(d))
        /\ ctApplied[d] \subseteq {f.id : f \in ChatEvents}
    BY DEF ChatInv, FollowsEvents, ChatTypeOK
  <1>6. IsFiniteSet(AppliedBy(d)') BY <1>4, <1>5, FS_AddElement
  <1>7. ctApplied'[d] = {f.id : f \in AppliedBy(d)'} BY <1>2, <1>4, <1>5
  <1>8. \A k, id : k # kind \/ id # e.message => Of(d, k, id)' = Of(d, k, id)
    BY <1>1, <1>2, <1>3 DEF Of
  <1>9. Of(d, kind, e.message)' = Of(d, kind, e.message) \cup {e}
    BY <1>1, <1>2, <1>3 DEF Of
  <1> QED BY <1>1, <1>2, <1>4, <1>5, <1>6, <1>7, <1>8, <1>9

\* The thread is created, accepted or passed by.
LEMMA ThreadFollows ==
  ASSUME NEW d \in ChatDevices, ChatInv, NEW e \in ChatEvents,
         ThreadCreated(d, e) \/ ThreadAccepted(d, e) \/ UnknownPasses(d, e)
  PROVE  /\ FollowsEvents(d)' /\ ctMessages'[d] \subseteq ChatMessageRecord
         /\ ctCreated'[d] \in ctApplied'[d] \cup {NoThread}
  <1>1. PICK kind \in {"created", "accepted", "unknown"} : Applies(d, e, kind)
    BY DEF ThreadCreated, ThreadAccepted, UnknownPasses
  <1>2. /\ AppliedBy(d)' = AppliedBy(d) \cup {e} /\ e.kind = kind /\ e \notin AppliedBy(d)
        /\ ctApplied'[d] = ctApplied[d] \cup {e.id}
        /\ ctApplied'[d] = {f.id : f \in AppliedBy(d)'} /\ IsFiniteSet(AppliedBy(d)')
        /\ \A k, id : k # kind => Of(d, k, id)' = Of(d, k, id)
    BY <1>1, AppliedGrows
  <1>3. \A id : /\ Of(d, "sent", id)' = Of(d, "sent", id)
                /\ Of(d, "edited", id)' = Of(d, "edited", id)
                /\ Of(d, "deleted", id)' = Of(d, "deleted", id)
    <2> TAKE id
    <2>1. kind \notin {"sent", "edited", "deleted"} OBVIOUS
    <2> QED BY <1>2, <2>1, Zenon
  <1>4. ctMessages' = ctMessages BY DEF ThreadCreated, ThreadAccepted, UnknownPasses
  <1>5. FollowsEvents(d) /\ ctMessages[d] \subseteq ChatMessageRecord
        /\ ctCreated[d] \in ctApplied[d] \cup {NoThread}
    BY DEF ChatInv, ChatTypeOK
  <1>6. /\ ctCreated'[d] = IF kind = "created" THEN e.id ELSE ctCreated[d]
        /\ kind = "created" => ctCreated[d] = NoThread
        /\ ctAcceptedBy'[d] = IF kind = "accepted" THEN ctAcceptedBy[d] \cup {e.by} ELSE ctAcceptedBy[d]
    BY <1>2 DEF ThreadCreated, ThreadAccepted, UnknownPasses, Applies, ChatInv
  <1>7. e.id # NoThread /\ \A f \in AppliedBy(d) : f.id # NoThread
    BY ChatAssumption DEF ChatAssumption, ChatEvent, AppliedBy
  <1>8. /\ \A f \in AppliedBy(d)' : f.kind = "created" => ctCreated'[d] = f.id
        /\ ctCreated'[d] # NoThread =>
             \E f \in AppliedBy(d)' : f.kind = "created" /\ ctCreated'[d] = f.id
    BY <1>2, <1>5, <1>6, <1>7 DEF FollowsEvents
  <1>9. ctAcceptedBy'[d] = {f.by : f \in {g \in AppliedBy(d)' : g.kind = "accepted"}}
    BY <1>2, <1>5, <1>6 DEF FollowsEvents
  <1>10. \A f \in AppliedBy(d)' : f.kind \in {"sent", "edited", "deleted"} =>
           \E m \in ctMessages'[d] : m.id = f.message
    BY <1>2, <1>4, <1>5 DEF FollowsEvents
  <1>11. ctCreated'[d] \in ctApplied'[d] \cup {NoThread} BY <1>2, <1>5, <1>6
  <1>12. ASSUME NEW m \in ctMessages'[d] PROVE MessageFollows(d, m)'
    <2>1. MessageFollows(d, m) BY <1>4, <1>5 DEF FollowsEvents
    <2> QED BY <1>3, <2>1, Zenon DEF MessageFollows
  <1>13. \A m, n \in ctMessages'[d] : m.id = n.id => m = n BY <1>4, <1>5 DEF FollowsEvents
  <1> QED BY <1>2, <1>4, <1>5, <1>8, <1>9, <1>10, <1>11, <1>12, <1>13, Zenon DEF FollowsEvents

\* A message is sent, edited or deleted.
LEMMA MessageFollowsEvent ==
  ASSUME NEW d \in ChatDevices, ChatInv, NEW e \in ChatEvents,
         MessageSent(d, e) \/ MessageEdited(d, e) \/ MessageDeleted(d, e)
  PROVE  /\ FollowsEvents(d)' /\ ctMessages'[d] \subseteq ChatMessageRecord
         /\ ctCreated'[d] \in ctApplied'[d] \cup {NoThread}
  <1>1. PICK kind \in {"sent", "edited", "deleted"} :
          /\ Applies(d, e, kind)
          /\ kind = "sent" => MessageSent(d, e)
          /\ kind = "edited" => MessageEdited(d, e)
          /\ kind = "deleted" => MessageDeleted(d, e)
    BY DEF MessageSent, MessageEdited, MessageDeleted
  <1>2. /\ AppliedBy(d)' = AppliedBy(d) \cup {e} /\ e.kind = kind /\ e \notin AppliedBy(d)
        /\ ctApplied'[d] = ctApplied[d] \cup {e.id}
        /\ ctApplied'[d] = {f.id : f \in AppliedBy(d)'} /\ IsFiniteSet(AppliedBy(d)')
        /\ \A k, id : k # kind \/ id # e.message => Of(d, k, id)' = Of(d, k, id)
        /\ Of(d, kind, e.message)' = Of(d, kind, e.message) \cup {e}
    BY <1>1, AppliedGrows
  <1>3. FollowsEvents(d) /\ ctMessages[d] \subseteq ChatMessageRecord
        /\ ctCreated[d] \in ctApplied[d] \cup {NoThread} /\ DOMAIN ctMessages = ChatDevices
    BY DEF ChatInv, ChatTypeOK
  <1>4. ctCreated' = ctCreated /\ ctAcceptedBy' = ctAcceptedBy
    BY DEF MessageSent, MessageEdited, MessageDeleted
  <1>5. e \in ChatEvent BY ChatAssumption DEF ChatAssumption
  <1>6. /\ \A f \in AppliedBy(d)' : f.kind = "created" => ctCreated'[d] = f.id
        /\ ctCreated'[d] # NoThread =>
             \E f \in AppliedBy(d)' : f.kind = "created" /\ ctCreated'[d] = f.id
        /\ ctAcceptedBy'[d] = {f.by : f \in {g \in AppliedBy(d)' : g.kind = "accepted"}}
    BY <1>2, <1>3, <1>4 DEF FollowsEvents
  <1>7. ctCreated'[d] \in ctApplied'[d] \cup {NoThread} BY <1>2, <1>3, <1>4
  <1>8. \A m \in ctMessages[d] : MessageFollows(d, m) BY <1>3 DEF FollowsEvents
  <1>9. \A m, n \in ctMessages[d] : m.id = n.id => m = n BY <1>3 DEF FollowsEvents
  <1>10. ASSUME NEW m \in ctMessages[d], m.id # e.message PROVE MessageFollows(d, m)'
    <2>1. /\ Of(d, "sent", m.id)' = Of(d, "sent", m.id)
          /\ Of(d, "edited", m.id)' = Of(d, "edited", m.id)
          /\ Of(d, "deleted", m.id)' = Of(d, "deleted", m.id)
      BY <1>2, <1>10, Zenon
    <2>2. MessageFollows(d, m) BY <1>8
    <2> QED BY <2>1, <2>2, Zenon DEF MessageFollows
  <1>11. \A f \in AppliedBy(d) : f.kind \in {"sent", "edited", "deleted"} =>
           \E m \in ctMessages[d] : m.id = f.message
    BY <1>3 DEF FollowsEvents
  <1>12. /\ \A id : kind # "sent" => Of(d, "sent", id)' = Of(d, "sent", id)
         /\ \A id : kind # "edited" => Of(d, "edited", id)' = Of(d, "edited", id)
         /\ \A id : kind # "deleted" => Of(d, "deleted", id)' = Of(d, "deleted", id)
    BY <1>2, Zenon
  <1>13. \E x \in ChatMessageRecord :
           /\ x.id = e.message /\ MessageFollows(d, x)'
           /\ ctMessages'[d] = {m \in ctMessages[d] : m.id # e.message} \cup {x}
    <2>1. ASSUME NEW x \in ctMessages[d], x.id = e.message
          PROVE  {m \in ctMessages[d] : m.id # e.message} = ctMessages[d] \ {x}
      BY <1>9, <2>1
    <2>2. CASE kind = "sent" /\ Message(d, e.message) = {}
      <3>1. PICK x : x = [id |-> e.message, by |-> e.by, body |-> e.body, deleted |-> FALSE] OBVIOUS
      <3>2. ctMessages'[d] = ctMessages[d] \cup {x}
        BY <1>1, <1>3, <2>2, <3>1 DEF MessageSent
      <3>3. x.id = e.message /\ x.by = e.by /\ x.body = e.body /\ x.deleted = FALSE
            /\ x \in ChatMessageRecord
        BY <1>5, <3>1 DEF ChatMessageRecord, ChatEvent
      <3>4. \A m \in ctMessages[d] : m.id # e.message BY <2>2 DEF Message
      <3>5. \A f \in AppliedBy(d) : f.kind \in {"edited", "deleted"} => f.message # e.message
        BY <1>11, <3>4
      <3>6. Of(d, "edited", e.message)' = {} /\ Of(d, "deleted", e.message)' = {}
        BY <1>12, <2>2, <3>5 DEF Of, AppliedBy
      <3>7. e \in Of(d, "sent", e.message)' BY <1>2, <2>2
      <3>8. MessageFollows(d, x)' BY <3>3, <3>6, <3>7, Zenon DEF MessageFollows
      <3>9. {m \in ctMessages[d] : m.id # e.message} = ctMessages[d] BY <3>4
      <3> QED BY <3>2, <3>3, <3>8, <3>9
    <2>3. CASE kind = "sent" /\ Message(d, e.message) # {}
      <3>1. ctMessages' = ctMessages BY <1>1, <2>3 DEF MessageSent
      <3>2. PICK x \in ctMessages[d] : x.id = e.message BY <2>3 DEF Message
      <3>3. MessageFollows(d, x)'
        <4>1. Of(d, "sent", x.id) \subseteq Of(d, "sent", x.id)' BY <1>2, <2>3, <3>2
        <4>2. /\ Of(d, "edited", x.id)' = Of(d, "edited", x.id)
              /\ Of(d, "deleted", x.id)' = Of(d, "deleted", x.id)
          BY <1>12, <2>3
        <4> QED BY <1>8, <4>1, <4>2 DEF MessageFollows
      <3> QED BY <1>3, <2>1, <3>1, <3>2, <3>3
    <2>4. CASE kind = "edited"
      <3>1. PICK m \in Message(d, e.message) : Edits(m) /\ Replace(d, m, [m EXCEPT !.body = e.body])
        BY <1>1, <2>4 DEF MessageEdited
      <3>2. m \in ctMessages[d] /\ m.id = e.message /\ ~m.deleted /\ m \in ChatMessageRecord
        BY <1>3, <3>1 DEF Message, Edits
      <3>3. PICK x : x = [m EXCEPT !.body = e.body] OBVIOUS
      <3>4. x.id = m.id /\ x.by = m.by /\ x.body = e.body /\ x.deleted = m.deleted
            /\ x \in ChatMessageRecord
        BY <1>5, <3>2, <3>3 DEF ChatMessageRecord, ChatEvent
      <3>5. ctMessages'[d] = (ctMessages[d] \ {m}) \cup {x} BY <1>3, <3>1, <3>3 DEF Replace
      <3>6. e \in Of(d, "edited", x.id)' BY <1>2, <2>4, <3>2, <3>4
      <3>7. /\ Of(d, "sent", x.id)' = Of(d, "sent", m.id)
            /\ Of(d, "deleted", x.id)' = Of(d, "deleted", m.id)
        BY <1>12, <2>4, <3>4
      <3>8. MessageFollows(d, x)' BY <1>8, <3>2, <3>4, <3>6, <3>7 DEF MessageFollows
      <3> QED BY <2>1, <3>2, <3>4, <3>5, <3>8
    <2>5. CASE kind = "deleted"
      <3>1. PICK m \in Message(d, e.message) :
              IF m.deleted THEN ctMessages' = ctMessages
              ELSE Replace(d, m, [m EXCEPT !.body = NoBody, !.deleted = TRUE])
        BY <1>1, <2>5 DEF MessageDeleted
      <3>2. m \in ctMessages[d] /\ m.id = e.message /\ m \in ChatMessageRecord
        BY <1>3, <3>1 DEF Message
      <3>3. PICK x : x = IF m.deleted THEN m ELSE [m EXCEPT !.body = NoBody, !.deleted = TRUE]
        OBVIOUS
      <3>4. x.id = m.id /\ x.by = m.by /\ x.body = NoBody /\ x.deleted = TRUE
            /\ x \in ChatMessageRecord
        BY <1>8, <3>2, <3>3 DEF ChatMessageRecord, MessageFollows
      <3>5. ctMessages'[d] = (ctMessages[d] \ {m}) \cup {x} BY <1>3, <3>1, <3>2, <3>3 DEF Replace
      <3>6. e \in Of(d, "deleted", x.id)' BY <1>2, <2>5, <3>2, <3>4
      <3>7. Of(d, "sent", x.id)' = Of(d, "sent", m.id) BY <1>12, <2>5, <3>4
      <3>8. MessageFollows(d, x)' BY <1>8, <3>2, <3>4, <3>6, <3>7 DEF MessageFollows
      <3> QED BY <2>1, <3>2, <3>4, <3>5, <3>8
    <2> QED BY <2>2, <2>3, <2>4, <2>5
  <1>14. PICK x \in ChatMessageRecord :
           /\ x.id = e.message /\ MessageFollows(d, x)'
           /\ ctMessages'[d] = {m \in ctMessages[d] : m.id # e.message} \cup {x}
    BY <1>13
  <1>15. \A m \in ctMessages'[d] : MessageFollows(d, m)' BY <1>10, <1>14
  <1>16. \A m, n \in ctMessages'[d] : m.id = n.id => m = n BY <1>9, <1>14
  <1>17. \A f \in AppliedBy(d)' : f.kind \in {"sent", "edited", "deleted"} =>
           \E m \in ctMessages'[d] : m.id = f.message
    BY <1>2, <1>11, <1>14
  <1>18. ctMessages'[d] \subseteq ChatMessageRecord BY <1>3, <1>14
  <1> QED BY <1>2, <1>6, <1>7, <1>15, <1>16, <1>17, <1>18, Zenon DEF FollowsEvents

\* Nothing of a device changes when the events of another are applied.
LEMMA OtherThreadsStay ==
  ASSUME NEW c \in ChatDevices, ChatInv, ctCreated'[c] = ctCreated[c],
         ctMessages'[c] = ctMessages[c], ctAcceptedBy'[c] = ctAcceptedBy[c],
         ctApplied'[c] = ctApplied[c]
  PROVE  FollowsEvents(c)'
  <1>1. AppliedBy(c)' = AppliedBy(c) BY DEF AppliedBy
  <1>2. \A kind, id : Of(c, kind, id)' = Of(c, kind, id) BY DEF Of
  <1>3. FollowsEvents(c) BY DEF ChatInv
  <1>4. \A m \in ctMessages[c] : MessageFollows(c, m)'
    <2> TAKE m \in ctMessages[c]
    <2>1. MessageFollows(c, m) BY <1>3 DEF FollowsEvents
    <2> QED BY <1>2, <2>1, Zenon DEF MessageFollows
  <1> QED BY <1>1, <1>3, <1>4 DEF FollowsEvents

\* Every step keeps the invariant.
LEMMA ChatStepInv ==
  ASSUME ChatInv, ChatNext \/ UNCHANGED ctVars
  PROVE  ChatInv'
  <1>1. ASSUME UNCHANGED ctVars PROVE ChatInv'
    <2>1. /\ ctCreated' = ctCreated /\ ctMessages' = ctMessages
          /\ ctAcceptedBy' = ctAcceptedBy /\ ctApplied' = ctApplied
      BY <1>1 DEF ctVars
    <2>2. \A c \in ChatDevices : FollowsEvents(c)' BY <2>1, OtherThreadsStay
    <2> QED BY <2>1, <2>2 DEF ChatInv, ChatTypeOK
  <1>2. ASSUME NEW d \in ChatDevices, NEW e \in ChatEvents,
               \/ ThreadCreated(d, e) \/ ThreadAccepted(d, e) \/ UnknownPasses(d, e)
               \/ MessageSent(d, e) \/ MessageEdited(d, e) \/ MessageDeleted(d, e)
        PROVE  ChatInv'
    <2>1. /\ FollowsEvents(d)' /\ ctMessages'[d] \subseteq ChatMessageRecord
          /\ ctCreated'[d] \in ctApplied'[d] \cup {NoThread}
      <3>1. CASE ThreadCreated(d, e) \/ ThreadAccepted(d, e) \/ UnknownPasses(d, e)
        BY <3>1, ThreadFollows
      <3>2. CASE MessageSent(d, e) \/ MessageEdited(d, e) \/ MessageDeleted(d, e)
        BY <3>2, MessageFollowsEvent
      <3> QED BY <1>2, <3>1, <3>2
    <2>2. PICK kind : Applies(d, e, kind)
      BY <1>2 DEF ThreadCreated, ThreadAccepted, UnknownPasses, MessageSent, MessageEdited,
                  MessageDeleted
    <2>3. /\ ctApplied' = [ctApplied EXCEPT ![d] = ctApplied'[d]]
          /\ ctApplied'[d] \subseteq {f.id : f \in ChatEvents}
      BY <2>2, AppliedGrows
    <2>4. /\ DOMAIN ctCreated = ChatDevices /\ DOMAIN ctMessages = ChatDevices
          /\ DOMAIN ctAcceptedBy = ChatDevices /\ DOMAIN ctApplied = ChatDevices
      BY DEF ChatInv
    <2>5. /\ DOMAIN ctCreated' = ChatDevices
          /\ \A c \in ChatDevices \ {d} : ctCreated'[c] = ctCreated[c]
      <3>1. ctCreated' = ctCreated \/ ctCreated' = [ctCreated EXCEPT ![d] = e.id]
        BY <1>2 DEF ThreadCreated, ThreadAccepted, UnknownPasses, MessageSent, MessageEdited,
                    MessageDeleted
      <3> QED BY <2>4, <3>1
    <2>6. /\ DOMAIN ctAcceptedBy' = ChatDevices
          /\ \A c \in ChatDevices \ {d} : ctAcceptedBy'[c] = ctAcceptedBy[c]
      <3>1. \/ ctAcceptedBy' = ctAcceptedBy
            \/ ctAcceptedBy' = [ctAcceptedBy EXCEPT ![d] = @ \cup {e.by}]
        BY <1>2 DEF ThreadCreated, ThreadAccepted, UnknownPasses, MessageSent, MessageEdited,
                    MessageDeleted
      <3> QED BY <2>4, <3>1
    <2>7. /\ DOMAIN ctMessages' = ChatDevices
          /\ \A c \in ChatDevices \ {d} : ctMessages'[c] = ctMessages[c]
      <3>1. CASE ctMessages' = ctMessages BY <2>4, <3>1
      <3>2. CASE MessageSent(d, e) BY <2>4, <3>2 DEF MessageSent
      <3>3. CASE MessageEdited(d, e) BY <2>4, <3>3 DEF MessageEdited, Replace
      <3>4. CASE MessageDeleted(d, e) BY <2>4, <3>4 DEF MessageDeleted, Replace
      <3> QED BY <1>2, <3>1, <3>2, <3>3, <3>4 DEF ThreadCreated, ThreadAccepted, UnknownPasses
    <2>8. DOMAIN ctApplied' = ChatDevices /\ \A c \in ChatDevices \ {d} : ctApplied'[c] = ctApplied[c]
      BY <2>3, <2>4
    <2>9. \A c \in ChatDevices \ {d} : FollowsEvents(c)'
      BY <2>5, <2>6, <2>7, <2>8, OtherThreadsStay
    <2>10. ChatTypeOK'
      BY <2>1, <2>3, <2>5, <2>7, <2>8 DEF ChatInv, ChatTypeOK
    <2> QED BY <2>1, <2>5, <2>6, <2>7, <2>8, <2>9, <2>10 DEF ChatInv
  <1> QED BY <1>1, <1>2 DEF ChatNext, ChatEventAgain

\* At first no event was applied.
LEMMA ChatInitInv == ChatInit => ChatInv
  <1> SUFFICES ASSUME ChatInit PROVE ChatInv OBVIOUS
  <1>1. \A d \in ChatDevices : AppliedBy(d) = {} BY DEF ChatInit, AppliedBy
  <1>2. IsFiniteSet({}) BY FS_EmptySet
  <1>3. \A d \in ChatDevices : FollowsEvents(d)
    BY <1>1, <1>2 DEF ChatInit, FollowsEvents
  <1> QED BY <1>3 DEF ChatInit, ChatInv, ChatTypeOK

\* A finite set of less than two has at most one.
LEMMA LessThanTwo ==
  ASSUME NEW S, IsFiniteSet(S), Cardinality(S) < 2, NEW x \in S, NEW y \in S
  PROVE  x = y
  <1> SUFFICES ASSUME x # y PROVE FALSE OBVIOUS
  <1>1. {x, y} \subseteq S /\ IsFiniteSet({x, y}) /\ IsFiniteSet({x})
    BY FS_Singleton, FS_AddElement, FS_Subset
  <1>2. Cardinality({x, y}) <= Cardinality(S) BY <1>1, FS_Subset
  <1>3. Cardinality({x}) = 1 BY FS_Singleton
  <1>4. {x, y} = {x} \cup {y} /\ y \notin {x} OBVIOUS
  <1>5. Cardinality({x, y}) = 2 BY <1>1, <1>3, <1>4, FS_AddElement
  <1>6. Cardinality(S) \in Nat BY FS_CardinalityType
  <1> QED BY <1>2, <1>5, <1>6

\* Whoever has applied the same events shows the same.
LEMMA SameEventsAgree == ChatInv => ThreadsAgree
  <1> SUFFICES ASSUME ChatInv PROVE ThreadsAgree OBVIOUS
  <1>1. \A d \in ChatDevices : \A m \in ctMessages[d] : MessageFollows(d, m)
    BY DEF ChatInv, FollowsEvents
  <1>2. \A d \in ChatDevices : \A m \in ctMessages[d] : m.deleted => m.body = NoBody
    BY <1>1 DEF MessageFollows
  <1>3. ASSUME NEW c \in ChatDevices, NEW d \in ChatDevices, ctApplied[c] = ctApplied[d]
        PROVE  /\ ctCreated[c] = ctCreated[d] /\ ctAcceptedBy[c] = ctAcceptedBy[d]
               /\ \A m \in ctMessages[c] : \E n \in ctMessages[d] :
                    /\ n.id = m.id /\ n.deleted = m.deleted
                    /\ SentAlike(c, m.id) =>
                         /\ n.by = m.by
                         /\ Cardinality(Of(c, "edited", m.id)) < 2 => n.body = m.body
    <2>1. AppliedBy(c) = AppliedBy(d) /\ \A kind, id : Of(c, kind, id) = Of(d, kind, id)
      BY <1>3 DEF AppliedBy, Of
    <2>2. FollowsEvents(c) /\ FollowsEvents(d) BY DEF ChatInv
    <2>3. ctCreated[c] = ctCreated[d] /\ ctAcceptedBy[c] = ctAcceptedBy[d]
      BY <2>1, <2>2 DEF FollowsEvents
    <2>4. ASSUME NEW m \in ctMessages[c]
          PROVE  \E n \in ctMessages[d] :
                   /\ n.id = m.id /\ n.deleted = m.deleted
                   /\ SentAlike(c, m.id) =>
                        /\ n.by = m.by
                        /\ Cardinality(Of(c, "edited", m.id)) < 2 => n.body = m.body
      <3>1. MessageFollows(c, m) BY <1>1
      <3>2. PICK e \in Of(c, "sent", m.id) :
              m.by = e.by /\ (~m.deleted /\ Of(c, "edited", m.id) = {} => m.body = e.body)
        BY <3>1 DEF MessageFollows
      <3>3. e \in AppliedBy(d) /\ e.kind = "sent" /\ e.message = m.id
        BY <2>1, <3>2 DEF Of, AppliedBy
      <3>4. PICK n \in ctMessages[d] : n.id = m.id BY <2>2, <3>3 DEF FollowsEvents
      <3>5. MessageFollows(d, n) BY <1>1
      <3>6. PICK f \in Of(c, "sent", m.id) :
              n.by = f.by /\ (~n.deleted /\ Of(c, "edited", m.id) = {} => n.body = f.body)
        BY <2>1, <3>4, <3>5 DEF MessageFollows
      <3>7. m.deleted \in BOOLEAN /\ n.deleted \in BOOLEAN
        BY DEF ChatInv, ChatTypeOK, ChatMessageRecord
      <3>8. n.deleted = m.deleted
        BY <2>1, <3>1, <3>4, <3>5, <3>7 DEF MessageFollows
      <3>9. SentAlike(c, m.id) => e.by = f.by /\ e.body = f.body
        BY <3>2, <3>6 DEF SentAlike
      <3>10. ASSUME SentAlike(c, m.id), Cardinality(Of(c, "edited", m.id)) < 2
             PROVE  n.body = m.body
        <4>1. CASE m.deleted BY <1>2, <3>8, <4>1
        <4>2. CASE ~m.deleted /\ Of(c, "edited", m.id) = {}
          BY <3>2, <3>6, <3>8, <3>9, <3>10, <4>2
        <4>3. CASE ~m.deleted /\ Of(c, "edited", m.id) # {}
          <5>1. PICK g \in Of(c, "edited", m.id) : m.body = g.body
            BY <3>1, <4>3 DEF MessageFollows
          <5>2. PICK h \in Of(c, "edited", m.id) : n.body = h.body
            BY <2>1, <3>4, <3>5, <3>8, <4>3 DEF MessageFollows
          <5>3. IsFiniteSet(Of(c, "edited", m.id))
            <6>1. Of(c, "edited", m.id) \subseteq AppliedBy(c) BY DEF Of, AppliedBy
            <6>2. IsFiniteSet(AppliedBy(c)) BY <2>2 DEF FollowsEvents
            <6> QED BY <6>1, <6>2, FS_Subset
          <5>4. g = h BY <3>10, <5>3, LessThanTwo
          <5> QED BY <5>1, <5>2, <5>4
        <4> QED BY <4>1, <4>2, <4>3
      <3> QED BY <3>2, <3>4, <3>6, <3>8, <3>9, <3>10
    <2> QED BY <2>3, <2>4
  <1> QED BY <1>2, <1>3 DEF ThreadsAgree

\* Two devices that have applied the same events agree, for any events, in any order.
THEOREM ChatDevicesAgree == ChatSpec => []ThreadsAgree
  <1>1. ChatInv /\ [ChatNext]_ctVars => ChatInv' BY ChatStepInv
  <1> QED BY <1>1, ChatInitInv, SameEventsAgree, PTL DEF ChatSpec

\* ReplicasAgree for any receipts and events.
THEOREM DeviceReplicasAgree == DeviceSpec => []ReplicasAgree
  <1>1. DeviceInit => RouteInv /\ ChatInv
    BY RouteInitInv, ChatInitInv DEF DeviceInit
  <1>2. RouteInv /\ ChatInv /\ [DeviceNext]_deviceVars => RouteInv' /\ ChatInv'
    <2> SUFFICES ASSUME RouteInv, ChatInv, [DeviceNext]_deviceVars PROVE RouteInv' /\ ChatInv'
      OBVIOUS
    <2>1. RouteNext \/ UNCHANGED rsVars BY DEF DeviceNext, deviceVars, Idles
    <2>2. ChatNext \/ UNCHANGED ctVars BY DEF DeviceNext, deviceVars, Idles
    <2> QED BY <2>1, <2>2, RouteStepInv, ChatStepInv
  <1>3. RouteInv /\ ChatInv => ReplicasAgree
    BY SameReceiptsAgree, SameEventsAgree DEF ReplicasAgree
  <1> QED BY <1>1, <1>2, <1>3, PTL DEF DeviceSpec

-----------------------------------------------------------------------------
(* The authority of the identity.                                            *)

DeviceKinds == {"created", "authorized", "rotated", "revoked"}

\* What an event that is not refused makes of each field.
LEMMA AuthorityFields ==
  ASSUME NEW state \in IdState, NEW e \in IdEvents
  PROVE  /\ AppliedTo(state, e) \in IdState
         /\ AppliedTo(state, e).controller =
              IF e.kind = "created" THEN e.key ELSE state.controller
         /\ AppliedTo(state, e).epoch =
              IF \/ e.kind \in {"authorized", "rotated"}
                 \/ e.kind = "revoked" /\ state.devices[e.device].status # "revoked"
              THEN e.epoch ELSE state.epoch
         /\ \A d \in IdDevices :
              AppliedTo(state, e).devices[d] =
                IF d = e.device /\ e.kind \in {"created", "authorized", "rotated"}
                THEN Active(e.key)
                ELSE IF d = e.device /\ e.kind = "revoked"
                THEN [status |-> "revoked", key |-> state.devices[d].key]
                ELSE state.devices[d]
         /\ \A c \in IdCaps :
              AppliedTo(state, e).caps[c] =
                IF c = e.cap /\ e.kind = "granted" THEN [status |-> "granted", grant |-> {e}]
                ELSE IF c = e.cap /\ e.kind = "withdrawn"
                THEN [status |-> "withdrawn", grant |-> state.caps[c].grant]
                ELSE state.caps[c]
  <1>1. /\ e.kind \in IdKinds /\ e.epoch \in Nat /\ e.key \in IdKeys /\ e.device \in IdDevices
        /\ e.cap \in IdCaps
    BY IdAssumption DEF IdAssumption, IdEvent
  <1>2. Active(e.key) \in Device BY <1>1 DEF Active, Device
  <1>3. CASE e.kind = "created" BY <1>1, <1>2, <1>3 DEF AppliedTo, IdState
  <1>4. CASE e.kind \in {"authorized", "rotated"} BY <1>1, <1>2, <1>4 DEF AppliedTo, IdState
  <1>5. CASE e.kind = "revoked"
    <2>1. CASE state.devices[e.device].status = "revoked"
      <3>1. AppliedTo(state, e) = state BY <1>5, <2>1 DEF AppliedTo
      <3>2. state.devices[e.device] =
              [status |-> "revoked", key |-> state.devices[e.device].key]
        BY <1>1, <2>1 DEF IdState, Device
      <3> QED BY <1>1, <1>5, <2>1, <3>1, <3>2
    <2>2. CASE state.devices[e.device].status # "revoked"
      <3>1. PICK device : device = [state.devices[e.device] EXCEPT !.status = "revoked"] OBVIOUS
      <3>2. device = [status |-> "revoked", key |-> state.devices[e.device].key]
            /\ device \in Device
        BY <1>1, <3>1 DEF IdState, Device
      <3>3. PICK all : all = [state.devices EXCEPT ![e.device] = device] OBVIOUS
      <3>4. /\ all \in [IdDevices -> Device]
            /\ \A d \in IdDevices : all[d] = IF d = e.device THEN device ELSE state.devices[d]
        BY <1>1, <3>2, <3>3 DEF IdState
      <3>5. AppliedTo(state, e) = [state EXCEPT !.epoch = e.epoch, !.devices = all]
        BY <1>5, <2>2, <3>1, <3>3 DEF AppliedTo, IdState
      <3> QED BY <1>1, <1>5, <2>2, <3>2, <3>4, <3>5 DEF IdState
    <2> QED BY <2>1, <2>2
  <1>6. CASE e.kind = "granted"
    <2>1. e \in Grants BY <1>6 DEF Grants
    <2>2. [status |-> "granted", grant |-> {e}] \in Capability BY <2>1 DEF Capability
    <2> QED BY <1>1, <1>6, <2>2 DEF AppliedTo, IdState
  <1>7. CASE e.kind = "withdrawn"
    <2>1. PICK cap : cap = [state.caps[e.cap] EXCEPT !.status = "withdrawn"] OBVIOUS
    <2>2. cap = [status |-> "withdrawn", grant |-> state.caps[e.cap].grant] /\ cap \in Capability
      BY <1>1, <2>1 DEF IdState, Capability
    <2>3. PICK all : all = [state.caps EXCEPT ![e.cap] = cap] OBVIOUS
    <2>4. /\ all \in [IdCaps -> Capability]
          /\ \A c \in IdCaps : all[c] = IF c = e.cap THEN cap ELSE state.caps[c]
      BY <1>1, <2>2, <2>3 DEF IdState
    <2>5. AppliedTo(state, e) = [state EXCEPT !.caps = all]
      BY <1>7, <2>1, <2>3 DEF AppliedTo, IdState
    <2> QED BY <1>1, <1>7, <2>2, <2>4, <2>5 DEF IdState
  <1>8. CASE e.kind = "card"
    <2>1. e \in Cards BY <1>8 DEF Cards
    <2> QED BY <1>1, <1>8, <2>1 DEF AppliedTo, IdState
  <1> QED BY <1>1, <1>3, <1>4, <1>5, <1>6, <1>7, <1>8 DEF IdKinds

-----------------------------------------------------------------------------
\* What S has about devices, in the order of epochs: each event has its own, the first
\* one is the creation.
AboutDevices(S) == {e \in S : e.kind \in DeviceKinds}

EpochOf(e) == IF e.kind = "created" THEN 0 ELSE e.epoch

About(S, d) == {e \in AboutDevices(S) : e.device = d}

\* A state in which every device is what the event of the latest epoch about it says, with
\* the key of the latest that has not revoked it.
EpochsSay(S, state) ==
  /\ \A e \in AboutDevices(S) : EpochOf(e) \in 0..state.epoch /\ (EpochOf(e) = 0 => e.kind = "created")
  /\ \A e, f \in AboutDevices(S) : EpochOf(e) = EpochOf(f) => e = f
  /\ state.controller = NoKey => AboutDevices(S) = {}
  /\ \A d \in IdDevices :
       /\ About(S, d) = {} => state.devices[d] = [status |-> "none", key |-> NoKey]
       /\ About(S, d) # {} => \E e \in About(S, d) : e.kind # "revoked"
       /\ state.devices[d].status = "revoked" => \E e \in About(S, d) : e.kind = "revoked"
       /\ \A e \in About(S, d) : (\A f \in About(S, d) : EpochOf(f) <= EpochOf(e)) =>
            state.devices[d].status = IF e.kind = "revoked" THEN "revoked" ELSE "active"
       /\ \A e \in About(S, d) :
            /\ e.kind # "revoked"
            /\ \A f \in About(S, d) : f.kind # "revoked" => EpochOf(f) <= EpochOf(e)
            => state.devices[d].key = e.key

\* An event about a device that takes effect has a later epoch than all before.
LEMMA LaterEpoch ==
  ASSUME NEW S \in SUBSET IdEvents, NEW state \in IdState, EpochsSay(S, state),
         NEW e \in IdEvents, ~Throws(state, e), e.kind \in DeviceKinds,
         RevokedOnce(S \cup {e})
  PROVE  \/ e \in S /\ e.kind = "revoked" /\ state.devices[e.device].status = "revoked"
         \/ /\ e \notin S
            /\ e.kind = "revoked" => state.devices[e.device].status = "active"
            /\ EpochOf(e) <= AppliedTo(state, e).epoch
            /\ AppliedTo(state, e).controller # NoKey
            /\ EpochOf(e) = 0 => e.kind = "created"
            /\ \A f \in AboutDevices(S) : EpochOf(f) < EpochOf(e)
            /\ EpochOf(e) \in Nat
  <1>1. /\ e.kind \in IdKinds /\ e.epoch \in Nat /\ e.key \in IdKeys /\ e.by \in IdKeys
        /\ e.device \in IdDevices /\ NoKey \notin IdKeys
    BY IdAssumption DEF IdAssumption, IdEvent
  <1>2. /\ AppliedTo(state, e).controller =
             IF e.kind = "created" THEN e.key ELSE state.controller
        /\ AppliedTo(state, e).epoch =
             IF \/ e.kind \in {"authorized", "rotated"}
                \/ e.kind = "revoked" /\ state.devices[e.device].status # "revoked"
             THEN e.epoch ELSE state.epoch
    BY AuthorityFields
  <1>3. state.epoch \in Nat /\ state.devices[e.device].status \in {"none", "active", "revoked"}
    BY <1>1 DEF IdState, Device
  <1>4. /\ \A f \in AboutDevices(S) : EpochOf(f) \in 0..state.epoch
        /\ e \in S => e \in AboutDevices(S)
        /\ state.controller = NoKey => AboutDevices(S) = {}
    BY DEF EpochsSay, AboutDevices
  <1>5. CASE e.kind = "created"
    <2>1. state.controller = NoKey BY <1>5 DEF Throws
    <2>2. AboutDevices(S) = {} BY <1>4, <2>1
    <2>3. e \notin S BY <1>4, <2>2
    <2> QED BY <1>1, <1>2, <1>3, <1>5, <2>1, <2>2, <2>3 DEF EpochOf
  <1>6. CASE e.kind = "revoked" /\ state.devices[e.device].status = "revoked"
    <2>1. PICK f \in About(S, e.device) : f.kind = "revoked" BY <1>1, <1>6 DEF EpochsSay
    <2>2. f \in S /\ f.device = e.device BY DEF About, AboutDevices
    <2>3. f = e BY <1>6, <2>1, <2>2 DEF RevokedOnce
    <2> QED BY <1>6, <2>2, <2>3
  <1>7. CASE e.kind # "created" /\ ~(e.kind = "revoked" /\ state.devices[e.device].status = "revoked")
    <2>1. state.controller # NoKey BY <1>1, <1>7 DEF Throws
    <2>2. e.epoch > state.epoch /\ (e.kind = "revoked" => state.devices[e.device].status = "active")
      BY <1>1, <1>3, <1>7 DEF Throws, DeviceKinds, Behind
    <2>3. EpochOf(e) = e.epoch /\ AppliedTo(state, e).epoch = e.epoch
      BY <1>2, <1>7 DEF EpochOf, DeviceKinds
    <2>4. \A f \in AboutDevices(S) : EpochOf(f) < EpochOf(e) BY <1>1, <1>3, <1>4, <2>2, <2>3
    <2>5. e \notin S BY <1>1, <1>4, <2>3, <2>4
    <2> QED BY <1>1, <1>2, <1>3, <1>7, <2>1, <2>2, <2>3, <2>4, <2>5
  <1> QED BY <1>5, <1>6, <1>7

\* Every event that is applied keeps it so.
LEMMA EpochsSayMore ==
  ASSUME NEW S \in SUBSET IdEvents, NEW state \in IdState, EpochsSay(S, state),
         NEW e \in IdEvents, ~Throws(state, e), RevokedOnce(S \cup {e})
  PROVE  EpochsSay(S \cup {e}, AppliedTo(state, e))
  <1> DEFINE T == S \cup {e}
  <1>a. PICK after : after = AppliedTo(state, e) OBVIOUS
  <1>b. /\ e.kind \in IdKinds /\ e.key \in IdKeys /\ e.device \in IdDevices
        /\ NoKey \notin IdKeys
    BY IdAssumption DEF IdAssumption, IdEvent
  <1>c. /\ after.controller = IF e.kind = "created" THEN e.key ELSE state.controller
        /\ after.epoch =
             IF \/ e.kind \in {"authorized", "rotated"}
                \/ e.kind = "revoked" /\ state.devices[e.device].status # "revoked"
             THEN e.epoch ELSE state.epoch
        /\ \A d \in IdDevices :
             after.devices[d] =
               IF d = e.device /\ e.kind \in {"created", "authorized", "rotated"}
               THEN Active(e.key)
               ELSE IF d = e.device /\ e.kind = "revoked"
               THEN [status |-> "revoked", key |-> state.devices[d].key]
               ELSE state.devices[d]
    BY <1>a, AuthorityFields
  <1>d. \A d \in IdDevices : state.devices[d] \in Device BY DEF IdState
  <1>1. CASE e.kind \notin DeviceKinds
    <2>1. AboutDevices(T) = AboutDevices(S) BY <1>1 DEF AboutDevices
    <2>2. \A d : About(T, d) = About(S, d) BY <2>1 DEF About
    <2>3. /\ after.controller = state.controller /\ after.epoch = state.epoch
          /\ \A d \in IdDevices : after.devices[d] = state.devices[d]
      BY <1>1, <1>c DEF DeviceKinds
    <2>4. EpochsSay(T, after)
      <3> HIDE DEF T
      <3> QED BY <2>1, <2>2, <2>3 DEF EpochsSay
    <2> QED BY <1>a, <2>4
  <1>2. CASE e \in S /\ e.kind = "revoked" /\ state.devices[e.device].status = "revoked"
    <2>1. T = S BY <1>2
    <2>2. /\ after.controller = state.controller /\ after.epoch = state.epoch
          /\ \A d \in IdDevices : after.devices[d] = state.devices[d]
      BY <1>2, <1>b, <1>c, <1>d DEF Device
    <2>3. EpochsSay(S, after) BY <2>2 DEF EpochsSay
    <2> QED BY <1>a, <2>1, <2>3
  <1>3. CASE /\ e \notin S /\ e.kind \in DeviceKinds
             /\ e.kind = "revoked" => state.devices[e.device].status = "active"
             /\ EpochOf(e) <= AppliedTo(state, e).epoch
             /\ AppliedTo(state, e).controller # NoKey
             /\ EpochOf(e) = 0 => e.kind = "created"
             /\ \A f \in AboutDevices(S) : EpochOf(f) < EpochOf(e)
             /\ EpochOf(e) \in Nat
    <2>1. AboutDevices(T) = AboutDevices(S) \cup {e} BY <1>3 DEF AboutDevices
    <2>2. /\ About(T, e.device) = About(S, e.device) \cup {e}
          /\ \A d : d # e.device => About(T, d) = About(S, d)
      BY <2>1 DEF About
    <2>3. \A f \in AboutDevices(S) : EpochOf(f) \in 0..state.epoch /\ EpochOf(f) < EpochOf(e)
      BY <1>3 DEF EpochsSay
    <2>4. state.epoch \in Nat /\ after.epoch \in Nat
      BY <1>a, AuthorityFields DEF IdState
    <2> HIDE DEF T
    <2>5. \A f \in AboutDevices(T) :
            EpochOf(f) \in 0..after.epoch /\ (EpochOf(f) = 0 => f.kind = "created")
      <3>1. EpochOf(e) \in 0..after.epoch /\ (EpochOf(e) = 0 => e.kind = "created")
        BY <1>3, <1>a, <2>4
      <3>2. ASSUME NEW f \in AboutDevices(S)
            PROVE  EpochOf(f) \in 0..after.epoch /\ (EpochOf(f) = 0 => f.kind = "created")
        <4>1. EpochOf(f) = 0 => f.kind = "created" BY DEF EpochsSay
        <4>2. EpochOf(f) \in 0..state.epoch /\ EpochOf(f) < EpochOf(e) BY <2>3
        <4> QED BY <2>4, <3>1, <4>1, <4>2
      <3> QED BY <2>1, <3>1, <3>2, Zenon
    <2>6. ASSUME NEW f \in AboutDevices(T), NEW g \in AboutDevices(T), EpochOf(f) = EpochOf(g)
          PROVE  f = g
      <3>1. f \in AboutDevices(S) \cup {e} /\ g \in AboutDevices(S) \cup {e} BY <2>1
      <3>2. \A h \in AboutDevices(S) : EpochOf(h) # EpochOf(e) BY <1>3, <2>3, <2>4
      <3>3. f \in AboutDevices(S) /\ g \in AboutDevices(S) => f = g BY <2>6 DEF EpochsSay
      <3> QED BY <2>6, <3>1, <3>2, <3>3
    <2>7. \A d \in IdDevices : d # e.device => after.devices[d] = state.devices[d] BY <1>c
    <2>8. PICK d : d = e.device /\ d \in IdDevices BY <1>b
    <2>9. About(T, d) = About(S, d) \cup {e} /\ \A f \in About(S, d) : f \in AboutDevices(S)
      BY <2>2, <2>8 DEF About
    <2>10. \A f \in About(S, d) : EpochOf(f) < EpochOf(e) /\ EpochOf(f) \in Nat
      BY <2>3, <2>4, <2>9
    <2>11. \A f \in About(T, d) :
             (\A g \in About(T, d) : EpochOf(g) <= EpochOf(f)) => f = e
      <3> SUFFICES ASSUME NEW f \in About(S, d), EpochOf(e) <= EpochOf(f) PROVE FALSE
        BY <2>9
      <3> QED BY <1>3, <2>10
    <2>12. EpochOf(e) <= EpochOf(e) BY <1>3
    <2>13. /\ (\E f \in About(T, d) : f.kind # "revoked")
           /\ after.devices[d].status = "revoked" => \E f \in About(T, d) : f.kind = "revoked"
           /\ \A f \in About(T, d) : (\A g \in About(T, d) : EpochOf(g) <= EpochOf(f)) =>
                after.devices[d].status = IF f.kind = "revoked" THEN "revoked" ELSE "active"
           /\ \A f \in About(T, d) :
                /\ f.kind # "revoked"
                /\ \A g \in About(T, d) : g.kind # "revoked" => EpochOf(g) <= EpochOf(f)
                => after.devices[d].key = f.key
      <3>1. CASE e.kind # "revoked"
        <4>1. after.devices[d].status = "active" /\ after.devices[d].key = e.key
          BY <1>3, <1>c, <2>8, <3>1 DEF DeviceKinds, Active
        <4>2. ASSUME NEW f \in About(T, d), f.kind # "revoked",
                     \A g \in About(T, d) : g.kind # "revoked" => EpochOf(g) <= EpochOf(f)
              PROVE  f = e
          <5>1. EpochOf(e) <= EpochOf(f) BY <2>9, <3>1, <4>2
          <5>2. f \in About(S, d) => EpochOf(f) < EpochOf(e) /\ EpochOf(f) \in Nat BY <2>10
          <5> QED BY <1>3, <2>9, <5>1, <5>2
        <4>3. \E f \in About(T, d) : f.kind # "revoked" BY <2>9, <3>1
        <4>4. \A f \in About(T, d) : (\A g \in About(T, d) : EpochOf(g) <= EpochOf(f)) =>
                after.devices[d].status = IF f.kind = "revoked" THEN "revoked" ELSE "active"
          BY <2>11, <3>1, <4>1
        <4>5. \A f \in About(T, d) :
                /\ f.kind # "revoked"
                /\ \A g \in About(T, d) : g.kind # "revoked" => EpochOf(g) <= EpochOf(f)
                => after.devices[d].key = f.key
          BY <4>1, <4>2
        <4>6. after.devices[d].status # "revoked" BY <4>1
        <4> QED BY <4>3, <4>4, <4>5, <4>6
      <3>2. CASE e.kind = "revoked"
        <4>1. after.devices[d].status = "revoked" /\ after.devices[d].key = state.devices[d].key
          <5>1. after.devices[d] = [status |-> "revoked", key |-> state.devices[d].key]
            BY <1>c, <2>8, <3>2
          <5> QED BY <5>1
        <4>2. state.devices[d].status = "active" BY <1>3, <2>8, <3>2
        <4>3. About(S, d) # {} BY <2>8, <4>2 DEF EpochsSay
        <4>4. \E f \in About(S, d) : f.kind # "revoked" BY <2>8, <4>3 DEF EpochsSay
        <4>5. \E f \in About(T, d) : f.kind # "revoked" BY <2>9, <4>4
        <4>6. \E f \in About(T, d) : f.kind = "revoked" BY <2>9, <3>2
        <4>7. \A f \in About(T, d) : (\A g \in About(T, d) : EpochOf(g) <= EpochOf(f)) =>
                after.devices[d].status = IF f.kind = "revoked" THEN "revoked" ELSE "active"
          BY <2>11, <3>2, <4>1
        <4>8. ASSUME NEW f \in About(T, d), f.kind # "revoked",
                     \A g \in About(T, d) : g.kind # "revoked" => EpochOf(g) <= EpochOf(f)
              PROVE  after.devices[d].key = f.key
          <5>1. f \in About(S, d) BY <2>9, <3>2, <4>8
          <5>2. \A g \in About(S, d) : g.kind # "revoked" => EpochOf(g) <= EpochOf(f)
            BY <2>9, <4>8
          <5>3. state.devices[d].key = f.key BY <2>8, <4>8, <5>1, <5>2 DEF EpochsSay
          <5> QED BY <4>1, <5>3
        <4> QED BY <4>5, <4>6, <4>7, <4>8
      <3> QED BY <3>1, <3>2
    <2>14. ASSUME NEW c \in IdDevices, c # d
           PROVE  /\ About(T, c) = About(S, c)
                  /\ after.devices[c] = state.devices[c]
      BY <2>2, <2>7, <2>8, <2>14
    <2>15. About(T, d) # {} BY <2>9
    <2>16. after.controller # NoKey BY <1>3, <1>a
    <2>17. ASSUME NEW c \in IdDevices
           PROVE
             /\ About(T, c) = {} => after.devices[c] = [status |-> "none", key |-> NoKey]
             /\ About(T, c) # {} => \E f \in About(T, c) : f.kind # "revoked"
             /\ after.devices[c].status = "revoked" => \E f \in About(T, c) : f.kind = "revoked"
             /\ \A f \in About(T, c) : (\A g \in About(T, c) : EpochOf(g) <= EpochOf(f)) =>
                  after.devices[c].status = IF f.kind = "revoked" THEN "revoked" ELSE "active"
             /\ \A f \in About(T, c) :
                  /\ f.kind # "revoked"
                  /\ \A g \in About(T, c) : g.kind # "revoked" => EpochOf(g) <= EpochOf(f)
                  => after.devices[c].key = f.key
      <3>1. CASE c = d BY <2>13, <2>15, <3>1
      <3>2. CASE c # d
        <4>1. About(T, c) = About(S, c) /\ after.devices[c] = state.devices[c] BY <2>14, <3>2
        <4> QED BY <4>1 DEF EpochsSay
      <3> QED BY <3>1, <3>2
    <2>18. EpochsSay(T, after) BY <2>5, <2>6, <2>16, <2>17 DEF EpochsSay
    <2> QED BY <1>a, <2>18 DEF T
  <1> QED BY <1>1, <1>2, <1>3, LaterEpoch

\* Of a device that both folds tell of, they tell the same.
LEMMA EpochsSayOne ==
  ASSUME NEW S \in SUBSET IdEvents, NEW state \in IdState, NEW other \in IdState,
         EpochsSay(S, state), EpochsSay(S, other)
  PROVE  state.devices = other.devices
  <1>1. \A e \in AboutDevices(S) : EpochOf(e) \in 0..state.epoch BY DEF EpochsSay
  <1>2. state.epoch \in Nat BY DEF IdState
  <1>3. ASSUME NEW X \in SUBSET AboutDevices(S), X # {}
        PROVE  \E e \in X : \A f \in X : EpochOf(f) <= EpochOf(e)
    <2>1. PICK left : left = {state.epoch - EpochOf(e) : e \in X} OBVIOUS
    <2>2. left \in SUBSET Nat /\ left # {} BY <1>1, <1>2, <1>3, <2>1
    <2>3. PICK i \in left : \A j \in left : i <= j BY <2>2, LowestNumber
    <2>4. PICK e \in X : i = state.epoch - EpochOf(e) BY <2>1
    <2>5. \A f \in X : i <= state.epoch - EpochOf(f) BY <2>1, <2>3
    <2>6. \A f \in X : EpochOf(f) \in Int BY <1>1
    <2> QED BY <1>2, <2>4, <2>5, <2>6
  <1>4. ASSUME NEW d \in IdDevices PROVE state.devices[d] = other.devices[d]
    <2>1. state.devices[d] \in Device /\ other.devices[d] \in Device BY DEF IdState
    <2>2. CASE About(S, d) = {} BY <2>2 DEF EpochsSay
    <2>3. CASE About(S, d) # {}
      <3>1. About(S, d) \in SUBSET AboutDevices(S) BY DEF About
      <3>2. PICK e \in About(S, d) : \A f \in About(S, d) : EpochOf(f) <= EpochOf(e)
        BY <1>3, <2>3, <3>1
      <3>3. state.devices[d].status = other.devices[d].status BY <3>2 DEF EpochsSay
      <3>4. PICK X : X = {f \in About(S, d) : f.kind # "revoked"} OBVIOUS
      <3>5. X \in SUBSET AboutDevices(S) /\ X # {} BY <2>3, <3>1, <3>4 DEF EpochsSay
      <3>6. PICK f \in X : \A g \in X : EpochOf(g) <= EpochOf(f) BY <1>3, <3>5
      <3>7. /\ f \in About(S, d) /\ f.kind # "revoked"
            /\ \A g \in About(S, d) : g.kind # "revoked" => EpochOf(g) <= EpochOf(f)
        BY <3>4, <3>6
      <3>8. state.devices[d].key = f.key /\ other.devices[d].key = f.key
        BY <3>7 DEF EpochsSay
      <3> QED BY <2>1, <3>3, <3>8 DEF Device
    <2> QED BY <2>2, <2>3
  <1> QED BY <1>4 DEF IdState

-----------------------------------------------------------------------------
\* A state in which every capability and device is what the last word about it by date
\* says.
DatesSay(S, state) ==
  /\ \A c \in IdCaps :
       /\ state.caps[c].status = "granted" <=> \E e \in LastGrant(S, c) : e.kind = "granted"
       /\ state.caps[c].status = "granted" => state.caps[c].grant = LastGrant(S, c)
  /\ \A d \in IdDevices :
       state.devices[d].status = "active" <=> \E e \in LastOfDevice(S, d) : e.kind # "revoked"

\* An event that comes after all others of a set is its last.
LEMMA NewestWithLast ==
  ASSUME NEW X \in SUBSET IdEvents, NEW e \in IdEvents, \A f \in X : IdBefore(f, e)
  PROVE  NewestOf(X \cup {e}) = {e}
  <1>1. \A f \in X \cup {e} : f.at \in Nat /\ f.id \in Nat
    BY IdAssumption DEF IdAssumption, IdEvent
  <1>2. \A f \in X : ~IdBefore(e, f) BY <1>1 DEF IdBefore
  <1>3. ~IdBefore(e, e) BY <1>1 DEF IdBefore
  <1>4. e \notin X BY <1>3
  <1>5. ASSUME NEW f \in X PROVE f \notin NewestOf(X \cup {e})
    <2>1. e \in (X \cup {e}) \ {f} BY <1>4
    <2> QED BY <1>2, <2>1 DEF NewestOf
  <1>6. e \in NewestOf(X \cup {e}) BY DEF NewestOf
  <1>7. NewestOf(X \cup {e}) \subseteq X \cup {e} BY DEF NewestOf
  <1> QED BY <1>5, <1>6, <1>7

\* An event that comes after all others of a log by date keeps it so.
LEMMA DatesSayMore ==
  ASSUME NEW S \in SUBSET IdEvents, NEW state \in IdState, DatesSay(S, state),
         NEW e \in IdEvents, ~Throws(state, e), \A f \in S : IdBefore(f, e)
  PROVE  DatesSay(S \cup {e}, AppliedTo(state, e))
  <1> DEFINE T == S \cup {e}
             Of1(X, c) == {f \in X : f.kind \in {"granted", "withdrawn"} /\ f.cap = c}
             Of2(X, d) == {f \in X : f.kind \in DeviceKinds /\ f.device = d}
  <1>a. PICK after : after = AppliedTo(state, e) OBVIOUS
  <1>b. e.kind \in IdKinds /\ e.device \in IdDevices /\ e.cap \in IdCaps
    BY IdAssumption DEF IdAssumption, IdEvent
  <1>c. /\ \A X, c : LastGrant(X, c) = NewestOf(Of1(X, c))
        /\ \A X, d : LastOfDevice(X, d) = NewestOf(Of2(X, d))
    BY DEF LastGrant, LastOfDevice, DeviceKinds
  <1>1. ASSUME NEW c \in IdCaps
        PROVE  /\ after.caps[c].status = "granted" <=> \E f \in LastGrant(T, c) : f.kind = "granted"
               /\ after.caps[c].status = "granted" => after.caps[c].grant = LastGrant(T, c)
    <2>1. after.caps[c] =
            IF c = e.cap /\ e.kind = "granted" THEN [status |-> "granted", grant |-> {e}]
            ELSE IF c = e.cap /\ e.kind = "withdrawn"
            THEN [status |-> "withdrawn", grant |-> state.caps[c].grant]
            ELSE state.caps[c]
      BY <1>a, AuthorityFields
    <2>2. CASE c = e.cap /\ e.kind \in {"granted", "withdrawn"}
      <3>1. Of1(T, c) = Of1(S, c) \cup {e} BY <2>2
      <3>2. Of1(S, c) \in SUBSET IdEvents /\ \A f \in Of1(S, c) : IdBefore(f, e) OBVIOUS
      <3>3. NewestOf(Of1(T, c)) = {e}
        <4> HIDE DEF Of1, T
        <4> QED BY <3>1, <3>2, NewestWithLast
      <3>4. LastGrant(T, c) = {e} BY <1>c, <3>3
      <3> QED BY <2>1, <2>2, <3>4
    <2>3. CASE ~(c = e.cap /\ e.kind \in {"granted", "withdrawn"})
      <3>1. Of1(T, c) = Of1(S, c) BY <2>3
      <3>2. LastGrant(T, c) = LastGrant(S, c) BY <1>c, <3>1
      <3>3. after.caps[c] = state.caps[c] BY <2>1, <2>3
      <3> QED BY <3>2, <3>3 DEF DatesSay
    <2> QED BY <2>2, <2>3
  <1>2. ASSUME NEW d \in IdDevices
        PROVE  after.devices[d].status = "active" <=> \E f \in LastOfDevice(T, d) : f.kind # "revoked"
    <2>1. after.devices[d] =
            IF d = e.device /\ e.kind \in {"created", "authorized", "rotated"}
            THEN Active(e.key)
            ELSE IF d = e.device /\ e.kind = "revoked"
            THEN [status |-> "revoked", key |-> state.devices[d].key]
            ELSE state.devices[d]
      BY <1>a, AuthorityFields
    <2>2. CASE d = e.device /\ e.kind \in DeviceKinds
      <3>1. Of2(T, d) = Of2(S, d) \cup {e} BY <2>2
      <3>2. Of2(S, d) \in SUBSET IdEvents /\ \A f \in Of2(S, d) : IdBefore(f, e) OBVIOUS
      <3>3. NewestOf(Of2(T, d)) = {e}
        <4> HIDE DEF Of2, T
        <4> QED BY <3>1, <3>2, NewestWithLast
      <3>4. LastOfDevice(T, d) = {e} BY <1>c, <3>3
      <3>5. after.devices[d].status = IF e.kind = "revoked" THEN "revoked" ELSE "active"
        BY <2>1, <2>2 DEF DeviceKinds, Active
      <3> QED BY <3>4, <3>5
    <2>3. CASE ~(d = e.device /\ e.kind \in DeviceKinds)
      <3>1. Of2(T, d) = Of2(S, d) BY <2>3
      <3>2. LastOfDevice(T, d) = LastOfDevice(S, d) BY <1>c, <3>1
      <3>3. after.devices[d] = state.devices[d] BY <2>1, <2>3 DEF DeviceKinds
      <3> QED BY <3>2, <3>3 DEF DatesSay
    <2> QED BY <2>2, <2>3
  <1> QED BY <1>a, <1>1, <1>2 DEF DatesSay

-----------------------------------------------------------------------------
\* A log of the authority, or a part of one.
IsIdLog(S) == S \in SUBSET IdEvents /\ IsFiniteSet(S)

Seed == [ok: BOOLEAN, state: IdState]

\* A step of the fold.
SeedStep(e, seed) ==
  IF seed.ok /\ ~Throws(seed.state, e)
  THEN [seed EXCEPT !.state = AppliedTo(@, e)]
  ELSE [seed EXCEPT !.ok = FALSE]

\* The fold of a log goes on from that of the part without its last event.
LEMMA SeededIsFold ==
  ASSUME NEW S, IsIdLog(S)
  PROVE  \E F \in [SUBSET S -> Seed] :
           /\ F[S] = Seeded(S) /\ F[{}] = Empty
           /\ \A s \in SUBSET S : s # {} =>
                /\ SeededLast(s) \in s
                /\ \A f \in s \ {SeededLast(s)} : IdBefore(f, SeededLast(s))
                /\ F[s] = SeedStep(SeededLast(s), F[s \ {SeededLast(s)}])
  <1> DEFINE Steps(F) == F = [s \in SUBSET S |->
                                IF s = {} THEN Empty
                                ELSE LET x == SeededLast(s)
                                     IN  IF F[s \ {x}].ok /\ ~Throws(F[s \ {x}].state, x)
                                         THEN [F[s \ {x}] EXCEPT !.state = AppliedTo(@, x)]
                                         ELSE [F[s \ {x}] EXCEPT !.ok = FALSE]]
             iter == CHOOSE F : Steps(F)
             pick == [s \in SUBSET S |-> SeededLast(s)]
             step == [z \in S \X Seed |-> SeedStep(z[1], z[2])]
  <1>1. \A s \in SUBSET S : s # {} =>
          /\ SeededLast(s) \in s
          /\ \A f \in s \ {SeededLast(s)} : IdBefore(f, SeededLast(s))
    <2> SUFFICES ASSUME NEW s \in SUBSET S, s # {}
                 PROVE  \E e \in s : \A f \in s \ {e} : IdBefore(f, e)
      BY DEF SeededLast
    <2>1. \A e \in s : e \in IdEvent BY IdAssumption DEF IdAssumption, IsIdLog
    <2>2. \A e \in s : e.at \in Nat /\ e.id \in Nat BY <2>1 DEF IdEvent
    <2>3. Dated(s) BY <2>2, IdAssumption, FS_Subset DEF IdAssumption, Dated, IsIdLog
    <2>4. \A e, f : IdBefore(e, f) <=> Before(e, f) BY DEF IdBefore, Before
    <2>5. \E e \in s : \A f \in s : f = e \/ Before(f, e) BY <2>3, DatedHasLast
    <2> QED BY <2>4, <2>5
  <1>2. Empty \in Seed
    BY DEF Empty, Seed, EmptyIdState, IdState, Device, Capability
  <1>3. ASSUME NEW e \in S, NEW seed \in Seed PROVE SeedStep(e, seed) \in Seed
    <2>1. seed.ok \in BOOLEAN /\ seed.state \in IdState BY DEF Seed
    <2>2. e \in IdEvents BY DEF IsIdLog
    <2>3. AppliedTo(seed.state, e) \in IdState BY <2>1, <2>2, AuthorityFields
    <2> QED BY <2>1, <2>3 DEF SeedStep, Seed
  <1>4. PICK G \in [SUBSET S -> Seed] : FoldOf(G, S, Empty, pick, step)
    <2>1. \A s \in SUBSET S : s # {} => pick[s] \in s BY <1>1
    <2>2. \A e \in S, seed \in Seed : step[<<e, seed>>] \in Seed BY <1>3
    <2>3. IsFiniteSet(S) BY DEF IsIdLog
    <2> HIDE DEF pick, step
    <2> QED BY <1>2, <2>1, <2>2, <2>3, FoldExists
  <1>5. \A s \in SUBSET S :
          G[s] = IF s = {} THEN Empty ELSE SeedStep(SeededLast(s), G[s \ {SeededLast(s)}])
    <2> SUFFICES ASSUME NEW s \in SUBSET S, s # {}
                 PROVE  G[s] = SeedStep(SeededLast(s), G[s \ {SeededLast(s)}])
      BY <1>4 DEF FoldOf
    <2>1. PICK x \in S : x = SeededLast(s) BY <1>1
    <2>2. PICK r \in SUBSET S : r = s \ {x} OBVIOUS
    <2>3. pick[s] = x BY <2>1
    <2>4. G[s] = step[<<x, G[r]>>]
      <3> HIDE DEF step, pick
      <3> QED BY <1>4, <2>2, <2>3 DEF FoldOf
    <2>5. <<x, G[r]>> \in S \X Seed BY <1>4
    <2>6. G[s] = SeedStep(x, G[r]) BY <2>4, <2>5
    <2> QED BY <2>1, <2>2, <2>6
  <1>6. Steps(G)
    <2>1. G = [s \in SUBSET S |->
                 IF s = {} THEN Empty ELSE SeedStep(SeededLast(s), G[s \ {SeededLast(s)}])]
      BY <1>5
    <2> QED BY <2>1 DEF SeedStep
  <1>7. Steps(iter) BY <1>6
  <1>8. Seeded(S) = iter[S] BY DEF Seeded, MapThenFoldSet
  <1>9. /\ iter[{}] = Empty
        /\ \A s \in SUBSET S : s # {} =>
             iter[s] = SeedStep(SeededLast(s), iter[s \ {SeededLast(s)}])
    <2> HIDE DEF iter
    <2> QED BY <1>7 DEF SeedStep
  <1> HIDE DEF iter
  <1>10. DOMAIN iter = SUBSET S /\ iter = [s \in SUBSET S |-> iter[s]] BY <1>7
  <1>11. \A s \in SUBSET S : iter[s] \in Seed
    <2> DEFINE C == {s \in SUBSET S : iter[s] \notin Seed}
    <2> SUFFICES ASSUME C # {} PROVE FALSE OBVIOUS
    <2>1. \A s \in C : IsFiniteSet(s) BY FS_Subset DEF IsIdLog
    <2>2. PICK s \in C : \A r \in C : Cardinality(s) <= Cardinality(r)
      <3> HIDE DEF C
      <3> QED BY <2>1, SmallestSet
    <2>3. s \in SUBSET S /\ s # {} /\ iter[s] \notin Seed BY <1>2, <1>9
    <2>4. PICK x \in s : x = SeededLast(s) BY <1>1, <2>3
    <2>5. PICK r \in SUBSET S : r = s \ {x} BY <2>3
    <2>6. Cardinality(r) = Cardinality(s) - 1 /\ Cardinality(s) \in Nat
      BY <2>1, <2>5, FS_RemoveElement, FS_CardinalityType
    <2>7. iter[r] \in Seed BY <2>2, <2>5, <2>6
    <2>8. x \in S /\ iter[s] = SeedStep(x, iter[r]) BY <1>9, <2>3, <2>4, <2>5
    <2> QED BY <1>3, <2>3, <2>7, <2>8
  <1>12. iter \in [SUBSET S -> Seed] BY <1>10, <1>11
  <1>13. S \in SUBSET S OBVIOUS
  <1> QED BY <1>1, <1>8, <1>9, <1>12

\* What the verifier makes of a log is what the last words by date say, and, if no device
\* was revoked twice, what those by epoch say.
LEMMA SeededSays ==
  ASSUME NEW S, IsIdLog(S)
  PROVE  /\ Seeded(S) \in Seed
         /\ Seeded(S).ok =>
              /\ DatesSay(S, Seeded(S).state)
              /\ RevokedOnce(S) => EpochsSay(S, Seeded(S).state)
  <1>1. PICK F \in [SUBSET S -> Seed] :
          /\ F[S] = Seeded(S) /\ F[{}] = Empty
          /\ \A s \in SUBSET S : s # {} =>
               /\ SeededLast(s) \in s
               /\ \A f \in s \ {SeededLast(s)} : IdBefore(f, SeededLast(s))
               /\ F[s] = SeedStep(SeededLast(s), F[s \ {SeededLast(s)}])
    BY SeededIsFold
  <1> DEFINE Says(s) == F[s].ok => /\ DatesSay(s, F[s].state)
                                   /\ RevokedOnce(s) => EpochsSay(s, F[s].state)
             C == {s \in SUBSET S : ~Says(s)}
  <1>2. Says({})
    <2>1. F[{}].state = EmptyIdState BY <1>1 DEF Empty
    <2>2. \A c, d : LastGrant({}, c) = {} /\ LastOfDevice({}, d) = {}
      BY DEF LastGrant, LastOfDevice, NewestOf
    <2>3. DatesSay({}, EmptyIdState) BY <2>2 DEF DatesSay, EmptyIdState
    <2>4. AboutDevices({}) = {} /\ \A d : About({}, d) = {} BY DEF AboutDevices, About
    <2>5. EpochsSay({}, EmptyIdState) BY <2>4 DEF EpochsSay, EmptyIdState
    <2> QED BY <2>1, <2>3, <2>5
  <1>3. C = {}
    <2> SUFFICES ASSUME C # {} PROVE FALSE OBVIOUS
    <2>1. \A s \in C : IsFiniteSet(s) BY FS_Subset DEF IsIdLog
    <2>2. PICK s \in C : \A r \in C : Cardinality(s) <= Cardinality(r)
      <3> HIDE DEF C
      <3> QED BY <2>1, SmallestSet
    <2>3. s \in SUBSET S /\ s # {} /\ ~Says(s) BY <1>2
    <2>4. PICK x \in s : x = SeededLast(s) BY <1>1, <2>3
    <2>5. PICK r \in SUBSET S : r = s \ {x} BY <2>3
    <2>6. Cardinality(r) = Cardinality(s) - 1 /\ Cardinality(s) \in Nat
      BY <2>1, <2>5, FS_RemoveElement, FS_CardinalityType
    <2>7. Says(r) BY <2>2, <2>5, <2>6
    <2>8. F[s] = SeedStep(x, F[r]) /\ \A f \in r : IdBefore(f, x) BY <1>1, <2>3, <2>4, <2>5
    <2>9. F[s].ok BY <2>3
    <2>10. F[r] \in Seed BY <1>1, <2>5
    <2>11. F[r].ok /\ ~Throws(F[r].state, x) /\ F[s].state = AppliedTo(F[r].state, x)
      BY <2>8, <2>9, <2>10 DEF SeedStep, Seed
    <2>12. /\ r \in SUBSET IdEvents /\ x \in IdEvents /\ s = r \cup {x}
           /\ F[r].state \in IdState
      BY <2>3, <2>5, <2>10 DEF IsIdLog, Seed
    <2>13. DatesSay(s, F[s].state)
      BY <2>7, <2>8, <2>11, <2>12, DatesSayMore
    <2>14. ASSUME RevokedOnce(s) PROVE EpochsSay(s, F[s].state)
      <3>1. RevokedOnce(r) BY <2>12, <2>14 DEF RevokedOnce
      <3> QED BY <2>7, <2>11, <2>12, <2>14, <3>1, EpochsSayMore
    <2> QED BY <2>3, <2>13, <2>14
  <1> QED BY <1>1, <1>3

-----------------------------------------------------------------------------
\* A verdict, once it is given, could have been given for the same log at the start.
VerifiedOnce(S, g) == \E known \in SUBSET S : Verdict(known, g, 0) = "verified"

\* The type invariant; that the projection is as the epochs say; and that what the
\* registry has as verified, and what was let through by it, was so in some log.
AuthorityInv ==
  /\ IdTypeOK /\ IsFiniteSet(idLog)
  /\ RevokedOnce(idLog) => EpochsSay(idLog, idRow)
  /\ \A g \in Grants : idProofs[g] = "verified" => VerifiedOnce(idLog, g)
  /\ \A e \in idCleared :
       \E g \in Grants : g.device = e.device /\ g.scope = PublishScope /\ VerifiedOnce(idLog, g)

\* At first the log is empty.
LEMMA AuthorityInitInv == IdInit => AuthorityInv
  <1> SUFFICES ASSUME IdInit PROVE AuthorityInv OBVIOUS
  <1>1. EmptyIdState \in IdState BY DEF EmptyIdState, IdState, Device, Capability
  <1>2. IdTypeOK BY <1>1, IdAssumption DEF IdAssumption, IdInit, IdTypeOK, NothingHeld
  <1>3. AboutDevices({}) = {} /\ \A d : About({}, d) = {} BY DEF AboutDevices, About
  <1>4. EpochsSay({}, EmptyIdState) BY <1>3 DEF EpochsSay, EmptyIdState
  <1>5. IsFiniteSet({}) BY FS_EmptySet
  <1> QED BY <1>2, <1>4, <1>5 DEF AuthorityInv, IdInit

\* An event that is taken keeps the log and the projection in step.
LEMMA TakenEventKeepsInv ==
  ASSUME AuthorityInv, NEW e \in IdEvents, Take(e)
  PROVE  /\ idLog' \subseteq IdEvents \ IdMalformed /\ idRow' \in IdState /\ IsFiniteSet(idLog')
         /\ idLog \subseteq idLog' /\ e \in idLog'
         /\ RevokedOnce(idLog') => EpochsSay(idLog', idRow')
  <1>1. idLog' = idLog \cup {e} /\ idRow' = AppliedTo(idRow, e) /\ ~Throws(idRow, e)
    BY DEF Take
  <1>2. idLog \in SUBSET IdEvents /\ idLog \subseteq IdEvents \ IdMalformed /\ idRow \in IdState
        /\ IsFiniteSet(idLog)
    BY DEF AuthorityInv, IdTypeOK
  <1>3. e \notin IdMalformed BY <1>1 DEF Throws
  <1>4. idRow' \in IdState BY <1>1, <1>2, AuthorityFields
  <1>5. IsFiniteSet(idLog') BY <1>1, <1>2, FS_AddElement
  <1>6. ASSUME RevokedOnce(idLog') PROVE EpochsSay(idLog', idRow')
    <2>1. RevokedOnce(idLog) BY <1>1, <1>6 DEF RevokedOnce
    <2>2. EpochsSay(idLog, idRow) BY <2>1 DEF AuthorityInv
    <2>3. RevokedOnce(idLog \cup {e}) BY <1>1, <1>6
    <2> QED BY <1>1, <1>2, <2>2, <2>3, EpochsSayMore
  <1> QED BY <1>1, <1>2, <1>3, <1>4, <1>5, <1>6

\* What the log has grown by takes no verdict back.
LEMMA VerifiedStays ==
  ASSUME NEW S, NEW T, S \subseteq T, NEW g, VerifiedOnce(S, g)
  PROVE  VerifiedOnce(T, g)
  <1>1. SUBSET S \subseteq SUBSET T OBVIOUS
  <1> QED BY <1>1 DEF VerifiedOnce

\* Every step keeps the invariant.
LEMMA AuthorityStepInv ==
  ASSUME AuthorityInv, IdNext \/ UNCHANGED idVars
  PROVE  AuthorityInv'
  <1>1. IdTypeOK /\ IsFiniteSet(idLog) BY DEF AuthorityInv
  <1>2. ASSUME UNCHANGED idVars PROVE AuthorityInv'
    BY <1>2 DEF idVars, AuthorityInv, IdTypeOK
  <1>3. ASSUME NEW e \in IdEvents, Take(e), idProofs' = idProofs,
               idHeld' = idHeld, idNow' = idNow, idCleared' \subseteq idCleared,
               idPending' \subseteq idPending \cup ({e} \cap Grants)
        PROVE  AuthorityInv'
    <2>1. /\ idLog' \subseteq IdEvents \ IdMalformed /\ idRow' \in IdState /\ IsFiniteSet(idLog')
          /\ idLog \subseteq idLog' /\ e \in idLog'
          /\ RevokedOnce(idLog') => EpochsSay(idLog', idRow')
      BY <1>3, TakenEventKeepsInv
    <2>2. idPending' \subseteq idLog' \cap Grants BY <1>1, <1>3, <2>1 DEF IdTypeOK
    <2>3. SUBSET idLog \subseteq SUBSET idLog' BY <2>1
    <2>4. idHeld' \in [IdHosts -> [of: SUBSET Grants,
                                   state: {"none", "unverified", "verified", "expired", "revoked",
                                           "invalid"},
                                   log: SUBSET idLog']]
      BY <1>1, <1>3, <2>3 DEF IdTypeOK
    <2>5. IdTypeOK' BY <1>1, <1>3, <2>1, <2>2, <2>4 DEF IdTypeOK
    <2>6. \A g \in Grants : idProofs'[g] = "verified" => VerifiedOnce(idLog', g)
      BY <1>3, <2>1, VerifiedStays DEF AuthorityInv
    <2>7. \A f \in idCleared' :
            \E g \in Grants : g.device = f.device /\ g.scope = PublishScope /\ VerifiedOnce(idLog', g)
      BY <1>3, <2>1, VerifiedStays DEF AuthorityInv
    <2> QED BY <2>1, <2>5, <2>6, <2>7 DEF AuthorityInv, VerifiedOnce
  <1>4. ASSUME NEW g \in Grants, NEW state \in {"none", "unverified", "verified", "expired",
                                                "revoked", "invalid"},
               idProofs' = [idProofs EXCEPT ![g] = state],
               state = "verified" => VerifiedOnce(idLog, g),
               idLog' = idLog, idRow' = idRow, idCleared' = idCleared, idNow' = idNow,
               idPending' \subseteq idPending,
               idHeld' = idHeld \/ \E h \in IdHosts : idHeld' = [idHeld EXCEPT ![h] = NothingHeld]
        PROVE  AuthorityInv'
    <2>1. /\ idProofs' \in [Grants -> {"none", "unverified", "verified", "expired", "revoked", "invalid"}]
          /\ \A f \in Grants : idProofs'[f] = IF f = g THEN state ELSE idProofs[f]
      BY <1>1, <1>4 DEF IdTypeOK
    <2>2. idHeld' \in [IdHosts -> [of: SUBSET Grants,
                                   state: {"none", "unverified", "verified", "expired", "revoked",
                                           "invalid"},
                                   log: SUBSET idLog]]
      BY <1>1, <1>4 DEF IdTypeOK, NothingHeld
    <2>3. IdTypeOK' BY <1>1, <1>4, <2>1, <2>2 DEF IdTypeOK
    <2>4. \A f \in Grants : idProofs'[f] = "verified" => VerifiedOnce(idLog, f)
      BY <1>4, <2>1 DEF AuthorityInv
    <2> QED BY <1>4, <2>3, <2>4 DEF AuthorityInv, VerifiedOnce
  <1>5. ASSUME NEW e \in IdEvents, AppendLocalIdentity(e) PROVE AuthorityInv'
    BY <1>3, <1>5 DEF AppendLocalIdentity
  <1>6. ASSUME NEW e \in IdEvents, TakeInbound(e) PROVE AuthorityInv'
    BY <1>3, <1>6 DEF TakeInbound
  <1>7. ASSUME NEW e \in Cards, EmitCard(e) PROVE AuthorityInv'
    BY <1>3, <1>7 DEF EmitCard, Cards
  <1>8. ASSUME NEW g \in Grants, RegisterProof(g) \/ DeleteProof(g) PROVE AuthorityInv'
    BY <1>4, <1>8 DEF RegisterProof, DeleteProof, PutRecord
  <1>9. ASSUME NEW g \in Grants, MissProof(g) PROVE AuthorityInv'
    <2>1. /\ idLog' = idLog /\ idRow' = idRow /\ idCleared' = idCleared /\ idNow' = idNow
          /\ idProofs' = idProofs /\ idHeld' = idHeld /\ idPending' \subseteq idPending
      BY <1>9 DEF MissProof
    <2>2. IdTypeOK' BY <1>1, <2>1 DEF IdTypeOK
    <2> QED BY <2>1, <2>2 DEF AuthorityInv, VerifiedOnce
  <1>10. ASSUME NEW h \in IdHosts, NEW g \in Grants, LoadProof(h, g) PROVE AuthorityInv'
    <2>1. /\ idLog' = idLog /\ idRow' = idRow /\ idCleared' = idCleared /\ idNow' = idNow
          /\ idProofs' = idProofs /\ idPending' = idPending
          /\ idHeld' = [idHeld EXCEPT ![h] = [of |-> {g}, state |-> idProofs[g], log |-> idLog]]
      BY <1>10 DEF LoadProof
    <2>2. IdTypeOK' BY <1>1, <2>1 DEF IdTypeOK
    <2> QED BY <2>1, <2>2 DEF AuthorityInv, VerifiedOnce
  <1>11. ASSUME NEW h \in IdHosts, NEW g \in Grants, PutProof(h, g) PROVE AuthorityInv'
    <2>1. PICK state \in {Verified(idHeld[h], g, idNow), "revoked"} :
            idProofs' = [idProofs EXCEPT ![g] = state]
      BY <1>11 DEF PutProof, PutRecord
    <2>2. state = "verified" => Verdict(idHeld[h].log, g, idNow) = "verified"
      BY <2>1 DEF Verified
    <2>3. state \in {"none", "unverified", "verified", "expired", "revoked", "invalid"}
      BY <2>1 DEF Verified, Verdict
    <2>4. idHeld[h].log \in SUBSET idLog /\ idNow \in Nat BY <1>1 DEF IdTypeOK
    <2>5. g.expires \in Nat BY IdAssumption DEF IdAssumption, IdEvent, Grants
    <2>6. ASSUME state = "verified" PROVE VerifiedOnce(idLog, g)
      <3>1. Verdict(idHeld[h].log, g, idNow) = "verified" BY <2>2, <2>6
      <3>2. idNow < g.expires => 0 < g.expires BY <2>4, <2>5
      <3>3. Verdict(idHeld[h].log, g, 0) = "verified" BY <3>1, <3>2 DEF Verdict, StillGrants
      <3> QED BY <2>4, <3>3 DEF VerifiedOnce
    <2> QED BY <1>4, <1>11, <2>1, <2>3, <2>6 DEF PutProof
  <1>12. ASSUME NEW e \in Cards, ClearCard(e) PROVE AuthorityInv'
    <2>1. /\ idLog' = idLog /\ idRow' = idRow /\ idCleared' = idCleared \cup {e} /\ idNow' = idNow
          /\ idProofs' = idProofs /\ idHeld' = idHeld /\ idPending' = idPending
      BY <1>12 DEF ClearCard
    <2>2. IdTypeOK' BY <1>1, <2>1 DEF IdTypeOK
    <2>3. \E g \in Grants : g.device = e.device /\ g.scope = PublishScope /\ VerifiedOnce(idLog, g)
      <3>1. PICK g \in Refs(e.device, PublishScope) : idProofs[g] = "verified"
        BY <1>12 DEF ClearCard, GateAllows
      <3>2. g \in Grants /\ g.device = e.device /\ g.scope = PublishScope BY DEF Refs
      <3> QED BY <3>1, <3>2 DEF AuthorityInv
    <2>4. \A f \in idCleared' :
            \E g \in Grants : g.device = f.device /\ g.scope = PublishScope /\ VerifiedOnce(idLog, g)
      BY <2>1, <2>3 DEF AuthorityInv
    <2> QED BY <2>1, <2>2, <2>4 DEF AuthorityInv, VerifiedOnce
  <1>13. ASSUME IdTick PROVE AuthorityInv'
    <2>1. /\ idLog' = idLog /\ idRow' = idRow /\ idCleared' = idCleared /\ idNow' = idNow + 1
          /\ idProofs' = idProofs /\ idHeld' = idHeld /\ idPending' = idPending /\ idNow < MaxIdNow
      BY <1>13 DEF IdTick
    <2>2. idNow' \in 0..MaxIdNow BY <1>1, <2>1, IdAssumption DEF IdAssumption, IdTypeOK
    <2>3. IdTypeOK' BY <1>1, <2>1, <2>2 DEF IdTypeOK
    <2> QED BY <2>1, <2>3 DEF AuthorityInv, VerifiedOnce
  <1> QED BY <1>2, <1>5, <1>6, <1>7, <1>8, <1>9, <1>10, <1>11, <1>12, <1>13 DEF IdNext

\* The log, the projection and the registry keep their types, for any events and hosts.
THEOREM AuthorityTypeCorrect == IdSpec => []IdTypeOK
  <1>1. AuthorityInv /\ [IdNext]_idVars => AuthorityInv' BY AuthorityStepInv
  <1>2. AuthorityInv => IdTypeOK BY DEF AuthorityInv
  <1> QED BY <1>1, <1>2, AuthorityInitInv, PTL DEF IdSpec

\* The projection, which folds the events as they arrive, has the devices that the verifier
\* makes of the log by date, if it gets through and no device was revoked twice.
THEOREM AuthorityIsRebuilt == IdSpec => []DevicesAreRebuilt
  <1>1. AuthorityInv /\ [IdNext]_idVars => AuthorityInv' BY AuthorityStepInv
  <1>2. AuthorityInv => DevicesAreRebuilt
    <2> SUFFICES ASSUME AuthorityInv, RevokedOnce(idLog), Seeded(idLog).ok
                 PROVE  Seeded(idLog).state.devices = idRow.devices
      BY DEF DevicesAreRebuilt
    <2>1. IsIdLog(idLog) /\ idRow \in IdState BY DEF AuthorityInv, IdTypeOK, IsIdLog
    <2>2. Seeded(idLog) \in Seed /\ EpochsSay(idLog, Seeded(idLog).state) BY <2>1, SeededSays
    <2>3. EpochsSay(idLog, idRow) BY DEF AuthorityInv
    <2>4. PICK state : state = Seeded(idLog).state OBVIOUS
    <2>5. state \in IdState /\ EpochsSay(idLog, state) BY <2>2, <2>4 DEF Seed
    <2>6. idLog \in SUBSET IdEvents BY <2>1 DEF IsIdLog
    <2>7. state.devices = idRow.devices BY <2>1, <2>3, <2>5, <2>6, EpochsSayOne
    <2> QED BY <2>4, <2>7
  <1> QED BY <1>1, <1>2, AuthorityInitInv, PTL DEF IdSpec

\* A verdict is the last word of the log about the grant and its device, and a card was let
\* out by one that some state of the log has given.
THEOREM AuthorityVerdictsAreKept == IdSpec => []VerdictsAreKept
  <1>1. AuthorityInv /\ [IdNext]_idVars => AuthorityInv' BY AuthorityStepInv
  <1>2. AuthorityInv => VerdictFollowsLastWord
    <2> SUFFICES ASSUME AuthorityInv, NEW g \in Grants \cap idLog
                 PROVE  Verdict(idLog, g, idNow) = "verified" <=>
                          /\ Seeded(idLog).ok
                          /\ idNow < g.expires
                          /\ \E e \in LastGrant(idLog, g.cap) :
                               e.kind = "granted" /\ e.device = g.device /\ e.expires = g.expires
                          /\ \E e \in LastOfDevice(idLog, g.device) : e.kind # "revoked"
      BY DEF VerdictFollowsLastWord
    <2>1. IsIdLog(idLog) BY DEF AuthorityInv, IdTypeOK, IsIdLog
    <2>2. Seeded(idLog).ok => DatesSay(idLog, Seeded(idLog).state) BY <2>1, SeededSays
    <2>3. PICK state : state = Seeded(idLog).state OBVIOUS
    <2>4. g.cap \in IdCaps /\ g.device \in IdDevices
      BY IdAssumption DEF IdAssumption, IdEvent, Grants
    <2>5. Verdict(idLog, g, idNow) = "verified" <=>
            Seeded(idLog).ok /\ StillGrants(state, g, idNow)
      BY <2>3 DEF Verdict
    <2>6. ASSUME Seeded(idLog).ok
          PROVE  StillGrants(state, g, idNow) <=>
                   /\ idNow < g.expires
                   /\ \E e \in LastGrant(idLog, g.cap) :
                        e.kind = "granted" /\ e.device = g.device /\ e.expires = g.expires
                   /\ \E e \in LastOfDevice(idLog, g.device) : e.kind # "revoked"
      <3>1. DatesSay(idLog, state) BY <2>2, <2>3, <2>6
      <3>2. /\ state.caps[g.cap].status = "granted" <=>
                 \E e \in LastGrant(idLog, g.cap) : e.kind = "granted"
            /\ state.caps[g.cap].status = "granted" =>
                 state.caps[g.cap].grant = LastGrant(idLog, g.cap)
            /\ state.devices[g.device].status = "active" <=>
                 \E e \in LastOfDevice(idLog, g.device) : e.kind # "revoked"
        BY <2>4, <3>1 DEF DatesSay
      <3>3. \A e, f \in LastGrant(idLog, g.cap) : e = f
        <4> SUFFICES ASSUME NEW e \in LastGrant(idLog, g.cap), NEW f \in LastGrant(idLog, g.cap),
                            e # f
                     PROVE  FALSE
          OBVIOUS
        <4>1. IdBefore(e, f) /\ IdBefore(f, e) BY DEF LastGrant, NewestOf
        <4>2. e \in IdEvents /\ f \in IdEvents BY <2>1 DEF LastGrant, NewestOf, IsIdLog
        <4>3. e.at \in Nat /\ f.at \in Nat /\ e.id \in Nat /\ f.id \in Nat
          BY <4>2, IdAssumption DEF IdAssumption, IdEvent
        <4> QED BY <4>1, <4>3 DEF IdBefore
      <3> QED BY <3>2, <3>3 DEF StillGrants
    <2> QED BY <2>5, <2>6
  <1>3. AuthorityInv => ClearedWasGranted
    BY DEF AuthorityInv, ClearedWasGranted, VerifiedOnce
  <1>4. AuthorityInv => VerdictsAreKept BY <1>2, <1>3 DEF VerdictsAreKept
  <1> QED BY <1>1, <1>4, AuthorityInitInv, PTL DEF IdSpec

-----------------------------------------------------------------------------
(***************************************************************************)
(* MlsForksAreSettledByContent of MlsGroup.                                *)
(***************************************************************************)

\* The commits that a projection has taken or given up, and Flat, are Rivals and FlatOn
\* of a state.
Met(s) ==
  {c \in MlsControls : c.kind = "commit" /\
     c.id \in s.accepted \cup UNION {r.rejected : r \in s.recoveries}}

Flat(s) ==
  \A c \in MlsControls : c.id \in s.accepted \/ c \in Met(s) =>
    \/ c.kind = "created"
    \/ c.kind = "commit" /\ \E root \in MlsControls : root.kind = "created" /\ c.prev = root.id

OfMembers(s, S) == \A c \in S : c.kind = "commit" => IsMemberDevice(s, c.issuer)

\* Nothing is accepted before the creation or after it alone.
Unstarted(s) ==
  s.accepted = {} =>
    s.last = None /\ s.lastRef = None /\ s.candidates = {} /\ s.recoveries = {}

AtRoot(s) ==
  \E root \in MlsControls :
    /\ root.kind = "created" /\ s.last = root.id /\ s.accepted = {root.id}
    /\ s.lastRef = None /\ s.candidates = {} /\ s.recoveries = {}

\* The head is a commit h that is stored, the lowest of those met, and what is queued is
\* of epochs that are past, so that the head is seeded when a rival comes.
HeadIs(s, h) ==
  /\ h.kind = "commit" /\ h.id = s.last /\ h.id \in s.accepted
  /\ h.ref = s.lastRef /\ h.issuer = s.lastIssuer /\ s.lastRef # None
  /\ \A c \in Met(s) : s.lastRef <= c.ref
  /\ \A k \in s.candidates : k.epoch < s.epoch

Settled(s, S) ==
  s.accepted # {} /\ Flat(s) /\ OfMembers(s, S) => AtRoot(s) \/ \E h \in S : HeadIs(s, h)

-----------------------------------------------------------------------------
\* Resolving a fork selects one of the safe candidates, and the lowest.
LEMMA SelectIsLowest ==
  ASSUME NEW safe \in SUBSET Candidate, safe # {}
  PROVE  Select(safe) \in safe /\ \A k \in safe : Select(safe).ref <= k.ref
<1> DEFINE T == {k.ref : k \in safe}
<1>1. T \in SUBSET Nat /\ T # {} BY DEF Candidate
<1>2. \E n \in T : \A m \in T : n <= m
  <2> HIDE DEF T
  <2> QED BY <1>1, LowestNumber
<1>3. \E k \in safe : \A other \in safe : k.ref <= other.ref BY <1>2
<1> QED BY <1>3 DEF Select

LEMMA MembersTyped ==
  ASSUME NEW s \in GroupState, NEW i \in MlsIdentities, NEW m \in Member
  PROVE  [s.members EXCEPT ![i] = m] \in [MlsIdentities -> Member]
BY DEF GroupState

LEMMA ControlTyped ==
  ASSUME NEW c \in MlsControls
  PROVE  /\ c.kind \in MlsKinds /\ c.id \in Nat /\ c.id # None /\ c.prev \in Nat
         /\ c.epoch \in Nat /\ c.issuer \in Nat /\ c.device \in SUBSET Nat
         /\ c.ref \in Nat /\ c.others \in SUBSET Nat /\ c.who \in MlsIdentities
<1>1. c \in MlsControl BY MlsAssumption DEF MlsAssumption
<1> QED BY <1>1 DEF MlsControl, MlsIdentities

LEMMA AppliedTyped ==
  ASSUME NEW d \in MlsDevices, NEW s \in GroupState, NEW c \in MlsControls
  PROVE  Applied(d, s, c) \in GroupState
<1> USE ControlTyped
<1> DEFINE m == s.members[c.who]
<1>0. m \in Member /\ m.devices \in SUBSET Nat BY DEF GroupState, Member
<1>1. CASE c.kind = "created"
  <2> DEFINE M == [i \in MlsIdentities |->
       [status |-> IF i \in c.others \cup {c.who} THEN "active" ELSE "none",
        devices |-> IF i = c.who THEN c.device ELSE {}]]
  <2>1. M \in [MlsIdentities -> Member] BY DEF Member
  <2> DEFINE l == IF d \in c.device THEN "member" ELSE "never-added"
  <2>2. Created(d, s, c) = [s EXCEPT !.epoch = 0, !.local = l, !.members = M] BY DEF Created
  <2>4. l \in {"unknown", "member", "removed", "never-added"} OBVIOUS
  <2> HIDE DEF M, l
  <2>5. [s EXCEPT !.epoch = 0, !.local = l, !.members = M] \in GroupState
    BY <2>1, <2>4 DEF GroupState
  <2>3. Created(d, s, c) \in GroupState BY <2>2, <2>5
  <2> QED BY <2>3, <1>1 DEF Applied
<1>2. CASE c.kind = "added"
  <2> DEFINE n == [status |-> "active", devices |-> m.devices \cup c.device]
             M == [s.members EXCEPT ![c.who] = n]
  <2>1. n \in Member BY <1>0 DEF Member
  <2>2. M \in [MlsIdentities -> Member]
    <3> HIDE DEF n
    <3> QED BY <2>1, MembersTyped
  <2>3. Added(d, s, c) =
          [s EXCEPT !.local = IF d \in c.device THEN "member" ELSE s.local, !.members = M]
    BY DEF Added, GroupState
  <2> HIDE DEF M
  <2>4. Added(d, s, c) \in GroupState BY <2>2, <2>3 DEF GroupState
  <2> QED BY <2>4, <1>2 DEF Applied
<1>3. CASE c.kind = "removed"
  <2> DEFINE n == [m EXCEPT !.status = "removed"]
             M == [s.members EXCEPT ![c.who] = n]
  <2>1. n \in Member BY <1>0 DEF Member
  <2>2. M \in [MlsIdentities -> Member]
    <3> HIDE DEF n
    <3> QED BY <2>1, MembersTyped
  <2>3. Removed(d, s, c) =
          [s EXCEPT !.local = IF d \in c.device \cup m.devices THEN "removed" ELSE s.local,
                    !.members = M]
    BY DEF Removed, GroupState
  <2> HIDE DEF M
  <2>4. Removed(d, s, c) \in GroupState BY <2>2, <2>3 DEF GroupState
  <2> QED BY <2>4, <1>3 DEF Applied
<1>4. CASE c.kind = "detected"
  <2> DEFINE K == {[id |-> r, ref |-> r, epoch |-> c.epoch, issuer |-> c.issuer] : r \in c.others}
  <2>1. K \subseteq Candidate BY DEF Candidate
  <2>2. Detected(s, c) = [s EXCEPT !.candidates = @ \cup K] BY DEF Detected
  <2> HIDE DEF K
  <2>3. Detected(s, c) \in GroupState BY <2>1, <2>2 DEF GroupState
  <2> QED BY <2>3, <1>4 DEF Applied
<1>5. CASE c.kind = "recovery"
  <2> DEFINE selected == {k \in s.candidates : k.id = c.ref}
             chosen == CHOOSE k \in selected : TRUE
             C == {k \in s.candidates : k.id \notin c.others \cup {c.ref}}
             r == [selected |-> c.ref, rejected |-> c.others]
             x == IF selected = {} THEN s.lastRef ELSE chosen.ref
             y == IF selected = {} THEN s.lastIssuer ELSE chosen.issuer
  <2>1. Recovered(s, c) = [s EXCEPT !.candidates = C, !.recoveries = @ \cup {r},
                                    !.lastRef = x, !.lastIssuer = y]
    BY DEF Recovered
  <2>2. selected # {} => chosen \in selected OBVIOUS
  <2>3. selected \subseteq Candidate /\ C \subseteq Candidate BY DEF GroupState
  <2>4. x \in Nat /\ y \in Nat
    <3> HIDE DEF selected, chosen
    <3> QED BY <2>2, <2>3 DEF GroupState, Candidate
  <2> DEFINE R == s.recoveries \cup {r}
  <2>5. R \in SUBSET [selected: Nat, rejected: SUBSET Nat] BY DEF GroupState
  <2>7. Recovered(s, c) = [s EXCEPT !.candidates = C, !.recoveries = R,
                                    !.lastRef = x, !.lastIssuer = y]
    BY <2>1 DEF GroupState
  <2> HIDE DEF C, R, x, y
  <2>6. Recovered(s, c) \in GroupState BY <2>3, <2>4, <2>5, <2>7 DEF GroupState
  <2> QED BY <2>6, <1>5 DEF Applied
<1>6. CASE c.kind \in {"advanced", "stale", "commit"}
  BY <1>6 DEF Applied, GroupState
<1>7. CASE c.kind \in {"proposed", "updated", "welcome"}
  BY <1>7 DEF Applied
<1> QED BY <1>1, <1>2, <1>3, <1>4, <1>5, <1>6, <1>7 DEF MlsKinds
LEMMA RivalsTyped ==
  ASSUME NEW s \in GroupState, NEW c \in MlsControls
  PROVE  Competing(s, c) \in SUBSET Candidate /\ CandidateOf(c) \in Candidate
<1>1. HeadCandidate(s, c) \subseteq Candidate
  BY ControlTyped DEF HeadCandidate, Candidate, GroupState
<1>2. CandidateOf(c) \in Candidate BY ControlTyped DEF CandidateOf, Candidate
<1> QED BY <1>1, <1>2 DEF Competing, GroupState

LEMMA ResolvedTyped ==
  ASSUME NEW s \in GroupState, NEW rivals \in SUBSET Candidate
  PROVE  Resolved(s, rivals) \in GroupState
<1> DEFINE safe == {k \in rivals : IsMemberDevice(s, k.issuer)}
           selected == Select(safe)
           K == {k \in rivals : k.id \notin {i.id : i \in safe}}
           r == [selected |-> selected.id, rejected |-> {k.id : k \in safe \ {selected}}]
           R == s.recoveries \cup {r}
           A == s.accepted \cup {selected.id}
<1>1. CASE safe = {}
  <2>1. [s EXCEPT !.candidates = rivals] \in GroupState BY DEF GroupState
  <2> QED BY <1>1, <2>1 DEF Resolved
<1>2. CASE safe # {}
  <2>1. selected \in Candidate
    <3>1. safe \in SUBSET Candidate OBVIOUS
    <3> HIDE DEF safe
    <3> QED BY <1>2, <3>1, SelectIsLowest
  <2>2. Resolved(s, rivals) =
          [s EXCEPT !.epoch = selected.epoch, !.candidates = K, !.recoveries = R,
                    !.accepted = A, !.last = selected.id, !.lastRef = selected.ref,
                    !.lastIssuer = selected.issuer]
    BY <1>2 DEF Resolved
  <2>3. K \in SUBSET Candidate OBVIOUS
  <2>4. safe \in SUBSET Candidate OBVIOUS
  <2>5. A \in SUBSET Nat
    <3> HIDE DEF selected
    <3> QED BY <2>1 DEF Candidate, GroupState
  <2>6. R \in SUBSET [selected: Nat, rejected: SUBSET Nat]
    <3> HIDE DEF selected, safe
    <3>1. {k.id : k \in safe \ {selected}} \in SUBSET Nat BY <2>4 DEF Candidate
    <3>2. r \in [selected: Nat, rejected: SUBSET Nat] BY <2>1, <3>1 DEF Candidate
    <3> QED BY <3>2 DEF GroupState
  <2> HIDE DEF K, R, A, selected
  <2>7. [s EXCEPT !.epoch = selected.epoch, !.candidates = K, !.recoveries = R,
                  !.accepted = A, !.last = selected.id, !.lastRef = selected.ref,
                  !.lastIssuer = selected.issuer] \in GroupState
    BY <2>1, <2>3, <2>5, <2>6 DEF GroupState, Candidate
  <2> QED BY <2>2, <2>7
<1> QED BY <1>1, <1>2

LEMMA ProjectedTyped ==
  ASSUME NEW d \in MlsDevices, NEW s \in GroupState, NEW c \in MlsControls
  PROVE  Projected(d, s, c) \in GroupState
<1>1. Forked(d, s, c) \in GroupState
  <2> DEFINE K == s.candidates \cup {CandidateOf(c)}
             L == s.candidates \cup Competing(s, c)
  <2>1. [s EXCEPT !.candidates = K] \in GroupState BY RivalsTyped DEF GroupState
  <2>2. [s EXCEPT !.candidates = L] \in GroupState BY RivalsTyped DEF GroupState
  <2>3. Resolved(s, Competing(s, c)) \in GroupState BY RivalsTyped, ResolvedTyped
  <2> QED BY <2>1, <2>2, <2>3 DEF Forked
<1>2. Accepted(d, s, c) \in GroupState
  <2>1. PICK t : t = Applied(d, s, c) OBVIOUS
  <2>2. t \in GroupState BY <2>1, AppliedTyped
  <2>3. [t EXCEPT !.accepted = @ \cup {c.id}, !.last = c.id] \in GroupState
    BY <2>2, ControlTyped DEF GroupState
  <2> QED BY <2>1, <2>3 DEF Accepted
<1>3. [s EXCEPT !.rejected = @ \cup {c.id}] \in GroupState BY ControlTyped DEF GroupState
<1> QED BY <1>1, <1>2, <1>3 DEF Projected

-----------------------------------------------------------------------------
\* What is asked of a state asks less of those before it.
LEMMA SettledGrows ==
  ASSUME NEW s, NEW S, NEW R, S \subseteq R, Settled(s, S)
  PROVE  Settled(s, R)
BY DEF Settled, OfMembers

LEMMA SettledAlike ==
  ASSUME NEW s, NEW t, NEW S, Settled(s, S), t.accepted = s.accepted,
         t.candidates = s.candidates, t.recoveries = s.recoveries, t.last = s.last,
         t.lastRef = s.lastRef, t.lastIssuer = s.lastIssuer, t.epoch = s.epoch,
         t.members = s.members
  PROVE  Settled(t, S)
<1>1. Met(t) = Met(s) BY DEF Met
<1>2. Flat(t) => Flat(s) BY <1>1 DEF Flat
<1>3. OfMembers(t, S) => OfMembers(s, S) BY DEF OfMembers, IsMemberDevice
<1>4. AtRoot(s) => AtRoot(t) BY DEF AtRoot
<1>5. \A h \in S : HeadIs(s, h) => HeadIs(t, h) BY <1>1 DEF HeadIs
<1> QED BY <1>2, <1>3, <1>4, <1>5 DEF Settled

LEMMA FlatBefore ==
  ASSUME NEW s, NEW t, Flat(t), s.accepted \subseteq t.accepted,
         s.recoveries \subseteq t.recoveries
  PROVE  Flat(s) /\ Met(s) \subseteq Met(t)
<1>1. Met(s) \subseteq Met(t) BY DEF Met
<1> QED BY <1>1 DEF Flat

\* The controls of a fork: the head, which a commit precedes, and the rival.
LEMMA ForkSettles ==
  ASSUME NEW d \in MlsAutomated, NEW s \in GroupState, NEW S \in SUBSET MlsControls,
         NEW c \in S, Settled(s, S), c.kind = "commit", c.prev # s.last,
         ~Refused(s, c), c.id \notin s.accepted
  PROVE  Settled(Forked(d, s, c), S)
<1>1. PICK t : t = Forked(d, s, c) OBVIOUS
<1> SUFFICES ASSUME t.accepted # {}, Flat(t), OfMembers(t, S)
             PROVE  AtRoot(t) \/ \E h \in S : HeadIs(t, h)
  BY <1>1 DEF Settled
<1>c. c \in MlsControls OBVIOUS
<1>2. c.prev \in s.accepted /\ c \notin MlsMalformed BY DEF Refused
<1>3. c.ref # None /\ c.ref \in Nat /\ c.epoch \in Nat /\ c.id \in Nat /\ c.issuer \in Nat
  BY <1>2, <1>c, MlsAssumption, ControlTyped DEF MlsAssumption
<1>4. CASE Stale(s, c)
  <2>1. t = [s EXCEPT !.candidates = @ \cup {CandidateOf(c)}] BY <1>1, <1>4 DEF Forked
  <2>2. /\ t.accepted = s.accepted /\ t.recoveries = s.recoveries /\ t.members = s.members
        /\ t.last = s.last /\ t.lastRef = s.lastRef /\ t.lastIssuer = s.lastIssuer
        /\ t.epoch = s.epoch /\ t.candidates = s.candidates \cup {CandidateOf(c)}
    BY <2>1 DEF GroupState
  <2>3. Flat(s) /\ OfMembers(s, S)
    BY <2>2, FlatBefore DEF OfMembers, IsMemberDevice
  <2>4. ~AtRoot(s) BY <1>2 DEF AtRoot
  <2>5. PICK h \in S : HeadIs(s, h) BY <1>2, <2>3, <2>4 DEF Settled
  <2>6. Met(t) = Met(s) BY <2>2 DEF Met
  <2>7. CandidateOf(c).epoch < s.epoch BY <1>4 DEF CandidateOf, Stale
  <2>8. HeadIs(t, h) BY <2>2, <2>5, <2>6, <2>7 DEF HeadIs
  <2> QED BY <2>8
<1>5. CASE ~Stale(s, c)
  <2> DEFINE rivals == Competing(s, c)
             safe == {k \in rivals : IsMemberDevice(s, k.issuer)}
  <2>1. s.accepted \subseteq t.accepted /\ s.recoveries \subseteq t.recoveries
        /\ t.members = s.members
    <3>1. t.members = s.members
      BY <1>1, <1>5 DEF Forked, Resolved, GroupState
    <3>2. s.accepted \subseteq t.accepted
      BY <1>1, <1>5 DEF Forked, Resolved, GroupState
    <3>3. s.recoveries \subseteq t.recoveries
      BY <1>1, <1>5 DEF Forked, Resolved, GroupState
    <3> QED BY <3>1, <3>2, <3>3
  <2>2. Flat(s) /\ OfMembers(s, S) /\ Met(s) \subseteq Met(t)
    BY <2>1, FlatBefore DEF OfMembers, IsMemberDevice
  <2>3. ~AtRoot(s) BY <1>2 DEF AtRoot
  <2>4. PICK h \in S : HeadIs(s, h) BY <1>2, <2>2, <2>3 DEF Settled
  <2>5. h \in MlsControls /\ h.kind = "commit" /\ h.id = s.last /\ h.id # None
        /\ h.ref = s.lastRef /\ h.issuer = s.lastIssuer /\ h.ref # None /\ h.ref \in Nat
        /\ h.id # c.id
    BY <2>4, ControlTyped DEF HeadIs
  <2>6. {k \in s.candidates : k.epoch = c.epoch} = {}
    <3>1. ASSUME NEW k \in s.candidates, k.epoch = c.epoch PROVE FALSE
      <4>1. k.epoch < s.epoch BY <2>4 DEF HeadIs
      <4> QED BY <3>1, <4>1, <1>5 DEF Stale
    <3> QED BY <3>1
  <2>7. PICK H : H = [id |-> h.id, ref |-> h.ref, epoch |-> c.epoch, issuer |-> h.issuer]
    OBVIOUS
  <2>8. PICK K : K = [id |-> c.id, ref |-> c.ref, epoch |-> c.epoch, issuer |-> c.issuer]
    OBVIOUS
  <2>9. rivals = {H, K}
    BY <2>5, <2>6, <2>7, <2>8 DEF Competing, HeadCandidate, CandidateOf
  <2>10. H # K /\ H.id = h.id /\ K.id = c.id /\ H.ref = h.ref /\ K.ref = c.ref
         /\ H.issuer = h.issuer /\ K.issuer = c.issuer /\ H.epoch = c.epoch
         /\ K.epoch = c.epoch
    BY <2>5, <2>7, <2>8
  <2>11. Cardinality({H, K}) >= 2
    <3>1. IsFiniteSet({H}) /\ Cardinality({H}) = 1 BY FS_Singleton
    <3>2. PICK A : A = {H} OBVIOUS
    <3>3. IsFiniteSet(A) /\ Cardinality(A) = 1 /\ K \notin A BY <3>1, <3>2, <2>10
    <3>4. Cardinality(A \cup {K}) = Cardinality(A) + 1 BY <3>3, FS_AddElement
    <3>5. {H, K} = A \cup {K} BY <3>2
    <3> QED BY <3>3, <3>4, <3>5
  <2>12. safe = {H, K}
    <3>1. IsMemberDevice(s, h.issuer) BY <2>2, <2>5 DEF OfMembers
    <3>2. IsMemberDevice(s, c.issuer) BY <2>2 DEF OfMembers
    <3> QED BY <2>9, <2>10, <3>1, <3>2
  <2>13. PICK x : x = Select({H, K}) OBVIOUS
  <2>14. x \in {H, K} /\ x.ref <= H.ref /\ x.ref <= K.ref
    <3>1. {H, K} \in SUBSET Candidate BY RivalsTyped, <2>9
    <3>2. {H, K} # {} OBVIOUS
    <3> QED BY <2>13, <3>1, <3>2, SelectIsLowest
  <2>15. t = Resolved(s, rivals) BY <1>1, <1>5, <2>9, <2>11 DEF Forked
  <2>16. t = [s EXCEPT
              !.epoch = x.epoch,
              !.candidates = {k \in {H, K} : k.id \notin {i.id : i \in {H, K}}},
              !.recoveries = @ \cup {[selected |-> x.id,
                                      rejected |-> {k.id : k \in {H, K} \ {x}}]},
              !.accepted = @ \cup {x.id},
              !.last = x.id,
              !.lastRef = x.ref,
              !.lastIssuer = x.issuer]
    BY <2>15, <2>12, <2>9, <2>13 DEF Resolved
  <2>17. PICK r : r = [selected |-> x.id, rejected |-> {k.id : k \in {H, K} \ {x}}] OBVIOUS
  <2>18. r.rejected \subseteq {h.id, c.id} BY <2>17, <2>10
  <2>19. /\ t.accepted = s.accepted \cup {x.id} /\ t.recoveries = s.recoveries \cup {r}
         /\ t.last = x.id /\ t.lastRef = x.ref /\ t.lastIssuer = x.issuer
    BY <2>16, <2>17 DEF GroupState
  <2>20. t.candidates = {} BY <2>16 DEF GroupState
  <2>21. x.id \in {h.id, c.id} BY <2>10, <2>14
  <2>22. \A e \in Met(t) : e \in Met(s) \/ e = c
    <3> SUFFICES ASSUME NEW e \in Met(t), e \notin Met(s) PROVE e = c OBVIOUS
    <3>1. e \in MlsControls /\ e.kind = "commit" BY DEF Met
    <3>2. e.id \in {h.id, c.id} BY <2>18, <2>19, <2>21, <3>1 DEF Met
    <3>3. h \in Met(s) BY <2>4, <2>5 DEF Met, HeadIs
    <3> QED BY <3>1, <3>2, <3>3, <1>c, <2>5, MlsAssumption DEF MlsAssumption
  <2>23. \A e \in Met(t) : t.lastRef <= e.ref
    <3> SUFFICES ASSUME NEW e \in Met(t) PROVE x.ref <= e.ref BY <2>19
    <3>1. CASE e = c BY <3>1, <2>14, <2>10
    <3>2. CASE e \in Met(s)
      <4>1. h.ref <= e.ref BY <3>2, <2>4, <2>5 DEF HeadIs
      <4>2. e.ref \in Nat /\ x.ref \in Nat BY ControlTyped, <1>3, <2>5, <2>10, <2>14 DEF Met
      <4> QED BY <4>1, <4>2, <2>5, <2>10, <2>14
    <3> QED BY <2>22, <3>1, <3>2
  <2>24. CASE x = H
    <3>1. HeadIs(t, h) BY <2>24, <2>5, <2>10, <2>19, <2>20, <2>23 DEF HeadIs
    <3> QED BY <3>1
  <2>25. CASE x = K
    <3>1. HeadIs(t, c) BY <2>25, <1>3, <2>10, <2>19, <2>20, <2>23 DEF HeadIs
    <3> QED BY <3>1
  <2> QED BY <2>14, <2>24, <2>25
<1> QED BY <1>4, <1>5

\* What follows the last control: the creation, or the first commit after it.
LEMMA AcceptanceSettles ==
  ASSUME NEW d \in MlsDevices, NEW s \in GroupState, NEW S \in SUBSET MlsControls,
         NEW c \in S, Settled(s, S), Unstarted(s), ~Refused(s, c),
         c.kind = "commit" => c.prev = s.last
  PROVE  Settled(Accepted(d, s, c), S)
<1>1. PICK t : t = Accepted(d, s, c) OBVIOUS
<1> SUFFICES ASSUME Flat(t), OfMembers(t, S)
             PROVE  AtRoot(t) \/ \E h \in S : HeadIs(t, h)
  BY <1>1 DEF Settled
<1>c. c \in MlsControls /\ c.id # None BY ControlTyped
<1>2. c.id \in t.accepted
  <2>1. PICK a : a = Applied(d, s, c) OBVIOUS
  <2>2. a \in GroupState BY <2>1, <1>c, AppliedTyped
  <2>3. t = [a EXCEPT !.accepted = @ \cup {c.id}, !.last = c.id]
    BY <1>1, <2>1 DEF Accepted
  <2> QED BY <2>2, <2>3 DEF GroupState
<1>3. CASE c.kind = "created"
  <2>1. s.accepted = {} BY <1>3 DEF Refused
  <2>2. s.last = None /\ s.lastRef = None /\ s.candidates = {} /\ s.recoveries = {}
    BY <2>1 DEF Unstarted
  <2>3. t = [Created(d, s, c) EXCEPT !.accepted = @ \cup {c.id}, !.last = c.id]
    BY <1>1, <1>3 DEF Accepted, Applied
  <2>4. t.accepted = {c.id} /\ t.last = c.id /\ t.lastRef = None /\ t.candidates = {}
        /\ t.recoveries = {}
    BY <2>1, <2>2, <2>3 DEF Created, GroupState
  <2> QED BY <2>4, <1>3 DEF AtRoot
<1>4. CASE c.kind # "created"
  <2>1. PICK root \in MlsControls : root.kind = "created" /\ c.prev = root.id
    BY <1>2, <1>4 DEF Flat
  <2>2. c.kind = "commit" BY <1>2, <1>4 DEF Flat
  <2>3. c.prev = s.last /\ c.prev \in s.accepted /\ c \notin MlsMalformed
    BY <2>2 DEF Refused
  <2>4. t = [s EXCEPT !.epoch = c.epoch, !.lastRef = c.ref, !.lastIssuer = c.issuer,
                      !.accepted = @ \cup {c.id}, !.last = c.id]
    BY <1>1, <2>2 DEF Accepted, Applied, GroupState
  <2>5. /\ t.accepted = s.accepted \cup {c.id} /\ t.recoveries = s.recoveries
        /\ t.members = s.members /\ t.candidates = s.candidates /\ t.last = c.id
        /\ t.lastRef = c.ref /\ t.lastIssuer = c.issuer /\ t.epoch = c.epoch
    BY <2>4 DEF GroupState
  <2>6. Flat(s) /\ OfMembers(s, S)
    BY <2>5, FlatBefore DEF OfMembers, IsMemberDevice
  <2>7. ~(\E h \in S : HeadIs(s, h))
    <3> SUFFICES ASSUME NEW h \in S, HeadIs(s, h) PROVE FALSE OBVIOUS
    <3>1. h \in MlsControls /\ h.id = root.id /\ h.kind = "commit"
      BY <2>1, <2>3 DEF HeadIs
    <3> QED BY <3>1, <2>1, MlsAssumption DEF MlsAssumption
  <2>8. AtRoot(s) BY <2>3, <2>6, <2>7 DEF Settled
  <2>9. s.accepted = {root.id} /\ s.candidates = {} /\ s.recoveries = {}
    BY <2>8, <2>1, <2>3 DEF AtRoot
  <2>10. \A e \in Met(t) : e = c
    <3> SUFFICES ASSUME NEW e \in Met(t) PROVE e = c OBVIOUS
    <3>1. e \in MlsControls /\ e.kind = "commit" /\ e.id \in {root.id, c.id}
      BY <2>5, <2>9 DEF Met
    <3> QED BY <3>1, <2>1, <1>c, MlsAssumption DEF MlsAssumption
  <2>11. c.ref # None /\ c.ref \in Nat
    BY <2>2, <2>3, <1>c, MlsAssumption, ControlTyped DEF MlsAssumption
  <2>12. \A e \in Met(t) : c.ref <= e.ref BY <2>10, <2>11
  <2>13. HeadIs(t, c) BY <2>2, <2>5, <2>9, <2>11, <2>12 DEF HeadIs
  <2> QED BY <2>13
<1> QED BY <1>3, <1>4

LEMMA ProjectionSettles ==
  ASSUME NEW d \in MlsAutomated, NEW s \in GroupState, NEW S \in SUBSET MlsControls,
         NEW c \in S, Settled(s, S), Unstarted(s)
  PROVE  Settled(Projected(d, s, c), S)
<1>1. Settled([s EXCEPT !.rejected = @ \cup {c.id}], S)
  <2>1. PICK t : t = [s EXCEPT !.rejected = @ \cup {c.id}] OBVIOUS
  <2>2. t.accepted = s.accepted /\ t.candidates = s.candidates
        /\ t.recoveries = s.recoveries /\ t.last = s.last /\ t.lastRef = s.lastRef
        /\ t.lastIssuer = s.lastIssuer /\ t.epoch = s.epoch /\ t.members = s.members
    BY <2>1 DEF GroupState
  <2> QED BY <2>1, <2>2, SettledAlike
<1>2. d \in MlsDevices BY MlsAssumption DEF MlsAssumption
<1> QED BY <1>1, <1>2, ForkSettles, AcceptanceSettles DEF Projected

LEMMA ProjectionStarts ==
  ASSUME NEW d \in MlsDevices, NEW s \in GroupState, NEW c \in MlsControls, Unstarted(s)
  PROVE  Unstarted(Projected(d, s, c))
<1>1. PICK t : t = Projected(d, s, c) OBVIOUS
<1> SUFFICES ASSUME t.accepted = {}
             PROVE  /\ t.last = None /\ t.lastRef = None /\ t.candidates = {}
                    /\ t.recoveries = {}
  BY <1>1 DEF Unstarted
<1>2. CASE c.id \in s.accepted \cup s.rejected
  BY <1>1, <1>2 DEF Projected, Unstarted
<1>3. CASE c.id \notin s.accepted \cup s.rejected /\ Refused(s, c)
  <2>1. t = [s EXCEPT !.rejected = @ \cup {c.id}] BY <1>1, <1>3 DEF Projected
  <2> QED BY <2>1 DEF Unstarted, GroupState
<1>4. CASE /\ c.id \notin s.accepted \cup s.rejected /\ ~Refused(s, c)
           /\ c.kind = "commit" /\ c.prev # s.last
  <2>1. s.accepted # {} BY <1>4 DEF Refused
  <2>2. s.accepted \subseteq Forked(d, s, c).accepted
    BY DEF Forked, Resolved, GroupState
  <2> QED BY <1>1, <1>4, <2>1, <2>2 DEF Projected
<1>5. CASE /\ c.id \notin s.accepted \cup s.rejected /\ ~Refused(s, c)
           /\ ~(c.kind = "commit" /\ c.prev # s.last)
  <2>1. PICK a : a = Applied(d, s, c) OBVIOUS
  <2>2. a \in GroupState BY <2>1, AppliedTyped
  <2>3. t = [a EXCEPT !.accepted = @ \cup {c.id}, !.last = c.id]
    BY <1>1, <1>5, <2>1 DEF Projected, Accepted
  <2>4. c.id \in t.accepted BY <2>2, <2>3 DEF GroupState
  <2> QED BY <2>4
<1> QED BY <1>2, <1>3, <1>4, <1>5

-----------------------------------------------------------------------------
\* The types, and what every projection and every automated one is like.
GroupInv ==
  /\ MlsTypeOK
  /\ \A d \in MlsDevices : Unstarted(mls[d])
  /\ \A d \in MlsAutomated : Settled(mls[d], mlsStored[d])

LEMMA GroupInitInv == MlsInit => GroupInv
<1> SUFFICES ASSUME MlsInit PROVE GroupInv OBVIOUS
<1>1. EmptyGroup \in GroupState
  BY DEF EmptyGroup, GroupState, Member, None
<1>2. MlsTypeOK BY <1>1 DEF MlsInit, MlsTypeOK
<1>3. Unstarted(EmptyGroup) BY DEF EmptyGroup, Unstarted
<1>4. \A S : Settled(EmptyGroup, S) BY DEF EmptyGroup, Settled
<1>5. \A d \in MlsAutomated : d \in MlsDevices BY MlsAssumption DEF MlsAssumption
<1> QED BY <1>2, <1>3, <1>4, <1>5 DEF GroupInv, MlsInit

\* A step of a device stores a control at most and projects one that is stored.
LEMMA GroupStep ==
  ASSUME GroupInv, NEW d \in MlsDevices, MlsDevice(d)
  PROVE  GroupInv'
<1>1. PICK c \in MlsControls :
        \/ AppendMlsControl(d, c) \/ PutMlsControl(d, c)
        \/ UpdateMlsProjection(d, c) \/ MissMlsControl(d, c)
  BY DEF MlsDevice
<1>2. mls \in [MlsDevices -> GroupState] /\ mlsStored \in [MlsDevices -> SUBSET MlsControls]
      /\ mlsPending \in [MlsDevices -> SUBSET MlsControls]
      /\ (\A e \in MlsDevices : mlsPending[e] \subseteq mlsStored[e])
  BY DEF GroupInv, MlsTypeOK
<1>3. PICK s \in GroupState : s = mls[d] BY <1>2
<1>4. PICK S \in SUBSET MlsControls : S = mlsStored[d] BY <1>2
<1>5. Unstarted(s) /\ (d \in MlsAutomated => Settled(s, S))
  BY <1>3, <1>4 DEF GroupInv
<1>6. PICK t : t = mls'[d] OBVIOUS
<1>7. PICK R : R = mlsStored'[d] OBVIOUS
<1>8. S \subseteq R /\ R \in SUBSET MlsControls
  BY <1>1, <1>2, <1>4, <1>7
  DEF AppendMlsControl, PutMlsControl, UpdateMlsProjection, MissMlsControl
<1>9. t = s \/ (c \in R /\ t = Projected(d, s, c))
  BY <1>1, <1>2, <1>3, <1>6, <1>7
  DEF AppendMlsControl, PutMlsControl, UpdateMlsProjection, MissMlsControl
<1>10. d \in MlsAutomated => Settled(s, R) BY <1>5, <1>8, SettledGrows
<1>11. t \in GroupState /\ Unstarted(t) BY <1>5, <1>9, ProjectedTyped, ProjectionStarts
<1>12. d \in MlsAutomated => Settled(t, R)
  BY <1>5, <1>8, <1>9, <1>10, ProjectionSettles
<1>13. mls' = [mls EXCEPT ![d] = t] /\ mlsStored' = [mlsStored EXCEPT ![d] = R]
  BY <1>1, <1>2, <1>6, <1>7
  DEF AppendMlsControl, PutMlsControl, UpdateMlsProjection, MissMlsControl
<1>14. \A e \in MlsDevices : mlsPending'[e] \subseteq mlsStored'[e]
  <2> SUFFICES ASSUME NEW e \in MlsDevices PROVE mlsPending'[e] \subseteq mlsStored'[e]
    OBVIOUS
  <2>1. CASE e # d
    <3>1. mlsPending'[e] = mlsPending[e] /\ mlsStored'[e] = mlsStored[e]
      BY <1>1, <1>2, <2>1
      DEF AppendMlsControl, PutMlsControl, UpdateMlsProjection, MissMlsControl
    <3> QED BY <3>1, <1>2
  <2>2. CASE e = d
    BY <1>1, <1>2, <2>2
    DEF AppendMlsControl, PutMlsControl, UpdateMlsProjection, MissMlsControl
  <2> QED BY <2>1, <2>2
<1>15. MlsTypeOK'
  <2>1. mlsPending' \in [MlsDevices -> SUBSET MlsControls]
    BY <1>1, <1>2
    DEF AppendMlsControl, PutMlsControl, UpdateMlsProjection, MissMlsControl
  <2> QED BY <1>2, <1>8, <1>11, <1>13, <1>14, <2>1 DEF MlsTypeOK
<1>16. \A e \in MlsDevices : Unstarted(mls'[e])
  BY <1>2, <1>11, <1>13 DEF GroupInv
<1>17. \A e \in MlsAutomated : Settled(mls'[e], mlsStored'[e])
  <2>1. \A e \in MlsAutomated : e \in MlsDevices BY MlsAssumption DEF MlsAssumption
  <2> QED BY <1>2, <1>12, <1>13, <2>1 DEF GroupInv
<1> QED BY <1>15, <1>16, <1>17 DEF GroupInv

LEMMA GroupShows ==
  ASSUME GroupInv
  PROVE  MlsForksAreSettledByContent
<1> SUFFICES ASSUME NEW d \in MlsAutomated, FlatOn(d), FromMembers(d), NEW c \in Rivals(d)
             PROVE  mls[d].lastRef <= c.ref
  BY DEF MlsForksAreSettledByContent, LowestHead
<1>1. PICK s : s = mls[d] OBVIOUS
<1>2. Rivals(d) = Met(s) BY <1>1 DEF Rivals, Met
<1>3. Flat(s) /\ OfMembers(s, mlsStored[d])
  BY <1>1, <1>2 DEF FlatOn, Flat, FromMembers, OfMembers
<1>4. c \in MlsControls /\ c.kind = "commit"
      /\ c.id \in s.accepted \cup UNION {r.rejected : r \in s.recoveries}
  BY <1>2 DEF Met
<1>5. d \in MlsDevices BY MlsAssumption DEF MlsAssumption
<1>6. s.accepted # {} BY <1>1, <1>4, <1>5 DEF GroupInv, Unstarted
<1>7. ~AtRoot(s)
  <2> SUFFICES ASSUME AtRoot(s) PROVE FALSE OBVIOUS
  <2>1. PICK root \in MlsControls : root.kind = "created" /\ s.accepted = {root.id}
                                    /\ s.recoveries = {}
    BY DEF AtRoot
  <2>2. c.id = root.id BY <2>1, <1>4
  <2> QED BY <2>1, <2>2, <1>4, MlsAssumption DEF MlsAssumption
<1>8. PICK h \in mlsStored[d] : HeadIs(s, h) BY <1>1, <1>3, <1>6, <1>7 DEF GroupInv, Settled
<1> QED BY <1>1, <1>2, <1>8 DEF HeadIs

\* A device that settles forks on its own ends on the lowest commit, in whatever order
\* and however often the controls have reached it, while those it had to choose from are
\* of members and no one has gone on from them (resolveForkDeterministically and the
\* seeding of the head in applyCommitPublished).
THEOREM MlsForksAreSettled == MlsSpec => []MlsForksAreSettledByContent
<1>1. MlsInit => GroupInv BY GroupInitInv
<1>2. GroupInv /\ [MlsNext]_mlsVars => GroupInv'
  <2> SUFFICES ASSUME GroupInv, [MlsNext]_mlsVars PROVE GroupInv' OBVIOUS
  <2>1. CASE MlsNext BY <2>1, GroupStep DEF MlsNext
  <2>2. CASE UNCHANGED mlsVars
    BY <2>2 DEF mlsVars, GroupInv, MlsTypeOK, Unstarted, Settled
  <2> QED BY <2>1, <2>2
<1>3. GroupInv => MlsForksAreSettledByContent BY GroupShows
<1> QED BY <1>1, <1>2, <1>3, PTL DEF MlsSpec
-----------------------------------------------------------------------------
(***************************************************************************)
(* MlsEpochNeverFallsBack of MlsGroup.                                     *)
(***************************************************************************)

Kept(S) == S \ MlsMalformed

NoMembers(s) == \A i \in MlsIdentities : s.members[i].status = "none"

\* What is queued is a commit that has come.
QueuedCommit(k, S) == \E c \in Kept(S) : c.kind = "commit" /\ k = CandidateOf(c)

\* A projection is at its last control h in the epoch of h, or in the next if h was taken
\* again for the head of a fork; of the commits that it has taken h is of the latest epoch
\* where the device settles forks on its own.
AtControl(d, s, S, h) ==
  /\ h.id = s.last /\ s.epoch \in {h.epoch, h.epoch + 1}
  /\ d \in MlsAutomated => \A c \in Kept(S) : c.id \in s.accepted => c.epoch <= h.epoch

\* Without members nothing counts; the seeded head has been issued by a member.
InStep(d, s, S) ==
  /\ s.last \in s.accepted \cup {None}
  /\ \A i \in s.accepted : \E c \in Kept(S) : c.id = i
  /\ (NoMembers(s) /\ s.epoch = 0) \/ \E h \in Kept(S) : AtControl(d, s, S, h)
  /\ d \in MlsAutomated =>
       /\ \A k \in s.candidates : QueuedCommit(k, S)
       /\ s.lastRef # None => IsMemberDevice(s, s.lastIssuer)

LEMMA KeptTyped ==
  ASSUME NEW S \in SUBSET MlsControls, NEW c \in Kept(S)
  PROVE  /\ c \in MlsControls /\ c \notin MlsMalformed /\ c.id \in Nat /\ c.id # None
         /\ c.epoch \in Nat /\ c.prev \in Nat /\ c.kind \in MlsKinds
BY ControlTyped DEF Kept

\* What an accepted control leaves as it is.
LEMMA AppliedSays ==
  ASSUME NEW d \in MlsDevices, NEW s \in GroupState, NEW c \in MlsControls
  PROVE  LET a == Applied(d, s, c) IN
         /\ a.accepted = s.accepted
         /\ c.kind = "created" => a.epoch = 0
         /\ c.kind \in {"commit", "advanced"} => a.epoch = c.epoch
         /\ c.kind \notin {"created", "commit", "advanced"} => a.epoch = s.epoch
         /\ c.kind \notin {"detected", "recovery"} => a.candidates = s.candidates
         /\ c.kind \notin {"commit", "recovery"} =>
              a.lastRef = s.lastRef /\ a.lastIssuer = s.lastIssuer
         /\ c.kind = "commit" => a.lastIssuer = c.issuer
         /\ c.kind \notin {"created", "added", "removed"} => a.members = s.members
         /\ c.kind = "added" =>
              \A i : IsMemberDevice(s, i) => IsMemberDevice(a, i)
<1>c. c.kind \in MlsKinds /\ c.who \in MlsIdentities BY ControlTyped
<1>1. CASE c.kind = "created" BY <1>1 DEF Applied, Created, GroupState
<1>2. CASE c.kind = "added"
  <2>1. PICK a : a = Applied(d, s, c) OBVIOUS
  <2>2. a = Added(d, s, c) BY <2>1, <1>2 DEF Applied
  <2>3. a.members = [s.members EXCEPT ![c.who] =
                       [status |-> "active", devices |-> @.devices \cup c.device]]
        /\ a.accepted = s.accepted /\ a.epoch = s.epoch /\ a.candidates = s.candidates
        /\ a.lastRef = s.lastRef /\ a.lastIssuer = s.lastIssuer
    BY <2>2 DEF Added, GroupState
  <2>4. ASSUME NEW i, IsMemberDevice(s, i) PROVE IsMemberDevice(a, i)
    <3>1. PICK j \in MlsIdentities :
            s.members[j].status = "active" /\ i \in s.members[j].devices
      BY <2>4 DEF IsMemberDevice
    <3>2. s.members \in [MlsIdentities -> Member] BY DEF GroupState
    <3>3. a.members[j].status = "active" /\ i \in a.members[j].devices
      BY <3>1, <3>2, <2>3, <1>c
    <3> QED BY <3>3 DEF IsMemberDevice
  <2> QED BY <2>1, <2>3, <2>4, <1>2
<1>3. CASE c.kind = "removed" BY <1>3 DEF Applied, Removed, GroupState
<1>4. CASE c.kind = "detected" BY <1>4 DEF Applied, Detected, GroupState
<1>5. CASE c.kind = "recovery" BY <1>5 DEF Applied, Recovered, GroupState
<1>6. CASE c.kind \in {"advanced", "stale", "commit"} BY <1>6 DEF Applied, GroupState
<1>7. CASE c.kind \in {"proposed", "updated", "welcome"} BY <1>7 DEF Applied, GroupState
<1> QED BY <1>c, <1>1, <1>2, <1>3, <1>4, <1>5, <1>6, <1>7 DEF MlsKinds

\* What is taken after the last control keeps a projection in step, and in its epoch or a
\* later one.
LEMMA AcceptanceInStep ==
  ASSUME NEW d \in MlsDevices, NEW s \in GroupState, NEW S \in SUBSET MlsControls,
         NEW c \in S, InStep(d, s, S), Unstarted(s), Counted(S),
         d \in MlsAutomated => Undisturbed(S),
         ~Refused(s, c), c.kind = "commit" => c.prev = s.last
  PROVE  LET t == Accepted(d, s, c) IN InStep(d, t, S) /\ t.epoch >= s.epoch
<1>c. c \in Kept(S) BY DEF Refused, Kept
<1>1. /\ c \in MlsControls /\ c \notin MlsMalformed /\ c.id \in Nat /\ c.id # None
      /\ c.epoch \in Nat /\ c.prev \in Nat /\ c.kind \in MlsKinds
  BY <1>c, KeptTyped
<1>2. PICK a : a = Applied(d, s, c) OBVIOUS
<1>3. a \in GroupState BY <1>1, <1>2, AppliedTyped
<1>4. PICK t : t = Accepted(d, s, c) OBVIOUS
<1>5. /\ t.accepted = a.accepted \cup {c.id} /\ t.last = c.id /\ t.epoch = a.epoch
      /\ t.members = a.members /\ t.candidates = a.candidates
      /\ t.lastRef = a.lastRef /\ t.lastIssuer = a.lastIssuer
  BY <1>2, <1>3, <1>4 DEF Accepted, GroupState
<1>6. /\ a.accepted = s.accepted
      /\ c.kind = "created" => a.epoch = 0
      /\ c.kind \in {"commit", "advanced"} => a.epoch = c.epoch
      /\ c.kind \notin {"created", "commit", "advanced"} => a.epoch = s.epoch
      /\ c.kind \notin {"detected", "recovery"} => a.candidates = s.candidates
      /\ c.kind \notin {"commit", "recovery"} =>
           a.lastRef = s.lastRef /\ a.lastIssuer = s.lastIssuer
      /\ c.kind = "commit" => a.lastIssuer = c.issuer
      /\ c.kind \notin {"created", "added", "removed"} => a.members = s.members
      /\ c.kind = "added" => \A i : IsMemberDevice(s, i) => IsMemberDevice(a, i)
  BY <1>1, <1>2, AppliedSays
<1>7. \A i \in t.accepted : \E e \in Kept(S) : e.id = i
  BY <1>5, <1>6, <1>c DEF InStep
<1>8. ASSUME d \in MlsAutomated
      PROVE  \A k \in t.candidates : QueuedCommit(k, S)
  <2>1. c.kind \notin {"detected", "recovery"} BY <1>8 DEF Undisturbed
  <2>2. t.candidates = s.candidates BY <2>1, <1>5, <1>6
  <2> QED BY <2>2, <1>8 DEF InStep
<1>9. ASSUME d \in MlsAutomated, t.lastRef # None
      PROVE  IsMemberDevice(t, t.lastIssuer)
  <2>1. c.kind \notin {"removed", "recovery"} BY <1>9 DEF Undisturbed
  <2>2. CASE c.kind = "commit"
    <3>1. IsMemberDevice(s, c.issuer) BY <2>2, <1>1 DEF Refused
    <3> QED BY <3>1, <2>2, <1>5, <1>6 DEF IsMemberDevice
  <2>3. CASE c.kind = "created"
    <3>1. s.lastRef = None BY <2>3 DEF Refused, Unstarted
    <3> QED BY <3>1, <2>3, <1>5, <1>6, <1>9
  <2>4. CASE c.kind \notin {"commit", "created"}
    <3>1. t.lastRef = s.lastRef /\ t.lastIssuer = s.lastIssuer BY <2>1, <2>4, <1>5, <1>6
    <3>2. IsMemberDevice(s, s.lastIssuer) BY <3>1, <1>9 DEF InStep
    <3>3. IsMemberDevice(a, s.lastIssuer)
      <4>1. CASE c.kind = "added" BY <4>1, <3>2, <1>6
      <4>2. CASE c.kind # "added"
        <5>1. a.members = s.members BY <4>2, <2>1, <2>4, <1>6
        <5> QED BY <5>1, <3>2 DEF IsMemberDevice
      <4> QED BY <4>1, <4>2
    <3> QED BY <3>1, <3>3, <1>5 DEF IsMemberDevice
  <2> QED BY <2>2, <2>3, <2>4
<1> DEFINE AtLast == (NoMembers(t) /\ t.epoch = 0) \/ \E h \in Kept(S) : AtControl(d, t, S, h)
<1>10. AtLast /\ t.epoch >= s.epoch
  <2>1. CASE c.kind = "created"
    <3>1. s.accepted = {} /\ c.epoch = 0 BY <2>1 DEF Refused
    <3>2. s.epoch = 0
      <4>1. s.last = None BY <3>1 DEF InStep
      <4>2. \A h \in Kept(S) : ~AtControl(d, s, S, h) BY <4>1, KeptTyped DEF AtControl
      <4> QED BY <4>2 DEF InStep
    <3>3. t.accepted = {c.id} /\ t.epoch = 0 BY <3>1, <2>1, <1>5, <1>6
    <3>4. ASSUME NEW e \in Kept(S), e.id \in t.accepted PROVE e.epoch <= c.epoch
      <4>1. e = c BY <3>3, <3>4, <1>1, KeptTyped, MlsAssumption DEF MlsAssumption
      <4> QED BY <4>1, <3>1
    <3>5. AtControl(d, t, S, c) BY <3>1, <3>3, <3>4, <1>5, <1>1 DEF AtControl
    <3> QED BY <3>2, <3>3, <3>5, <1>c
  <2>2. CASE c.kind # "created" /\ NoMembers(s) /\ s.epoch = 0
    <3>1. ~IsMemberDevice(s, c.issuer) BY <2>2 DEF IsMemberDevice, NoMembers
    <3>2. c.kind \notin ByMembers /\ c.kind # "commit" BY <3>1 DEF Refused
    <3>3. a.members = s.members /\ a.epoch = 0 BY <2>2, <3>2, <1>6 DEF ByMembers
    <3> QED BY <2>2, <3>3, <1>5 DEF NoMembers
  <2>3. ASSUME c.kind # "created", NEW h \in Kept(S), AtControl(d, s, S, h)
        PROVE  AtLast /\ t.epoch >= s.epoch
    <3>1. h.id # None /\ h.epoch \in Nat /\ h.id = s.last /\ s.epoch \in {h.epoch, h.epoch + 1}
      BY <2>3, KeptTyped DEF AtControl
    <3>2. c.prev = h.id BY <2>3, <3>1 DEF Refused, ValidPreviousControl
    <3>3. c.epoch = h.epoch + IF c.kind \in {"commit", "advanced"} THEN 1 ELSE 0
      BY <3>2, <1>c DEF Counted, Kept
    <3>4. t.epoch = IF c.kind \in {"commit", "advanced"} THEN c.epoch ELSE s.epoch
      BY <2>3, <1>5, <1>6
    <3>5. t.epoch >= s.epoch /\ t.epoch \in {c.epoch, c.epoch + 1} /\ c.epoch >= h.epoch
      BY <3>1, <3>3, <3>4
    <3>6. ASSUME d \in MlsAutomated, NEW e \in Kept(S), e.id \in t.accepted
          PROVE  e.epoch <= c.epoch
      <4>1. CASE e.id = c.id
        <5>1. e = c BY <4>1, <1>1, KeptTyped, MlsAssumption DEF MlsAssumption
        <5> QED BY <5>1, <1>1
      <4>2. CASE e.id \in s.accepted
        <5>1. e.epoch <= h.epoch /\ e.epoch \in Nat
          BY <2>3, <3>6, <4>2, KeptTyped DEF AtControl
        <5> QED BY <5>1, <3>1, <3>5, <1>1
      <4> QED BY <4>1, <4>2, <3>6, <1>5, <1>6
    <3>7. AtControl(d, t, S, c) BY <3>5, <3>6, <1>5 DEF AtControl
    <3> QED BY <3>5, <3>7, <1>c
  <2> QED BY <2>1, <2>2, <2>3 DEF InStep
<1> QED BY <1>4, <1>5, <1>7, <1>8, <1>9, <1>10 DEF InStep

\* The candidates of a fork: commits that have come, and the last one for the head, all of
\* the epoch of the commit.
LEMMA RivalsInStep ==
  ASSUME NEW d \in MlsAutomated, NEW s \in GroupState, NEW S \in SUBSET MlsControls,
         NEW c \in Kept(S), c.kind = "commit", c.id # s.last, InStep(d, s, S)
  PROVE  /\ \A k \in Competing(s, c) : k.epoch = c.epoch
         /\ \A k \in Competing(s, c) :
              QueuedCommit(k, S) \/ (k.id = s.last /\ IsMemberDevice(s, k.issuer))
         /\ (\A k \in Competing(s, c) : QueuedCommit(k, S)) \/ Cardinality(Competing(s, c)) >= 2
<1>1. PICK K : K = CandidateOf(c) OBVIOUS
<1>2. K.epoch = c.epoch /\ K.id = c.id /\ QueuedCommit(K, S) BY <1>1 DEF CandidateOf, QueuedCommit
<1>3. PICK N : N = {k \in s.candidates : k.epoch = c.epoch} OBVIOUS
<1>4. \A k \in N : k.epoch = c.epoch /\ QueuedCommit(k, S) BY <1>3 DEF InStep
<1>5. CASE N # {} \/ s.last = None \/ s.lastRef = None
  <2>1. Competing(s, c) = N \cup {K} BY <1>1, <1>3, <1>5 DEF Competing, HeadCandidate
  <2> QED BY <2>1, <1>2, <1>4
<1>6. CASE N = {} /\ s.last # None /\ s.lastRef # None
  <2>1. PICK H : H = [id |-> s.last, ref |-> s.lastRef, epoch |-> c.epoch,
                      issuer |-> s.lastIssuer]
    OBVIOUS
  <2>2. Competing(s, c) = {H, K} BY <1>1, <1>3, <1>6, <2>1 DEF Competing, HeadCandidate
  <2>3. H.epoch = c.epoch /\ H.id = s.last /\ IsMemberDevice(s, H.issuer) /\ H # K
    BY <2>1, <1>2, <1>6 DEF InStep
  <2>4. Cardinality({H, K}) >= 2
    <3>1. IsFiniteSet({H}) /\ Cardinality({H}) = 1 BY FS_Singleton
    <3>2. PICK A : A = {H} OBVIOUS
    <3>3. IsFiniteSet(A) /\ Cardinality(A) = 1 /\ K \notin A BY <3>1, <3>2, <2>3
    <3>4. Cardinality(A \cup {K}) = Cardinality(A) + 1 BY <3>3, FS_AddElement
    <3>5. {H, K} = A \cup {K} BY <3>2
    <3> QED BY <3>3, <3>4, <3>5
  <2> QED BY <2>2, <2>3, <2>4, <1>2
<1> QED BY <1>5, <1>6

\* A fork that is queued.
LEMMA QueueInStep ==
  ASSUME NEW d \in MlsDevices, NEW s \in GroupState, NEW S \in SUBSET MlsControls,
         InStep(d, s, S), NEW C,
         d \in MlsAutomated => \A k \in C : QueuedCommit(k, S)
  PROVE  LET t == [s EXCEPT !.candidates = C] IN InStep(d, t, S) /\ t.epoch = s.epoch
<1>1. PICK t : t = [s EXCEPT !.candidates = C] OBVIOUS
<1>2. /\ t.accepted = s.accepted /\ t.epoch = s.epoch /\ t.members = s.members
      /\ t.last = s.last /\ t.lastRef = s.lastRef /\ t.lastIssuer = s.lastIssuer
      /\ t.candidates = C
  BY <1>1 DEF GroupState
<1>3. NoMembers(s) => NoMembers(t) BY <1>2 DEF NoMembers
<1>4. \A h \in Kept(S) : AtControl(d, s, S, h) => AtControl(d, t, S, h)
  BY <1>2 DEF AtControl
<1>5. \A i : IsMemberDevice(s, i) => IsMemberDevice(t, i) BY <1>2 DEF IsMemberDevice
<1>6. InStep(d, t, S) BY <1>2, <1>3, <1>4, <1>5 DEF InStep
<1> QED BY <1>1, <1>2, <1>6

\* A fork that is settled goes on in the epoch of the commit.
LEMMA ResolvedInStep ==
  ASSUME NEW d \in MlsAutomated, NEW s \in GroupState, NEW S \in SUBSET MlsControls,
         NEW c \in Kept(S), Counted(S), InStep(d, s, S),
         c.kind = "commit", c.prev \in s.accepted, c.epoch >= s.epoch,
         NEW R \in SUBSET Candidate, \A k \in R : k.epoch = c.epoch,
         \A k \in R : QueuedCommit(k, S) \/ (k.id = s.last /\ IsMemberDevice(s, k.issuer))
  PROVE  LET t == Resolved(s, R) IN InStep(d, t, S) /\ t.epoch >= s.epoch
<1>d. d \in MlsDevices BY MlsAssumption DEF MlsAssumption
<1>c. c.epoch \in Nat /\ s.epoch \in Nat BY KeptTyped DEF GroupState
<1>1. PICK safe : safe = {k \in R : IsMemberDevice(s, k.issuer)} OBVIOUS
<1>2. CASE safe = {}
  <2>1. Resolved(s, R) = [s EXCEPT !.candidates = R] BY <1>1, <1>2 DEF Resolved
  <2>2. \A k \in R : QueuedCommit(k, S) BY <1>1, <1>2
  <2>3. PICK t : t = [s EXCEPT !.candidates = R] OBVIOUS
  <2>4. InStep(d, t, S) /\ t.epoch = s.epoch BY <2>2, <2>3, <1>d, QueueInStep
  <2> QED BY <2>1, <2>3, <2>4, <1>c
<1>3. CASE safe # {}
  <2>1. PICK x : x = Select(safe) OBVIOUS
  <2>2. x \in safe
    <3>1. safe \in SUBSET Candidate BY <1>1
    <3> QED BY <3>1, <1>3, <2>1, SelectIsLowest
  <2>3. x \in R /\ x.epoch = c.epoch /\ IsMemberDevice(s, x.issuer) BY <2>2, <1>1
  <2>4. PICK t : t = Resolved(s, R) OBVIOUS
  <2>5. /\ t.epoch = x.epoch /\ t.accepted = s.accepted \cup {x.id} /\ t.last = x.id
        /\ t.lastIssuer = x.issuer /\ t.members = s.members
        /\ t.candidates = {k \in R : k.id \notin {i.id : i \in safe}}
    BY <2>1, <2>4, <1>1, <1>3 DEF Resolved, GroupState
  <2>6. \A k \in t.candidates : QueuedCommit(k, S)
    <3> SUFFICES ASSUME NEW k \in R, k \notin safe PROVE QueuedCommit(k, S) BY <2>5
    <3> QED BY <1>1
  <2>7. IsMemberDevice(t, t.lastIssuer) BY <2>3, <2>5 DEF IsMemberDevice
  <2>8. PICK p \in Kept(S) : p.id = c.prev BY DEF InStep
  <2>9. c.epoch = p.epoch + 1 /\ p.epoch \in Nat BY <2>8, KeptTyped DEF Counted, Kept
  <2>10. ~(NoMembers(s)) BY <2>3 DEF NoMembers, IsMemberDevice
  <2>11. PICK h \in Kept(S) : AtControl(d, s, S, h) BY <2>10 DEF InStep
  <2>12. /\ h.epoch \in Nat /\ h.id = s.last /\ h.id \in s.accepted
         /\ s.epoch \in {h.epoch, h.epoch + 1}
         /\ \A e \in Kept(S) : e.id \in s.accepted => e.epoch <= h.epoch
    BY <2>11, KeptTyped DEF AtControl, InStep
  <2>13. c.epoch \in {h.epoch, h.epoch + 1}
    <3>1. p.epoch <= h.epoch BY <2>8, <2>12
    <3> QED BY <3>1, <2>9, <2>12, <1>c
  <2>14. \E e \in Kept(S) : AtControl(d, t, S, e)
    <3>1. CASE x.id = s.last
      <4>1. t.accepted = s.accepted /\ t.last = h.id /\ t.epoch = c.epoch
        BY <3>1, <2>3, <2>5, <2>12
      <4>2. AtControl(d, t, S, h) BY <4>1, <2>12, <2>13 DEF AtControl
      <4> QED BY <4>2
    <3>2. CASE x.id # s.last
      <4>1. QueuedCommit(x, S) BY <3>2, <2>3
      <4>2. PICK e \in Kept(S) : x = CandidateOf(e) BY <4>1 DEF QueuedCommit
      <4>3. x.id = e.id /\ e.epoch = c.epoch BY <4>2, <2>3 DEF CandidateOf
      <4>4. ASSUME NEW f \in Kept(S), f.id \in t.accepted PROVE f.epoch <= e.epoch
        <5>1. CASE f.id = e.id
          <6>1. f = e BY <5>1, KeptTyped, MlsAssumption DEF MlsAssumption
          <6> QED BY <6>1, <4>3, <1>c
        <5>2. CASE f.id \in s.accepted
          <6>1. f.epoch <= h.epoch /\ f.epoch \in Nat BY <5>2, <2>12, KeptTyped
          <6> QED BY <6>1, <2>12, <2>13, <4>3
        <5> QED BY <5>1, <5>2, <4>3, <4>4, <2>5
      <4>5. AtControl(d, t, S, e)
        BY <4>3, <4>4, <2>3, <2>5, <1>c DEF AtControl
      <4> QED BY <4>5
    <3> QED BY <3>1, <3>2
  <2>15. \A i \in t.accepted : \E e \in Kept(S) : e.id = i
    <3>1. PICK e \in Kept(S) : e.id = t.last BY <2>14 DEF AtControl
    <3> QED BY <3>1, <2>5 DEF InStep
  <2>16. t.last \in t.accepted BY <2>5
  <2>17. InStep(d, t, S) BY <2>6, <2>7, <2>14, <2>15, <2>16 DEF InStep
  <2> QED BY <2>3, <2>4, <2>5, <2>17, <1>c
<1> QED BY <1>2, <1>3

LEMMA ForkInStep ==
  ASSUME NEW d \in MlsDevices, NEW s \in GroupState, NEW S \in SUBSET MlsControls,
         NEW c \in S, InStep(d, s, S), Unstarted(s), Counted(S),
         ~Refused(s, c), c.kind = "commit", c.id \notin s.accepted
  PROVE  LET t == Forked(d, s, c) IN InStep(d, t, S) /\ t.epoch >= s.epoch
<1>c. c \in Kept(S) BY DEF Refused, Kept
<1>1. /\ c \in MlsControls /\ c \notin MlsMalformed /\ c.id \in Nat /\ c.id # None
      /\ c.epoch \in Nat /\ c.prev \in Nat /\ c.kind \in MlsKinds
  BY <1>c, KeptTyped
<1>2. c.prev \in s.accepted BY DEF Refused
<1>3. s.epoch \in Nat BY DEF GroupState
<1>4. ASSUME NEW C, d \in MlsAutomated => \A k \in C : QueuedCommit(k, S)
      PROVE  LET t == [s EXCEPT !.candidates = s.candidates \cup C]
             IN  InStep(d, t, S) /\ t.epoch >= s.epoch
  <2>1. PICK D : D = s.candidates \cup C OBVIOUS
  <2>2. d \in MlsAutomated => \A k \in D : QueuedCommit(k, S) BY <1>4, <2>1 DEF InStep
  <2>3. PICK t : t = [s EXCEPT !.candidates = D] OBVIOUS
  <2>4. InStep(d, t, S) /\ t.epoch = s.epoch BY <2>2, <2>3, QueueInStep
  <2> QED BY <2>1, <2>3, <2>4, <1>3
<1>5. CASE Stale(s, c)
  <2>1. Forked(d, s, c) = [s EXCEPT !.candidates = s.candidates \cup {CandidateOf(c)}]
    BY <1>5 DEF Forked
  <2>2. \A k \in {CandidateOf(c)} : QueuedCommit(k, S) BY <1>c DEF QueuedCommit
  <2> QED BY <2>1, <2>2, <1>4
<1>6. CASE ~Stale(s, c)
  <2>1. PICK R : R = Competing(s, c) OBVIOUS
  <2>2. R \in SUBSET Candidate BY <2>1, <1>1, RivalsTyped
  <2>3. CASE d \in MlsAutomated /\ Cardinality(R) >= 2
    <3>1. Forked(d, s, c) = Resolved(s, R) BY <2>1, <2>3, <1>6 DEF Forked
    <3>2. c.epoch >= s.epoch BY <1>1, <1>3, <1>6 DEF Stale
    <3>3. c.id # s.last BY <1>1 DEF InStep
    <3>4. /\ \A k \in R : k.epoch = c.epoch
          /\ \A k \in R : QueuedCommit(k, S) \/ (k.id = s.last /\ IsMemberDevice(s, k.issuer))
      BY <2>1, <2>3, <3>3, <1>c, RivalsInStep
    <3>5. LET t == Resolved(s, R) IN InStep(d, t, S) /\ t.epoch >= s.epoch
      BY <2>2, <2>3, <3>2, <3>4, <1>c, <1>2, ResolvedInStep
    <3> QED BY <3>1, <3>5
  <2>4. CASE ~(d \in MlsAutomated /\ Cardinality(R) >= 2)
    <3>1. Forked(d, s, c) = [s EXCEPT !.candidates = s.candidates \cup R]
      BY <2>1, <2>4, <1>6 DEF Forked
    <3>2. d \in MlsAutomated => \A k \in R : QueuedCommit(k, S)
      <4>1. c.id # s.last BY <1>1 DEF InStep
      <4> QED BY <2>1, <2>4, <4>1, <1>c, RivalsInStep
    <3> QED BY <3>1, <3>2, <1>4
  <2> QED BY <2>3, <2>4
<1> QED BY <1>5, <1>6

\* A control that comes keeps a projection in step, and in its epoch or a later one.
LEMMA ProjectionInStep ==
  ASSUME NEW d \in MlsDevices, NEW s \in GroupState, NEW S \in SUBSET MlsControls,
         NEW c \in S, InStep(d, s, S), Unstarted(s), Counted(S),
         d \in MlsAutomated => Undisturbed(S)
  PROVE  LET t == Projected(d, s, c) IN InStep(d, t, S) /\ t.epoch >= s.epoch
<1>1. s.epoch \in Nat BY DEF GroupState
<1>2. CASE c.id \in s.accepted \cup s.rejected BY <1>1, <1>2 DEF Projected
<1>3. CASE c.id \notin s.accepted \cup s.rejected /\ Refused(s, c)
  <2>1. PICK t : t = [s EXCEPT !.rejected = @ \cup {c.id}] OBVIOUS
  <2>2. /\ t.accepted = s.accepted /\ t.epoch = s.epoch /\ t.members = s.members
        /\ t.last = s.last /\ t.lastRef = s.lastRef /\ t.lastIssuer = s.lastIssuer
        /\ t.candidates = s.candidates
    BY <2>1 DEF GroupState
  <2>3. NoMembers(s) => NoMembers(t) BY <2>2 DEF NoMembers
  <2>4. \A h \in Kept(S) : AtControl(d, s, S, h) => AtControl(d, t, S, h)
    BY <2>2 DEF AtControl
  <2>5. \A i : IsMemberDevice(s, i) => IsMemberDevice(t, i) BY <2>2 DEF IsMemberDevice
  <2>6. InStep(d, t, S) BY <2>2, <2>3, <2>4, <2>5 DEF InStep
  <2>7. Projected(d, s, c) = t BY <2>1, <1>3 DEF Projected
  <2> QED BY <2>2, <2>6, <2>7, <1>1
<1>4. CASE /\ c.id \notin s.accepted \cup s.rejected /\ ~Refused(s, c)
           /\ c.kind = "commit" /\ c.prev # s.last
  <2>1. Projected(d, s, c) = Forked(d, s, c) BY <1>4 DEF Projected
  <2>2. LET t == Forked(d, s, c) IN InStep(d, t, S) /\ t.epoch >= s.epoch
    BY <1>4, ForkInStep
  <2> QED BY <2>1, <2>2
<1>5. CASE /\ c.id \notin s.accepted \cup s.rejected /\ ~Refused(s, c)
           /\ ~(c.kind = "commit" /\ c.prev # s.last)
  <2>1. Projected(d, s, c) = Accepted(d, s, c) BY <1>5 DEF Projected
  <2>2. LET t == Accepted(d, s, c) IN InStep(d, t, S) /\ t.epoch >= s.epoch
    BY <1>5, AcceptanceInStep
  <2> QED BY <2>1, <2>2
<1> QED BY <1>2, <1>3, <1>4, <1>5

LEMMA InStepGrows ==
  ASSUME NEW d \in MlsDevices, NEW s \in GroupState, NEW S \in SUBSET MlsControls,
         NEW R \in SUBSET MlsControls, S \subseteq R, InStep(d, s, S),
         d \in MlsAutomated => \A c \in Kept(R) : c.id \in s.accepted => c \in S
  PROVE  InStep(d, s, R)
<1>1. Kept(S) \subseteq Kept(R) BY DEF Kept
<1>2. \A h \in Kept(S) : AtControl(d, s, S, h) => AtControl(d, s, R, h)
  BY DEF AtControl, Kept
<1>3. \A k : QueuedCommit(k, S) => QueuedCommit(k, R) BY <1>1 DEF QueuedCommit
<1>4. (NoMembers(s) /\ s.epoch = 0) \/ \E h \in Kept(R) : AtControl(d, s, R, h)
  BY <1>1, <1>2 DEF InStep
<1>5. \A i \in s.accepted : \E c \in Kept(R) : c.id = i BY <1>1 DEF InStep
<1> QED BY <1>3, <1>4, <1>5 DEF InStep

-----------------------------------------------------------------------------
\* Whose controls are such that the epochs say how far it is.
Orderly(d) == Counted(mlsStored[d]) /\ (d \in MlsAutomated => Undisturbed(mlsStored[d]))

EpochInv ==
  /\ GroupInv
  /\ \A d \in MlsDevices : Orderly(d) => InStep(d, mls[d], mlsStored[d])

NoEpochFalls == \A d \in MlsDevices : Orderly(d)' => mls'[d].epoch >= mls[d].epoch

LEMMA EpochInitInv == MlsInit => EpochInv
<1> SUFFICES ASSUME MlsInit PROVE EpochInv OBVIOUS
<1>1. \A d \in MlsDevices : mls[d] = EmptyGroup BY DEF MlsInit
<1>2. \A d, S : InStep(d, EmptyGroup, S)
  BY DEF InStep, EmptyGroup, NoMembers
<1> QED BY <1>1, <1>2, GroupInitInv DEF EpochInv

LEMMA EpochStep ==
  ASSUME EpochInv, NEW d \in MlsDevices, MlsDevice(d)
  PROVE  EpochInv' /\ NoEpochFalls
<1>1. PICK c \in MlsControls :
        \/ AppendMlsControl(d, c)
        \/ PutMlsControl(d, c)
        \/ UpdateMlsProjection(d, c)
        \/ MissMlsControl(d, c)
  BY DEF MlsDevice
<1>2. mls \in [MlsDevices -> GroupState] /\ mlsStored \in [MlsDevices -> SUBSET MlsControls]
      /\ mlsPending \in [MlsDevices -> SUBSET MlsControls]
      /\ \A e \in MlsDevices : mlsPending[e] \subseteq mlsStored[e]
  BY DEF EpochInv, GroupInv, MlsTypeOK
<1>3. PICK s : s = mls[d] OBVIOUS
<1>4. PICK S : S = mlsStored[d] OBVIOUS
<1>5. PICK t : t = mls'[d] OBVIOUS
<1>6. PICK R : R = mlsStored'[d] OBVIOUS
<1>7. s \in GroupState /\ S \in SUBSET MlsControls /\ Unstarted(s)
  BY <1>2, <1>3, <1>4 DEF EpochInv, GroupInv
<1>8. S \subseteq R /\ R \in SUBSET MlsControls
  BY <1>1, <1>2, <1>4, <1>6
  DEF AppendMlsControl, PutMlsControl, UpdateMlsProjection, MissMlsControl
<1>9. t = s \/ (c \in R /\ t = Projected(d, s, c))
  BY <1>1, <1>2, <1>3, <1>5, <1>6
  DEF AppendMlsControl, PutMlsControl, UpdateMlsProjection, MissMlsControl
<1>10. GroupInv' BY <1>1, GroupStep DEF EpochInv
<1>11. ASSUME Counted(R), d \in MlsAutomated => Undisturbed(R)
       PROVE  InStep(d, t, R) /\ t.epoch >= s.epoch
  <2>1. Counted(S) /\ (d \in MlsAutomated => Undisturbed(S))
    BY <1>8, <1>11 DEF Counted, Undisturbed
  <2>2. InStep(d, s, S) BY <2>1, <1>3, <1>4 DEF EpochInv, Orderly
  <2>3. \A e \in Kept(R) : e.id \in s.accepted => e \in S
    <3> SUFFICES ASSUME NEW e \in Kept(R), e.id \in s.accepted PROVE e \in S OBVIOUS
    <3>1. PICK f \in Kept(S) : f.id = e.id BY <2>2 DEF InStep
    <3>2. f = e BY <3>1, <1>7, <1>8, MlsAssumption DEF Kept, MlsAssumption
    <3> QED BY <3>1, <3>2 DEF Kept
  <2>4. InStep(d, s, R) BY <2>2, <2>3, <1>7, <1>8, InStepGrows
  <2>5. CASE t = s BY <2>4, <2>5, <1>7 DEF GroupState
  <2>6. CASE c \in R /\ t = Projected(d, s, c)
    <3>1. LET u == Projected(d, s, c) IN InStep(d, u, R) /\ u.epoch >= s.epoch
      BY <2>4, <2>6, <1>7, <1>8, <1>11, ProjectionInStep
    <3> QED BY <2>6, <3>1
  <2> QED BY <2>5, <2>6, <1>9
<1>12. \A e \in MlsDevices : e # d => mls'[e] = mls[e] /\ mlsStored'[e] = mlsStored[e]
  BY <1>1, <1>2
  DEF AppendMlsControl, PutMlsControl, UpdateMlsProjection, MissMlsControl
<1>13. \A e \in MlsDevices : mls[e].epoch \in Nat BY <1>2 DEF GroupState
<1>14. ASSUME NEW e \in MlsDevices, Orderly(e)'
       PROVE  InStep(e, mls'[e], mlsStored'[e]) /\ mls'[e].epoch >= mls[e].epoch
  <2>1. CASE e = d BY <2>1, <1>14, <1>11, <1>3, <1>5, <1>6 DEF Orderly
  <2>2. CASE e # d
    <3>1. Orderly(e) BY <2>2, <1>14, <1>12 DEF Orderly
    <3>2. InStep(e, mls[e], mlsStored[e]) BY <3>1 DEF EpochInv
    <3> QED BY <2>2, <3>2, <1>12, <1>13
  <2> QED BY <2>1, <2>2
<1>15. NoEpochFalls BY <1>14 DEF NoEpochFalls
<1> QED BY <1>10, <1>14, <1>15 DEF EpochInv

LEMMA EpochNext ==
  ASSUME EpochInv, MlsNext \/ UNCHANGED mlsVars
  PROVE  EpochInv' /\ NoEpochFalls
<1>1. CASE MlsNext BY <1>1, EpochStep DEF MlsNext
<1>2. CASE UNCHANGED mlsVars
  <2>1. mls' = mls /\ mlsStored' = mlsStored /\ mlsPending' = mlsPending
    BY <1>2 DEF mlsVars
  <2>2. EpochInv'
    BY <2>1 DEF EpochInv, GroupInv, MlsTypeOK, Orderly
  <2>3. \A d \in MlsDevices : mls[d].epoch \in Nat
    BY DEF EpochInv, GroupInv, MlsTypeOK, GroupState
  <2> QED BY <2>1, <2>2, <2>3 DEF NoEpochFalls
<1> QED BY <1>1, <1>2

\* No device falls back to an earlier epoch, for any log of controls whose issuers count,
\* in whatever order they come and however its forks are settled (on a device that settles
\* them on its own: while no one is removed and no one else settles).
THEOREM MlsEpochsGoOn == MlsSpec => MlsEpochNeverFallsBack
<1>1. EpochInv /\ [MlsNext]_mlsVars => EpochInv' BY EpochNext
<1>2. EpochInv /\ [MlsNext]_mlsVars =>
        [\A d \in MlsDevices :
           Counted(mlsStored'[d]) /\ (d \in MlsAutomated => Undisturbed(mlsStored'[d]))
             => mls'[d].epoch >= mls[d].epoch]_mlsVars
  BY EpochNext DEF NoEpochFalls, Orderly
<1> QED BY <1>1, <1>2, EpochInitInv, PTL DEF MlsSpec, MlsEpochNeverFallsBack

\* NothingGoesBack for any mailbox, group and tabs: an envelope in its life cycle, a group
\* to an earlier epoch, a device from revoked to active.
THEOREM DeviceNothingGoesBack == DeviceSpec => NothingGoesBack
<1>1. DeviceInit => MailboxInv /\ EpochInv /\ DiInv
  BY MailboxInitInv, EpochInitInv, DiInitInv DEF DeviceInit
<1>2. ASSUME MailboxInv, EpochInv, DiInv, [DeviceNext]_deviceVars
      PROVE  /\ MailboxInv' /\ EpochInv' /\ DiInv'
             /\ [Next]_vars /\ [MlsNext]_mlsVars /\ [DiNext]_diVars
  <2>1. [Next]_vars /\ [MlsNext]_mlsVars /\ [DiNext]_diVars
    BY <1>2 DEF DeviceNext, deviceVars, Idles
  <2> QED BY <1>2, <2>1, MailboxNextInv, EpochNext, DiNextInv
<1>3. MailboxInv /\ EpochInv /\ DiInv /\ [DeviceNext]_deviceVars =>
        [\A t \in Targets :
           InOrder(t) /\ (Rank(rows'[t].inbox) < Rank(rows[t].inbox)
                           \/ Rank(rows'[t].outbox) < Rank(rows[t].outbox))
           => \E r \in Rebuilders : RebuildWrite(r) /\ taken[r] # log]_vars
  BY <1>2, StepRegresses
<1>4. MailboxInv /\ EpochInv /\ DiInv /\ [DeviceNext]_deviceVars =>
        [\A d \in MlsDevices :
           Counted(mlsStored'[d]) /\ (d \in MlsAutomated => Undisturbed(mlsStored'[d]))
             => mls'[d].epoch >= mls[d].epoch]_mlsVars
  BY <1>2, EpochNext DEF NoEpochFalls, Orderly
<1>5. MailboxInv /\ EpochInv /\ DiInv /\ [DeviceNext]_deviceVars =>
        [\A d \in {Self, Peer} :
           /\ diDevice[d].status = "revoked" /\ diDevice'[d].status = "active" =>
                AuthorizedElsewhere(d)
           /\ \A t \in DiTabs : \A view \in diView[t] :
                RotatePeer(t) => diDevice'[Peer].key = view.device[Peer].key + 1]_diVars
  BY <1>2, StepUndoesNothing
<1> QED BY <1>1, <1>2, <1>3, <1>4, <1>5, PTL
        DEF DeviceSpec, NothingGoesBack, OnlyOldRebuildsRegress, MlsEpochNeverFallsBack,
            NothingIsUndone
=============================================================================
