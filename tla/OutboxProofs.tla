---------------------------- MODULE OutboxProofs ----------------------------
(***************************************************************************)
(* Proofs about Outbox for any keys, processors, batch size, budget,       *)
(* timeout, delays and clock bound.                                        *)
(*                                                                         *)
(* The inductive invariant IInv says what a claim means while it lasts.    *)
(* ExclusiveClaim ties each working loop to the row it claimed.  Its other *)
(* conjuncts say how much of the budget a row in each status can have      *)
(* spent, and what a loop that is about to write an outcome already knows. *)
(***************************************************************************)
EXTENDS Outbox, SequenceTheorems, TLAPS

\* A loop about to write "confirmed" knows that the bridge accepted.
ConfirmationsAreTrue ==
  /\ ConfirmedWasAccepted
  /\ \A p \in Procs : pc[p] = "confirm" => cur[p] \in accepted

\* A row that waits has been sent at most retryCount times; a claimed one at
\* most once more, and no more at all before its request is made.
BudgetAccounts ==
  \A k \in Keys \ takenOver :
    /\ sent[k] <= MaxAttempts
    /\ outbox[k].status = "absent" => sent[k] = 0
    /\ outbox[k].status = "pending" => sent[k] <= outbox[k].retryCount
    /\ outbox[k].status = "syncing" => sent[k] <= outbox[k].retryCount + 1
    /\ \A p \in Procs : Holds(p, k) =>
         /\ pc[p] = "loading" => sent[k] <= attempt[p] /\ attempt[p] < MaxAttempts
         /\ pc[p] = "fail" => k \in refused \/ attempt[p] + 1 >= MaxAttempts

IInv ==
  /\ TypeOK
  /\ ConfirmationsAreTrue
  /\ ExclusiveClaim
  /\ BudgetAccounts
  /\ FailedForAReason

-----------------------------------------------------------------------------

\* The loop's variables stay in their types when it moves on.
LEMMA NextEntryType ==
  ASSUME TypeOK, NEW p \in Procs, NEW rest \in Seq(Keys), NextEntry(p, rest)
  PROVE  /\ pc' \in [Procs -> PC]
         /\ due' \in [Procs -> Seq(Keys)]
         /\ cur' \in [Procs -> Keys \cup {NoKey}]
         /\ attempt' \in [Procs -> Nat]
         /\ batchNow' \in [Procs -> Nat]
         /\ \A q \in Procs : pc'[q] \in HoldingPC => cur'[q] \in Keys
         /\ \A q \in Procs : pc'[q] = "claiming" => due'[q] # <<>>
BY DEF NextEntry, Resume, TypeOK, PC, HoldingPC

\* The candidates listed are a sequence of keys.
LEMMA ListedIsSequence ==
  ASSUME NEW n \in Nat, NEW S \in SUBSET Keys, NEW s \in [1..n -> S]
  PROVE  s \in Seq(Keys)
<1>1. s \in [1..n -> Keys]
  OBVIOUS
<1>. QED  BY <1>1, SeqDef

\* Every step keeps every variable in its type.
LEMMA TypeStep == TypeOK /\ [Next]_vars => TypeOK'
<1>. SUFFICES ASSUME TypeOK, [Next]_vars
              PROVE  TypeOK'
  OBVIOUS
<1>. USE OutboxAssumption DEF OutboxAssumption
<1>1. ASSUME NEW k \in Keys, PutSignedEvent(k)
      PROVE  TypeOK'
  BY <1>1 DEF PutSignedEvent, TypeOK, history, locals
<1>2. ASSUME NEW k \in Keys, EnqueueOutbox(k)
      PROVE  TypeOK'
  BY <1>2 DEF EnqueueOutbox, TypeOK, history, locals, MutationOutboxEntry, OutboxStatus
<1>3. ASSUME NEW k \in Keys, BridgeAccepts(k)
      PROVE  TypeOK'
  BY <1>3 DEF BridgeAccepts, TypeOK, history, locals, store
<1>4. ASSUME NEW p \in Procs, RecoverStaleOutboxClaims(p)
      PROVE  TypeOK'
  <2>1. PICK R \in SUBSET StaleClaims(now) :
          /\ outbox' = [k \in Keys |-> IF k \in R THEN Recovered(outbox[k], now) ELSE outbox[k]]
          /\ takenOver' = takenOver \cup {k \in R : \E q \in Procs : Holds(q, k)}
    BY <1>4 DEF RecoverStaleOutboxClaims
  <2>2. \A k \in Keys : Recovered(outbox[k], now) \in MutationOutboxEntry
    BY DEF TypeOK, Recovered, MutationOutboxEntry, OutboxStatus
  <2>3. outbox' \in [Keys -> MutationOutboxEntry]
    BY <2>1, <2>2 DEF TypeOK
  <2>4. takenOver' \subseteq Keys
    BY <2>1 DEF TypeOK, StaleClaims
  <2>. QED
    BY <1>4, <2>3, <2>4 DEF RecoverStaleOutboxClaims, TypeOK, PC, HoldingPC
<1>5. ASSUME NEW p \in Procs, ListDueOutbox(p)
      PROVE  TypeOK'
  <2>1. PICK n \in 0..BatchSize : \E s \in [1..n -> DueKeys(batchNow[p])] : NextEntry(p, s)
    BY <1>5 DEF ListDueOutbox
  <2>2. PICK s \in [1..n -> DueKeys(batchNow[p])] : NextEntry(p, s)
    BY <2>1
  <2>3. s \in Seq(Keys)
    BY <2>2, ListedIsSequence DEF DueKeys
  <2>. QED
    BY <1>5, <2>2, <2>3, NextEntryType DEF ListDueOutbox, TypeOK, store, history
<1>6. ASSUME NEW p \in Procs, ClaimOutboxEntry(p)
      PROVE  TypeOK'
  <2>. DEFINE k == Head(due[p])
  <2>1. k \in Keys /\ Tail(due[p]) \in Seq(Keys)
    BY <1>6 DEF ClaimOutboxEntry, TypeOK
  <2>2. outbox' \in [Keys -> MutationOutboxEntry]
    <3>. DEFINE claimed == [outbox[k] EXCEPT !.status = "syncing", !.updatedAt = batchNow[p]]
    <3>1. claimed \in MutationOutboxEntry
      <4>1. outbox[k] \in MutationOutboxEntry /\ batchNow[p] \in Nat
        BY <2>1 DEF TypeOK
      <4>. HIDE DEF k
      <4>. QED
        BY <4>1 DEF MutationOutboxEntry, OutboxStatus
    <3>2. outbox' = [outbox EXCEPT ![k] = claimed]
      BY <1>6 DEF ClaimOutboxEntry
    <3>. QED
      BY <3>1, <3>2 DEF TypeOK
  <2>3. attempt' \in [Procs -> Nat]
    BY <1>6, <2>1 DEF ClaimOutboxEntry, TypeOK, MutationOutboxEntry
  <2>. QED
    BY <1>6, <2>1, <2>2, <2>3 DEF ClaimOutboxEntry, TypeOK, history, PC, HoldingPC
<1>7. ASSUME NEW p \in Procs, SkipEntry(p)
      PROVE  TypeOK'
  <2>1. Tail(due[p]) \in Seq(Keys)
    BY <1>7 DEF SkipEntry, TypeOK
  <2>. QED
    BY <1>7, <2>1, NextEntryType DEF SkipEntry, TypeOK, store, history
<1>8. ASSUME NEW p \in Procs, GetSignedEventAndSend(p)
      PROVE  TypeOK'
  BY <1>8 DEF GetSignedEventAndSend, TypeOK, store, locals, PC, HoldingPC
<1>9. ASSUME NEW p \in Procs, GetSignedEventMissing(p)
      PROVE  TypeOK'
  BY <1>9 DEF GetSignedEventMissing, TypeOK, store, locals, PC, HoldingPC
<1>10. ASSUME NEW p \in Procs, Answer(p)
       PROVE  TypeOK'
  BY <1>10 DEF Answer, AnswerConfirmed, AnswerConflicted, AnswerNonRetryable, AnswerRetryable,
               OutcomeOfError, TypeOK, store, history, locals, PC, HoldingPC
<1>11. ASSUME NEW p \in Procs, NEW status \in OutboxStatus, UpdateOutboxStatus(p, status)
       PROVE  TypeOK'
  <2>1. outbox' \in [Keys -> MutationOutboxEntry]
    BY ZenonT(40), <1>11 DEF UpdateOutboxStatus, TypeOK, MutationOutboxEntry
  <2>. QED
    BY <1>11, <2>1, NextEntryType DEF UpdateOutboxStatus, TypeOK, history
<1>12. ASSUME NEW p \in Procs, ScheduleOutboxRetry(p)
       PROVE  TypeOK'
  <2>1. PICK d \in RetryDelays :
          outbox' = [outbox EXCEPT ![cur[p]] =
            [status |-> "pending", retryCount |-> attempt[p] + 1,
             nextRetryAt |-> batchNow[p] + d, updatedAt |-> batchNow[p]]]
    BY <1>12 DEF ScheduleOutboxRetry
  <2>2. outbox' \in [Keys -> MutationOutboxEntry]
    <3>1. attempt[p] + 1 \in Nat /\ batchNow[p] + d \in Nat /\ batchNow[p] \in Nat
      BY DEF TypeOK
    <3>2. [status |-> "pending", retryCount |-> attempt[p] + 1,
           nextRetryAt |-> batchNow[p] + d, updatedAt |-> batchNow[p]] \in MutationOutboxEntry
      BY <3>1 DEF MutationOutboxEntry, OutboxStatus
    <3>. QED
      BY <2>1, <3>2 DEF TypeOK
  <2>. QED
    BY <1>12, <2>2, NextEntryType DEF ScheduleOutboxRetry, TypeOK, history
<1>13. ASSUME NEW p \in Procs, Crash(p)
       PROVE  TypeOK'
  <2>1. <<>> \in Seq(Keys)
    OBVIOUS
  <2>. QED
    BY <1>13, <2>1, NextEntryType DEF Crash, TypeOK, store, history
<1>14. CASE Tick
  BY <1>14 DEF Tick, TypeOK, store, history, locals
<1>15. CASE UNCHANGED vars
  BY <1>15 DEF vars, TypeOK
<1>. QED
  BY <1>1, <1>2, <1>3, <1>4, <1>5, <1>6, <1>7, <1>8, <1>9, <1>10, <1>11, <1>12, <1>13, <1>14, <1>15
  DEF Next, ProcStep, LoopStep, MarkOutboxConfirmed, MarkOutboxConflicted, MarkOutboxFailed,
      OutboxStatus

LEMMA InitType == Init => TypeOK
BY DEF Init, TypeOK, Absent, MutationOutboxEntry, PC, HoldingPC

\* Type correctness of the table and of every loop.
THEOREM OutboxTypeCorrect == Spec => []TypeOK
BY InitType, TypeStep, PTL DEF Spec
-----------------------------------------------------------------------------

\* Every step keeps the inductive invariant.
LEMMA InvStep == IInv /\ [Next]_vars => IInv'
<1>. SUFFICES ASSUME IInv, TypeOK', [Next]_vars
              PROVE  (ConfirmationsAreTrue /\ ExclusiveClaim /\ BudgetAccounts /\ FailedForAReason)'
  BY TypeStep DEF IInv
<1>. USE OutboxAssumption DEF OutboxAssumption, IInv
<1>1. ASSUME NEW k \in Keys, EnqueueOutbox(k)
      PROVE  (ConfirmationsAreTrue /\ ExclusiveClaim /\ BudgetAccounts /\ FailedForAReason)'
  <2>1. ConfirmationsAreTrue'
    BY <1>1 DEF EnqueueOutbox, locals, history, MutationOutboxEntry, TypeOK, ConfirmationsAreTrue,
        ConfirmedWasAccepted
  <2>2. ExclusiveClaim'
    BY <1>1 DEF EnqueueOutbox, locals, history, MutationOutboxEntry, TypeOK, ExclusiveClaim, Holds
  <2>3. BudgetAccounts'
    BY <1>1 DEF EnqueueOutbox, locals, history, MutationOutboxEntry, TypeOK, ExclusiveClaim,
        BudgetAccounts, Holds
  <2>4. FailedForAReason'
    BY <1>1 DEF EnqueueOutbox, locals, history, MutationOutboxEntry, TypeOK, ExclusiveClaim,
        BudgetAccounts, FailedForAReason, Holds
  <2>. QED  BY <2>1, <2>2, <2>3, <2>4
<1>2. ASSUME NEW k \in Keys, BridgeAccepts(k)
      PROVE  (ConfirmationsAreTrue /\ ExclusiveClaim /\ BudgetAccounts /\ FailedForAReason)'
  <2>1. ConfirmationsAreTrue'
    BY <1>2 DEF BridgeAccepts, store, locals, history, TypeOK, ConfirmationsAreTrue,
        ConfirmedWasAccepted
  <2>2. ExclusiveClaim'
    BY <1>2 DEF BridgeAccepts, store, locals, history, TypeOK, ExclusiveClaim, Holds
  <2>3. BudgetAccounts'
    BY <1>2 DEF BridgeAccepts, store, locals, history, TypeOK, ExclusiveClaim, BudgetAccounts, Holds
  <2>4. FailedForAReason'
    BY <1>2 DEF BridgeAccepts, store, locals, history, TypeOK, ExclusiveClaim, BudgetAccounts,
        FailedForAReason, Holds
  <2>. QED  BY <2>1, <2>2, <2>3, <2>4
<1>3. ASSUME NEW p \in Procs, RecoverStaleOutboxClaims(p)
      PROVE  (ConfirmationsAreTrue /\ ExclusiveClaim /\ BudgetAccounts /\ FailedForAReason)'
  <2>1. ConfirmationsAreTrue'
    BY <1>3 DEF RecoverStaleOutboxClaims, StaleClaims, Recovered, HoldingPC, TypeOK,
        ConfirmationsAreTrue, ConfirmedWasAccepted
  <2>2. ExclusiveClaim'
    BY <1>3
    DEF RecoverStaleOutboxClaims, StaleClaims, Recovered, HoldingPC, TypeOK, ExclusiveClaim,
        Holds
  <2>3. BudgetAccounts'
    BY <1>3
    DEF RecoverStaleOutboxClaims, StaleClaims, Recovered, HoldingPC, TypeOK, ExclusiveClaim,
        BudgetAccounts, Holds
  <2>4. FailedForAReason'
    BY <1>3
    DEF RecoverStaleOutboxClaims, StaleClaims, Recovered, HoldingPC, TypeOK, ExclusiveClaim,
        BudgetAccounts, FailedForAReason, Holds
  <2>. QED  BY <2>1, <2>2, <2>3, <2>4
<1>4. ASSUME NEW p \in Procs, ListDueOutbox(p)
      PROVE  (ConfirmationsAreTrue /\ ExclusiveClaim /\ BudgetAccounts /\ FailedForAReason)'
  <2>1. ConfirmationsAreTrue'
    BY <1>4 DEF ListDueOutbox, NextEntry, Resume, store, history, HoldingPC, TypeOK,
        ConfirmationsAreTrue, ConfirmedWasAccepted
  <2>2. ExclusiveClaim'
    BY <1>4
    DEF ListDueOutbox, NextEntry, Resume, store, history, HoldingPC, TypeOK, ExclusiveClaim,
        Holds
  <2>3. BudgetAccounts'
    BY <1>4
    DEF ListDueOutbox, NextEntry, Resume, store, history, HoldingPC, TypeOK, ExclusiveClaim,
        BudgetAccounts, Holds
  <2>4. FailedForAReason'
    BY <1>4
    DEF ListDueOutbox, NextEntry, Resume, store, history, HoldingPC, TypeOK, ExclusiveClaim,
        BudgetAccounts, FailedForAReason, Holds
  <2>. QED  BY <2>1, <2>2, <2>3, <2>4
<1>5. ASSUME NEW p \in Procs, ClaimOutboxEntry(p)
      PROVE  (ConfirmationsAreTrue /\ ExclusiveClaim /\ BudgetAccounts /\ FailedForAReason)'
  <2>1. PICK k \in Keys : k = Head(due[p])
    BY <1>5 DEF ClaimOutboxEntry, TypeOK
  <2>2. PICK e \in MutationOutboxEntry : e = outbox[k]
    BY <2>1 DEF TypeOK
  <2>3. e.status = "pending" /\ batchNow[p] \in Nat /\ e.retryCount \in Nat
    BY <1>5, <2>1, <2>2 DEF ClaimOutboxEntry, Claimable, TypeOK, MutationOutboxEntry
  <2>4. /\ outbox' = [outbox EXCEPT ![k] = [e EXCEPT !.status = "syncing", !.updatedAt = batchNow[p]]]
        /\ pc' = [pc EXCEPT ![p] = IF e.retryCount >= MaxAttempts THEN "fail" ELSE "loading"]
        /\ cur' = [cur EXCEPT ![p] = k]
        /\ attempt' = [attempt EXCEPT ![p] = e.retryCount]
        /\ UNCHANGED <<batchNow, accepted, sent, refused, takenOver>>
    BY <1>5, <2>1, <2>2 DEF ClaimOutboxEntry, history
  <2>5. pc[p] = "claiming"
    BY <1>5 DEF ClaimOutboxEntry
  <2>6. k \notin takenOver => \A q \in Procs : ~Holds(q, k)
    BY <2>2, <2>3 DEF ExclusiveClaim
  <2>7. /\ outbox'[k].status = "syncing"
        /\ outbox'[k].retryCount = e.retryCount
        /\ outbox'[k].updatedAt = batchNow[p]
        /\ \A j \in Keys \ {k} : outbox'[j] = outbox[j]
    BY SMTT(30), <2>1, <2>2, <2>4 DEF TypeOK, MutationOutboxEntry
  <2>8. /\ Holds(p, k)' /\ pc'[p] \in {"fail", "loading"} /\ attempt'[p] = e.retryCount
        /\ pc'[p] = "fail" => e.retryCount >= MaxAttempts
        /\ pc'[p] = "loading" => ~(e.retryCount >= MaxAttempts)
    BY <2>3, <2>4 DEF TypeOK, Holds, HoldingPC
  <2>9. \A q \in Procs, j \in Keys : q # p \/ j # k =>
          (Holds(q, j)' => Holds(q, j) /\ q # p)
    BY <2>4 DEF TypeOK, Holds, HoldingPC
  <2>10. \A q \in Procs \ {p} : pc'[q] = pc[q] /\ attempt'[q] = attempt[q] /\ cur'[q] = cur[q]
    BY <2>4 DEF TypeOK
  <2>11. ConfirmationsAreTrue'
    BY <2>4, <2>7, <2>8, <2>10 DEF ConfirmationsAreTrue, ConfirmedWasAccepted
  <2>12. ExclusiveClaim'
    <3>. SUFFICES ASSUME NEW j \in Keys \ takenOver, NEW q \in Procs, Holds(q, j)'
                  PROVE  /\ outbox'[j].status = "syncing"
                         /\ outbox'[j].retryCount = attempt'[q]
                         /\ outbox'[j].updatedAt = batchNow'[q]
                         /\ \A r \in Procs \ {q} : ~Holds(r, j)'
      BY <2>4 DEF ExclusiveClaim
    <3>1. CASE j = k
      <4>1. q = p
        BY <3>1, <2>6, <2>9
      <4>2. \A r \in Procs \ {p} : ~Holds(r, k)'
        BY <3>1, <2>1, <2>6, <2>9
      <4>. QED  BY <3>1, <4>1, <4>2, <2>4, <2>7, <2>8
    <3>2. CASE j # k
      <4>1. Holds(q, j) /\ q # p
        BY <3>2, <2>9
      <4>2. \A r \in Procs \ {q} : ~Holds(r, j)'
        BY <3>2, <4>1, <2>9 DEF ExclusiveClaim
      <4>. QED  BY <3>2, <4>1, <4>2, <2>4, <2>7, <2>10 DEF ExclusiveClaim
    <3>. QED  BY <3>1, <3>2
  <2>13. BudgetAccounts'
    <3>. SUFFICES ASSUME NEW j \in Keys \ takenOver
                  PROVE  /\ sent[j] <= MaxAttempts
                         /\ outbox'[j].status = "absent" => sent[j] = 0
                         /\ outbox'[j].status = "pending" => sent[j] <= outbox'[j].retryCount
                         /\ outbox'[j].status = "syncing" => sent[j] <= outbox'[j].retryCount + 1
                         /\ \A q \in Procs : Holds(q, j)' =>
                              /\ pc'[q] = "loading" => sent[j] <= attempt'[q] /\ attempt'[q] < MaxAttempts
                              /\ pc'[q] = "fail" => j \in refused \/ attempt'[q] + 1 >= MaxAttempts
      BY <2>4 DEF BudgetAccounts
    <3>1. CASE j = k
      <4>1. sent[k] <= e.retryCount /\ sent[k] \in Nat /\ sent[k] <= MaxAttempts
        BY <3>1, <2>2, <2>3 DEF BudgetAccounts, TypeOK
      <4>2. \A q \in Procs : Holds(q, k)' => q = p
        BY <3>1, <2>1, <2>6, <2>9
      <4>3. /\ pc'[p] = "loading" => sent[k] <= attempt'[p] /\ attempt'[p] < MaxAttempts
            /\ pc'[p] = "fail" => attempt'[p] + 1 >= MaxAttempts
        BY <4>1, <2>3, <2>8
      <4>. QED  BY <3>1, <4>1, <4>2, <4>3, <2>3, <2>7
    <3>2. CASE j # k
      BY <3>2, <2>7, <2>9, <2>10 DEF BudgetAccounts
    <3>. QED  BY <3>1, <3>2
  <2>14. FailedForAReason'
    BY <2>1, <2>4, <2>7 DEF FailedForAReason
  <2>. QED  BY <2>11, <2>12, <2>13, <2>14
<1>6. ASSUME NEW p \in Procs, SkipEntry(p)
      PROVE  (ConfirmationsAreTrue /\ ExclusiveClaim /\ BudgetAccounts /\ FailedForAReason)'
  <2>1. /\ pc' = [pc EXCEPT ![p] = Resume(Tail(due[p]))]
        /\ cur' = [cur EXCEPT ![p] = NoKey]
        /\ UNCHANGED <<outbox, accepted, sent, refused, takenOver>>
    BY <1>6 DEF SkipEntry, NextEntry, store, history
  <2>2. \A q \in Procs \ {p} : /\ pc'[q] = pc[q] /\ cur'[q] = cur[q]
                               /\ attempt'[q] = attempt[q] /\ batchNow'[q] = batchNow[q]
    BY <1>6 DEF SkipEntry, NextEntry, TypeOK
  <2>4. pc'[p] \notin HoldingPC
    BY <2>1 DEF Resume, HoldingPC, TypeOK
  <2>5. \A q \in Procs, j \in Keys : Holds(q, j)' => q # p /\ Holds(q, j)
    BY <2>2, <2>4 DEF Holds
  <2>6. ConfirmationsAreTrue'
    BY <2>1, <2>2, <2>4 DEF ConfirmationsAreTrue, ConfirmedWasAccepted, HoldingPC
  <2>7. ExclusiveClaim'
    BY <2>1, <2>2, <2>5 DEF ExclusiveClaim
  <2>8. BudgetAccounts'
    BY <2>1, <2>2, <2>5 DEF BudgetAccounts
  <2>9. FailedForAReason'
    BY <2>1 DEF FailedForAReason
  <2>. QED  BY <2>6, <2>7, <2>8, <2>9
<1>7. ASSUME NEW p \in Procs, GetSignedEventAndSend(p)
      PROVE  (ConfirmationsAreTrue /\ ExclusiveClaim /\ BudgetAccounts /\ FailedForAReason)'
  <2>1. ConfirmationsAreTrue'
    BY <1>7 DEF GetSignedEventAndSend, store, locals, HoldingPC, TypeOK, ConfirmationsAreTrue,
        ConfirmedWasAccepted
  <2>2. ExclusiveClaim'
    BY <1>7 DEF GetSignedEventAndSend, store, locals, HoldingPC, TypeOK, ExclusiveClaim, Holds
  <2>3. BudgetAccounts'
    BY <1>7 DEF GetSignedEventAndSend, store, locals, HoldingPC, TypeOK, ExclusiveClaim,
        BudgetAccounts, Holds
  <2>4. FailedForAReason'
    BY <1>7 DEF GetSignedEventAndSend, store, locals, HoldingPC, TypeOK, ExclusiveClaim,
        BudgetAccounts, FailedForAReason, Holds
  <2>. QED  BY <2>1, <2>2, <2>3, <2>4
<1>8. ASSUME NEW p \in Procs, GetSignedEventMissing(p)
      PROVE  (ConfirmationsAreTrue /\ ExclusiveClaim /\ BudgetAccounts /\ FailedForAReason)'
  <2>1. ConfirmationsAreTrue'
    BY <1>8 DEF GetSignedEventMissing, store, locals, HoldingPC, TypeOK, ConfirmationsAreTrue,
        ConfirmedWasAccepted
  <2>2. ExclusiveClaim'
    BY <1>8 DEF GetSignedEventMissing, store, locals, HoldingPC, TypeOK, ExclusiveClaim, Holds
  <2>3. BudgetAccounts'
    BY <1>8 DEF GetSignedEventMissing, store, locals, HoldingPC, TypeOK, ExclusiveClaim,
        BudgetAccounts, Holds
  <2>4. FailedForAReason'
    BY <1>8 DEF GetSignedEventMissing, store, locals, HoldingPC, TypeOK, ExclusiveClaim,
        BudgetAccounts, FailedForAReason, Holds
  <2>. QED  BY <2>1, <2>2, <2>3, <2>4
<1>9. ASSUME NEW p \in Procs, Answer(p)
      PROVE  (ConfirmationsAreTrue /\ ExclusiveClaim /\ BudgetAccounts /\ FailedForAReason)'
  <2>1. /\ UNCHANGED <<outbox, cur, attempt, batchNow, accepted, sent, takenOver>>
        /\ pc[p] = "sending" /\ refused \subseteq refused'
    BY <1>9 DEF Answer, AnswerConfirmed, AnswerConflicted, AnswerNonRetryable, AnswerRetryable,
                store, locals, history
  <2>2. PICK next \in {"confirm", "conflict", "fail", "retry"} :
          /\ pc' = [pc EXCEPT ![p] = next]
          /\ next = "confirm" => cur[p] \in accepted
          /\ next = "fail" => cur[p] \in refused' \/ attempt[p] + 1 >= MaxAttempts
    BY <1>9 DEF Answer, AnswerConfirmed, AnswerConfirms, AnswerConflicted, AnswerNonRetryable,
                AnswerRetryable, OutcomeOfError
  <2>3. pc'[p] = next /\ \A q \in Procs \ {p} : pc'[q] = pc[q]
    BY <2>2 DEF TypeOK
  <2>4. \A q \in Procs, j \in Keys : Holds(q, j)' <=> Holds(q, j)
    BY <2>1, <2>3 DEF Holds, HoldingPC
  <2>5. ConfirmationsAreTrue'
    BY <2>1, <2>2, <2>3 DEF ConfirmationsAreTrue, ConfirmedWasAccepted
  <2>6. ExclusiveClaim'
    BY <2>1, <2>4 DEF ExclusiveClaim
  <2>7. BudgetAccounts'
    <3>. SUFFICES ASSUME NEW j \in Keys \ takenOver, NEW q \in Procs, Holds(q, j)
                  PROVE  /\ pc'[q] = "loading" => sent[j] <= attempt[q] /\ attempt[q] < MaxAttempts
                         /\ pc'[q] = "fail" => j \in refused' \/ attempt[q] + 1 >= MaxAttempts
      BY <2>1, <2>4 DEF BudgetAccounts
    <3>1. CASE q = p
      BY <3>1, <2>2, <2>3 DEF Holds
    <3>2. CASE q # p
      BY <3>2, <2>1, <2>3 DEF BudgetAccounts
    <3>. QED  BY <3>1, <3>2
  <2>8. FailedForAReason'
    BY <2>1 DEF FailedForAReason
  <2>. QED  BY <2>5, <2>6, <2>7, <2>8
<1>10. ASSUME NEW p \in Procs, MarkOutboxConfirmed(p)
      PROVE  (ConfirmationsAreTrue /\ ExclusiveClaim /\ BudgetAccounts /\ FailedForAReason)'
  <2>1. ConfirmationsAreTrue'
    BY <1>10 DEF MarkOutboxConfirmed, UpdateOutboxStatus, NextEntry, Resume, history, HoldingPC,
        TypeOK, ConfirmationsAreTrue, ConfirmedWasAccepted
  <2>2. ExclusiveClaim'
    BY <1>10 DEF MarkOutboxConfirmed, UpdateOutboxStatus, NextEntry, Resume, history, HoldingPC,
        TypeOK, ExclusiveClaim, Holds
  <2>3. BudgetAccounts'
    BY <1>10 DEF MarkOutboxConfirmed, UpdateOutboxStatus, NextEntry, Resume, history, HoldingPC,
        TypeOK, ExclusiveClaim, BudgetAccounts, Holds
  <2>4. FailedForAReason'
    BY <1>10 DEF MarkOutboxConfirmed, UpdateOutboxStatus, NextEntry, Resume, history, HoldingPC,
        TypeOK, ExclusiveClaim, BudgetAccounts, FailedForAReason, Holds
  <2>. QED  BY <2>1, <2>2, <2>3, <2>4
<1>11. ASSUME NEW p \in Procs, MarkOutboxConflicted(p)
      PROVE  (ConfirmationsAreTrue /\ ExclusiveClaim /\ BudgetAccounts /\ FailedForAReason)'
  <2>1. ConfirmationsAreTrue'
    BY <1>11 DEF MarkOutboxConflicted, UpdateOutboxStatus, NextEntry, Resume, history, HoldingPC,
        TypeOK, ConfirmationsAreTrue, ConfirmedWasAccepted
  <2>2. ExclusiveClaim'
    BY <1>11 DEF MarkOutboxConflicted, UpdateOutboxStatus, NextEntry, Resume, history, HoldingPC,
        TypeOK, ExclusiveClaim, Holds
  <2>3. BudgetAccounts'
    BY <1>11 DEF MarkOutboxConflicted, UpdateOutboxStatus, NextEntry, Resume, history, HoldingPC,
        TypeOK, ExclusiveClaim, BudgetAccounts, Holds
  <2>4. FailedForAReason'
    BY <1>11 DEF MarkOutboxConflicted, UpdateOutboxStatus, NextEntry, Resume, history, HoldingPC,
        TypeOK, ExclusiveClaim, BudgetAccounts, FailedForAReason, Holds
  <2>. QED  BY <2>1, <2>2, <2>3, <2>4
<1>12. ASSUME NEW p \in Procs, MarkOutboxFailed(p)
      PROVE  (ConfirmationsAreTrue /\ ExclusiveClaim /\ BudgetAccounts /\ FailedForAReason)'
  <2>1. ConfirmationsAreTrue'
    BY <1>12
    DEF MarkOutboxFailed, UpdateOutboxStatus, NextEntry, Resume, history, HoldingPC, TypeOK,
        ConfirmationsAreTrue, ConfirmedWasAccepted
  <2>2. ExclusiveClaim'
    BY <1>12
    DEF MarkOutboxFailed, UpdateOutboxStatus, NextEntry, Resume, history, HoldingPC, TypeOK,
        ExclusiveClaim, Holds
  <2>3. BudgetAccounts'
    BY <1>12
    DEF MarkOutboxFailed, UpdateOutboxStatus, NextEntry, Resume, history, HoldingPC, TypeOK,
        ExclusiveClaim, BudgetAccounts, Holds
  <2>4. FailedForAReason'
    BY <1>12
    DEF MarkOutboxFailed, UpdateOutboxStatus, NextEntry, Resume, history, HoldingPC, TypeOK,
        ExclusiveClaim, BudgetAccounts, FailedForAReason, Holds
  <2>. QED  BY <2>1, <2>2, <2>3, <2>4
<1>13. ASSUME NEW p \in Procs, ScheduleOutboxRetry(p)
      PROVE  (ConfirmationsAreTrue /\ ExclusiveClaim /\ BudgetAccounts /\ FailedForAReason)'
  <2>1. ConfirmationsAreTrue'
    BY <1>13 DEF ScheduleOutboxRetry, NextEntry, Resume, history, HoldingPC, TypeOK,
        ConfirmationsAreTrue, ConfirmedWasAccepted
  <2>2. ExclusiveClaim'
    BY <1>13
    DEF ScheduleOutboxRetry, NextEntry, Resume, history, HoldingPC, TypeOK, ExclusiveClaim,
        Holds
  <2>3. BudgetAccounts'
    BY <1>13
    DEF ScheduleOutboxRetry, NextEntry, Resume, history, HoldingPC, TypeOK, ExclusiveClaim,
        BudgetAccounts, Holds
  <2>4. FailedForAReason'
    BY <1>13
    DEF ScheduleOutboxRetry, NextEntry, Resume, history, HoldingPC, TypeOK, ExclusiveClaim,
        BudgetAccounts, FailedForAReason, Holds
  <2>. QED  BY <2>1, <2>2, <2>3, <2>4
<1>14. ASSUME NEW p \in Procs, Crash(p)
      PROVE  (ConfirmationsAreTrue /\ ExclusiveClaim /\ BudgetAccounts /\ FailedForAReason)'
  <2>1. ConfirmationsAreTrue'
    BY <1>14
    DEF Crash, NextEntry, Resume, store, history, HoldingPC, TypeOK, ConfirmationsAreTrue,
        ConfirmedWasAccepted
  <2>2. ExclusiveClaim'
    BY <1>14 DEF Crash, NextEntry, Resume, store, history, HoldingPC, TypeOK, ExclusiveClaim, Holds
  <2>3. BudgetAccounts'
    BY <1>14 DEF Crash, NextEntry, Resume, store, history, HoldingPC, TypeOK, ExclusiveClaim,
        BudgetAccounts, Holds
  <2>4. FailedForAReason'
    BY <1>14 DEF Crash, NextEntry, Resume, store, history, HoldingPC, TypeOK, ExclusiveClaim,
        BudgetAccounts, FailedForAReason, Holds
  <2>. QED  BY <2>1, <2>2, <2>3, <2>4
<1>15. CASE UNCHANGED <<outbox, pc, cur, attempt, batchNow, accepted, sent, refused, takenOver>>
  BY <1>15 DEF ConfirmationsAreTrue, ConfirmedWasAccepted, ExclusiveClaim, BudgetAccounts,
               FailedForAReason, Holds
<1>. QED
  BY <1>1, <1>2, <1>3, <1>4, <1>5, <1>6, <1>7, <1>8, <1>9, <1>10, <1>11, <1>12, <1>13, <1>14, <1>15
  DEF Next, ProcStep, LoopStep, PutSignedEvent, Tick, vars, store, locals, history
\* The inductive invariant holds from the start on.
LEMMA Invariance == Spec => []IInv
<1>1. Init => IInv
  <2>. SUFFICES ASSUME Init PROVE IInv
    OBVIOUS
  <2>1. TypeOK
    BY InitType
  <2>2. \A k \in Keys : outbox[k].status = "absent" /\ sent[k] = 0
    BY DEF Init, Absent
  <2>3. \A p \in Procs : pc[p] \notin HoldingPC
    BY DEF Init, HoldingPC
  <2>. QED
    BY <2>1, <2>2, <2>3, OutboxAssumption
    DEF IInv, ConfirmationsAreTrue, ConfirmedWasAccepted, ExclusiveClaim, BudgetAccounts,
        FailedForAReason, Holds, HoldingPC, OutboxAssumption
<1>. QED  BY <1>1, InvStep, PTL DEF Spec

\* markOutboxConfirmed is only ever written for an event that the bridge
\* accepted, whatever was lost, retried, recovered or overwritten.
THEOREM OutboxConfirmedWasAccepted == Spec => []ConfirmedWasAccepted
<1>1. IInv => ConfirmedWasAccepted
  BY DEF IInv, ConfirmationsAreTrue
<1>. QED  BY <1>1, Invariance, PTL

\* Between claimOutboxEntry and the outcome no other loop works on the entry,
\* unless recoverStaleOutboxClaims took it away.
THEOREM OutboxExclusiveClaim == Spec => []ExclusiveClaim
<1>1. IInv => ExclusiveClaim
  BY DEF IInv
<1>. QED  BY <1>1, Invariance, PTL

\* processOutboxBatch sends an entry at most maxAttempts times over all batches, tabs and
\* crashes, and markOutboxFailed is written only after a final refusal, for want of the
\* event, or when the attempts are used up, with the same exception.
THEOREM OutboxAttemptsAreAccounted == Spec => []AttemptsAreAccounted
<1>1. IInv => RetryBudget
  BY DEF IInv, BudgetAccounts, RetryBudget
<1>2. IInv => FailedForAReason
  BY DEF IInv
<1>. QED  BY <1>1, <1>2, Invariance, PTL DEF AttemptsAreAccounted

-----------------------------------------------------------------------------
\* A settled entry has no loop working on it, so no step touches it: each
\* action writes the row, or counts a request, only of the entry it claimed,
\* of a stale claim, or of a pending candidate.
LEMMA SettledStep ==
  ASSUME IInv, [Next]_vars, NEW k \in Keys \ takenOver, outbox[k].status \in Settled
  PROVE  outbox'[k] = outbox[k] /\ sent'[k] = sent[k]
<1>. USE DEF IInv
<1>1. \A p \in Procs : ~Holds(p, k)
  BY DEF ExclusiveClaim, Settled
<1>2. ASSUME NEW p \in Procs, pc[p] \in HoldingPC
      PROVE  cur[p] # k
  BY <1>1, <1>2 DEF Holds
<1>3. ASSUME NEW j \in Keys, PutSignedEvent(j) \/ EnqueueOutbox(j) \/ BridgeAccepts(j)
      PROVE  outbox'[k] = outbox[k] /\ sent'[k] = sent[k]
  BY <1>3 DEF PutSignedEvent, EnqueueOutbox, BridgeAccepts, Settled, store, history, TypeOK
<1>4. ASSUME NEW p \in Procs, RecoverStaleOutboxClaims(p)
      PROVE  outbox'[k] = outbox[k] /\ sent'[k] = sent[k]
  BY <1>4 DEF RecoverStaleOutboxClaims, StaleClaims, Settled
<1>5. ASSUME NEW p \in Procs, ClaimOutboxEntry(p)
      PROVE  outbox'[k] = outbox[k] /\ sent'[k] = sent[k]
  <2>1. Head(due[p]) # k
    BY <1>5 DEF ClaimOutboxEntry, Claimable, Settled
  <2>. QED
    BY <1>5, <2>1 DEF ClaimOutboxEntry, history, TypeOK
<1>6. ASSUME NEW p \in Procs, ListDueOutbox(p) \/ SkipEntry(p) \/ Crash(p)
      PROVE  outbox'[k] = outbox[k] /\ sent'[k] = sent[k]
  BY <1>6 DEF ListDueOutbox, SkipEntry, Crash, store, history
<1>7. ASSUME NEW p \in Procs, GetSignedEventAndSend(p) \/ GetSignedEventMissing(p)
      PROVE  outbox'[k] = outbox[k] /\ sent'[k] = sent[k]
  BY <1>7, <1>2 DEF GetSignedEventAndSend, GetSignedEventMissing, HoldingPC, store, TypeOK
<1>8. ASSUME NEW p \in Procs, Answer(p)
      PROVE  outbox'[k] = outbox[k] /\ sent'[k] = sent[k]
  BY <1>8 DEF Answer, AnswerConfirmed, AnswerConflicted, AnswerNonRetryable, AnswerRetryable,
              store, history
<1>9. ASSUME NEW p \in Procs,
             \/ MarkOutboxConfirmed(p) \/ MarkOutboxConflicted(p)
             \/ MarkOutboxFailed(p) \/ ScheduleOutboxRetry(p)
      PROVE  outbox'[k] = outbox[k] /\ sent'[k] = sent[k]
  <2>1. cur[p] # k
    BY <1>9, <1>2 DEF MarkOutboxConfirmed, MarkOutboxConflicted, MarkOutboxFailed,
                      ScheduleOutboxRetry, HoldingPC
  <2>. QED
    BY <1>9, <2>1 DEF MarkOutboxConfirmed, MarkOutboxConflicted, MarkOutboxFailed,
                      UpdateOutboxStatus, ScheduleOutboxRetry, history, TypeOK
<1>10. CASE Tick \/ UNCHANGED vars
  BY <1>10 DEF Tick, vars, store, history
<1>. QED
  BY <1>3, <1>4, <1>5, <1>6, <1>7, <1>8, <1>9, <1>10 DEF Next, ProcStep, LoopStep

\* No store call and no loop touches an entry whose outcome is written, and it
\* is never sent again, unless recovery once took it from a working loop.
THEOREM OutboxSettledIsFinal == Spec => SettledIsFinal
<1>1. IInv /\ [Next]_vars =>
        [\A k \in Keys \ takenOver : outbox[k].status \in Settled =>
           outbox'[k] = outbox[k] /\ sent'[k] = sent[k]]_vars
  BY SettledStep
<1>. QED  BY <1>1, Invariance, PTL DEF Spec, SettledIsFinal

\* recoverStaleOutboxClaims takes a first claim from a working loop only if
\* the loop's batch began at least claimTimeoutMs ago.
THEOREM OutboxTakeoverOnlyAfterTimeout == Spec => TakeoverOnlyAfterTimeout
<1>1. ASSUME IInv, [Next]_vars, NEW k \in takenOver' \ takenOver
      PROVE  \E p \in Procs : Holds(p, k) /\ batchNow[p] + ClaimTimeout <= now
  <2>1. PICK p \in Procs : RecoverStaleOutboxClaims(p)
    BY <1>1 DEF Next, ProcStep, LoopStep, Answer, PutSignedEvent, EnqueueOutbox, BridgeAccepts,
                ListDueOutbox, ClaimOutboxEntry, SkipEntry, GetSignedEventAndSend,
                GetSignedEventMissing, AnswerConfirmed, AnswerConflicted, AnswerNonRetryable,
                AnswerRetryable, MarkOutboxConfirmed, MarkOutboxConflicted, MarkOutboxFailed,
                UpdateOutboxStatus, ScheduleOutboxRetry, Crash, Tick, vars, history
  <2>2. k \in StaleClaims(now) /\ \E q \in Procs : Holds(q, k)
    BY <1>1, <2>1 DEF RecoverStaleOutboxClaims
  <2>. QED
    BY <1>1, <2>2 DEF StaleClaims, IInv, ExclusiveClaim
<1>2. IInv /\ [Next]_vars =>
        [\A k \in takenOver' \ takenOver :
           \E p \in Procs : Holds(p, k) /\ batchNow[p] + ClaimTimeout <= now]_vars
  BY <1>1
<1>. QED  BY <1>2, Invariance, PTL DEF Spec, TakeoverOnlyAfterTimeout
=============================================================================
