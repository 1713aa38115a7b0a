--------------------------- MODULE DeliveryProofs ---------------------------
(***************************************************************************)
(* Delivery implements Outbox, for any keys, processors and bounds.        *)
(*                                                                         *)
(* Most steps are steps of Outbox by their definition.  Two need an        *)
(* invariant: a loop that receives a confirmation (the bridge has stored   *)
(* the event of a request before it confirms it), and a store of the       *)
(* bridge (it handles only requests that were sent).                       *)
(***************************************************************************)
EXTENDS Delivery, TLAPS

OP == INSTANCE OutboxProofs WITH accepted <- stored

\* A request that is confirmed is for an event that the store has had, and
\* only what was sent is handled at all.
RequestsAreReal ==
  \A r \in Requests :
    /\ request[r] = "confirmed" => r[1] \in stored
    /\ request[r] # "unsent" => sent[r[1]] > 0

DInv == DeliveryTypeOK /\ RequestsAreReal

-----------------------------------------------------------------------------

LEMMA Assumptions == OP!OutboxAssumption
BY DeliveryAssumption DEF DeliveryAssumption, OP!OutboxAssumption

\* The outbox as Delivery names it and as OutboxProofs does are the same.
LEMMA SameNext == OP!Next <=> O!Next
<1>1. \A S : OP!Cardinality(S) = O!Cardinality(S)
  BY DEF OP!Cardinality, O!Cardinality
<1>2. \A t : OP!DueKeys(t) = O!DueKeys(t)
  BY DEF OP!DueKeys, O!DueKeys
<1>3. \A s, t : OP!IsDueList(s, t) <=> O!IsDueList(s, t)
  BY <1>2 DEF OP!IsDueList, O!IsDueList, OP!IsInjective, O!IsInjective,
     OP!Range, O!Range
<1>4. \A p, s : OP!NextEntry(p, s) <=> O!NextEntry(p, s)
  BY DEF OP!NextEntry, O!NextEntry, OP!Resume, O!Resume
<1>5. \A k \in Keys : OP!PutSignedEvent(k) <=> O!PutSignedEvent(k)
  BY DEF OP!PutSignedEvent, O!PutSignedEvent, OP!store, O!store, OP!locals,
     O!locals, OP!history, O!history
<1>6. \A k \in Keys : OP!EnqueueOutbox(k) <=> O!EnqueueOutbox(k)
  BY DEF OP!EnqueueOutbox, O!EnqueueOutbox, OP!store, O!store, OP!locals,
     O!locals, OP!history, O!history
<1>7. \A k \in Keys : OP!BridgeAccepts(k) <=> O!BridgeAccepts(k)
  BY DEF OP!BridgeAccepts, O!BridgeAccepts, OP!store, O!store, OP!locals,
     O!locals, OP!history, O!history
<1>8. OP!Tick <=> O!Tick
  BY DEF OP!Tick, O!Tick, OP!store, O!store, OP!locals, O!locals,
     OP!history, O!history
<1>9. \A p \in Procs : OP!RecoverStaleOutboxClaims(p) <=> O!RecoverStaleOutboxClaims(p)
  BY <1>1 DEF OP!RecoverStaleOutboxClaims, O!RecoverStaleOutboxClaims,
     OP!StaleClaims, O!StaleClaims, OP!Recovered, O!Recovered, OP!Holds,
     O!Holds, OP!HoldingPC, O!HoldingPC, OP!store, O!store, OP!locals,
     O!locals, OP!history, O!history
<1>10. \A p \in Procs : OP!ListDueOutbox(p) <=> O!ListDueOutbox(p)
  BY <1>3, <1>2, <1>4 DEF OP!ListDueOutbox, O!ListDueOutbox, OP!store,
     O!store, OP!locals, O!locals, OP!history, O!history
<1>11. \A p \in Procs : OP!ClaimOutboxEntry(p) <=> O!ClaimOutboxEntry(p)
  BY DEF OP!ClaimOutboxEntry, O!ClaimOutboxEntry, OP!Claimable,
     O!Claimable, OP!store, O!store, OP!locals, O!locals, OP!history,
     O!history
<1>12. \A p \in Procs : OP!SkipEntry(p) <=> O!SkipEntry(p)
  BY <1>4 DEF OP!SkipEntry, O!SkipEntry, OP!Claimable, O!Claimable,
     OP!store, O!store, OP!locals, O!locals, OP!history, O!history
<1>13. \A p \in Procs : OP!GetSignedEventAndSend(p) <=> O!GetSignedEventAndSend(p)
  BY DEF OP!GetSignedEventAndSend, O!GetSignedEventAndSend, OP!store,
     O!store, OP!locals, O!locals, OP!history, O!history
<1>14. \A p \in Procs : OP!GetSignedEventMissing(p) <=> O!GetSignedEventMissing(p)
  BY DEF OP!GetSignedEventMissing, O!GetSignedEventMissing, OP!store,
     O!store, OP!locals, O!locals, OP!history, O!history
<1>15. \A p \in Procs : OP!AnswerConfirmed(p) <=> O!AnswerConfirmed(p)
  BY DEF OP!AnswerConfirmed, O!AnswerConfirmed, OP!AnswerConfirms,
     O!AnswerConfirms, OP!store, O!store, OP!locals, O!locals, OP!history,
     O!history
<1>16. \A p \in Procs : OP!AnswerConflicted(p) <=> O!AnswerConflicted(p)
  BY DEF OP!AnswerConflicted, O!AnswerConflicted, OP!store, O!store,
     OP!locals, O!locals, OP!history, O!history
<1>17. \A p \in Procs : OP!AnswerNonRetryable(p) <=> O!AnswerNonRetryable(p)
  BY DEF OP!AnswerNonRetryable, O!AnswerNonRetryable, OP!store, O!store,
     OP!locals, O!locals, OP!history, O!history
<1>18. \A p \in Procs : OP!AnswerRetryable(p) <=> O!AnswerRetryable(p)
  BY DEF OP!AnswerRetryable, O!AnswerRetryable, OP!OutcomeOfError,
     O!OutcomeOfError, OP!store, O!store, OP!locals, O!locals, OP!history,
     O!history
<1>19. \A p \in Procs : OP!MarkOutboxConfirmed(p) <=> O!MarkOutboxConfirmed(p)
  BY <1>4 DEF OP!MarkOutboxConfirmed, O!MarkOutboxConfirmed,
     OP!UpdateOutboxStatus, O!UpdateOutboxStatus, OP!store, O!store,
     OP!locals, O!locals, OP!history, O!history
<1>20. \A p \in Procs : OP!MarkOutboxConflicted(p) <=> O!MarkOutboxConflicted(p)
  BY <1>4 DEF OP!MarkOutboxConflicted, O!MarkOutboxConflicted,
     OP!UpdateOutboxStatus, O!UpdateOutboxStatus, OP!store, O!store,
     OP!locals, O!locals, OP!history, O!history
<1>21. \A p \in Procs : OP!MarkOutboxFailed(p) <=> O!MarkOutboxFailed(p)
  BY <1>4 DEF OP!MarkOutboxFailed, O!MarkOutboxFailed,
     OP!UpdateOutboxStatus, O!UpdateOutboxStatus, OP!store, O!store,
     OP!locals, O!locals, OP!history, O!history
<1>22. \A p \in Procs : OP!ScheduleOutboxRetry(p) <=> O!ScheduleOutboxRetry(p)
  BY <1>4 DEF OP!ScheduleOutboxRetry, O!ScheduleOutboxRetry, OP!store,
     O!store, OP!locals, O!locals, OP!history, O!history
<1>23. \A p \in Procs : OP!Crash(p) <=> O!Crash(p)
  BY <1>4 DEF OP!Crash, O!Crash, OP!store, O!store, OP!locals, O!locals,
     OP!history, O!history
<1>. QED  BY <1>5, <1>6, <1>7, <1>8, <1>9, <1>10, <1>11, <1>12, <1>13,
             <1>14, <1>15, <1>16, <1>17, <1>18, <1>19, <1>20, <1>21, <1>22,
             <1>23 DEF OP!Next, O!Next, OP!ProcStep, O!ProcStep, OP!LoopStep,
             O!LoopStep, OP!Answer, O!Answer

LEMMA SameType == OP!TypeOK <=> O!TypeOK
BY DEF OP!TypeOK, O!TypeOK, OP!MutationOutboxEntry, O!MutationOutboxEntry,
       OP!OutboxStatus, O!OutboxStatus, OP!PC, O!PC, OP!HoldingPC, O!HoldingPC

LEMMA SameVars == OP!vars = O!vars
BY DEF OP!vars, O!vars

LEMMA OutboxTypes == O!TypeOK /\ [O!Next]_(O!vars) => O!TypeOK'
<1>1. OP!TypeOK /\ [OP!Next]_(OP!vars) => OP!TypeOK'
  BY Assumptions, OP!TypeStep
<1>2. OP!TypeOK' <=> O!TypeOK'
  BY SameType, PTL
<1>3. OP!vars' = O!vars'
  BY DEF OP!vars, O!vars
<1>. QED  BY <1>1, <1>2, <1>3, SameType, SameNext, SameVars

LEMMA InitInv == Init => O!Init /\ DInv
<1>1. Init => O!Init
  BY DEF Init, O!Init
<1>2. OP!Init => OP!TypeOK
  BY Assumptions, OP!InitType
<1>3. O!Init => OP!Init
  BY DEF O!Init, OP!Init, O!Absent, OP!Absent
<1>4. Init => O!TypeOK
  BY <1>1, <1>2, <1>3, SameType
<1>5. Init => DInv
  BY <1>4, DeliveryAssumption
     DEF DeliveryAssumption, Init, DInv, DeliveryTypeOK, RequestsAreReal, Requests, Stages, Answers
<1>. QED  BY <1>1, <1>5

-----------------------------------------------------------------------------

\* The client's own steps leave requests alone, and no loop gets to wait for
\* an answer by one.
LEMMA ClientSteps ==
  ASSUME DInv, ClientStep
  PROVE  /\ [O!Next]_(O!vars)
         /\ UNCHANGED <<request, awaits, bridge, sent>>
         /\ \A p \in Procs : pc'[p] = "sending" => pc[p] = "sending" /\ cur'[p] = cur[p]
<1>1. UNCHANGED <<request, awaits, bridge>>
  BY DEF ClientStep
<1>. DEFINE Quiet == /\ UNCHANGED sent
                    /\ \A p \in Procs : pc'[p] = "sending" => pc[p] = "sending" /\ cur'[p] = cur[p]
<1>2. CASE O!Tick
  <2>1. Quiet
    BY <1>2 DEF O!Tick, O!history, O!locals
  <2>. QED  BY <1>1, <1>2, <2>1 DEF O!Next
<1>3. ASSUME NEW k \in Keys, Application(k)
      PROVE  O!Next /\ Quiet
  <2>1. Quiet
    BY <1>3 DEF Application, O!PutSignedEvent, O!EnqueueOutbox, O!history, O!locals
  <2>. QED  BY <1>3, <2>1 DEF O!Next, Application
<1>4. ASSUME NEW p \in Procs, LoopStep(p)
      PROVE  O!Next /\ Quiet
  <2>. USE DEF DInv, DeliveryTypeOK, O!TypeOK
  <2>1. CASE O!RecoverStaleOutboxClaims(p)
    BY <2>1 DEF O!RecoverStaleOutboxClaims, O!Next, O!ProcStep
  <2>2. CASE O!ListDueOutbox(p)
    BY <2>2 DEF O!ListDueOutbox, O!NextEntry, O!Resume, O!Next, O!ProcStep, O!LoopStep, O!history
  <2>3. CASE O!ClaimOutboxEntry(p)
    BY <2>3 DEF O!ClaimOutboxEntry, O!Next, O!ProcStep, O!LoopStep, O!history
  <2>4. CASE O!SkipEntry(p)
    BY <2>4 DEF O!SkipEntry, O!NextEntry, O!Resume, O!Next, O!ProcStep, O!LoopStep, O!history
  <2>5. CASE O!GetSignedEventMissing(p)
    BY <2>5 DEF O!GetSignedEventMissing, O!Next, O!ProcStep, O!LoopStep, O!locals
  <2>6. CASE O!MarkOutboxConfirmed(p)
    BY <2>6 DEF O!MarkOutboxConfirmed, O!UpdateOutboxStatus, O!NextEntry, O!Resume,
                O!Next, O!ProcStep, O!LoopStep, O!history
  <2>7. CASE O!MarkOutboxFailed(p)
    BY <2>7 DEF O!MarkOutboxFailed, O!UpdateOutboxStatus, O!NextEntry, O!Resume,
                O!Next, O!ProcStep, O!LoopStep, O!history
  <2>8. CASE O!ScheduleOutboxRetry(p)
    BY <2>8 DEF O!ScheduleOutboxRetry, O!NextEntry, O!Resume,
                O!Next, O!ProcStep, O!LoopStep, O!history
  <2>. QED  BY <1>4, <2>1, <2>2, <2>3, <2>4, <2>5, <2>6, <2>7, <2>8 DEF LoopStep
<1>. QED  BY <1>1, <1>2, <1>3, <1>4, SameVars DEF ClientStep, O!Next

-----------------------------------------------------------------------------

\* A loop that waits does so for a request for its own entry.
LEMMA WaitsForRequest ==
  ASSUME DInv, NEW p \in Procs, pc[p] = "sending"
  PROVE  cur[p] \in Keys /\ awaits[p] \in 1..MaxSends /\ <<cur[p], awaits[p]>> \in Requests
<1>1. cur[p] \in Keys
  BY DEF DInv, DeliveryTypeOK, O!TypeOK, O!HoldingPC
<1>2. awaits[p] \in 0..MaxSends /\ awaits[p] > 0
  BY DEF DInv, DeliveryTypeOK
<1>3. awaits[p] \in 1..MaxSends
  BY <1>2, DeliveryAssumption DEF DeliveryAssumption
<1>. QED  BY <1>1, <1>3 DEF Requests

\* A request that changes its stage keeps its type.
LEMMA ReachesType ==
  ASSUME DInv, NEW r \in Requests, NEW s \in Stages \ {"unsent"}, Reaches(r, s)
  PROVE  /\ request' \in [Requests -> Stages]
         /\ \A q \in Requests : request'[q] = "unsent" => request[q] = "unsent"
BY DEF Reaches, DInv, DeliveryTypeOK

\* A confirmation is received only for what the bridge has stored.
LEMMA AnswerSteps ==
  ASSUME DInv, NEW p \in Procs, ReceiveAnswer(p)
  PROVE  /\ O!Next
         /\ DInv'
<1>. USE DEF DInv, DeliveryTypeOK, O!TypeOK
<1>1. p \in Procs /\ pc[p] = "sending" /\ cur[p] \in Keys /\ awaits[p] \in 1..MaxSends
  BY WaitsForRequest DEF ReceiveAnswer, ReceiveConfirmed, ReceiveRejected, ReceiveNothing
<1>2. ASSUME ReceiveConfirmed(p) PROVE O!Next
  <2>1. cur[p] \in stored
    BY <1>1, <1>2 DEF ReceiveConfirmed, Answer, RequestsAreReal, Requests
  <2>2. O!AnswerConfirmed(p)
    BY <1>2, <2>1 DEF ReceiveConfirmed, Receive, O!AnswerConfirmed, O!AnswerConfirms,
                      bridge, O!store, O!locals, O!history
  <2>. QED  BY <2>2 DEF O!Next, O!ProcStep, O!Answer
<1>3. ASSUME ReceiveRejected(p) PROVE O!Next
  BY <1>3 DEF ReceiveRejected, Receive, O!AnswerNonRetryable, bridge, O!store, O!locals,
              O!Next, O!ProcStep, O!Answer
<1>4. ASSUME ReceiveNothing(p) PROVE O!Next
  BY <1>4 DEF ReceiveNothing, Receive, O!AnswerRetryable, bridge, O!store, O!locals, O!history,
              O!Next, O!ProcStep, O!Answer
<1>5. O!Next
  BY <1>2, <1>3, <1>4 DEF ReceiveAnswer
<1>6. O!TypeOK'
  BY <1>5, OutboxTypes
<1>7. /\ UNCHANGED <<request, bridge, cur, sent>>
      /\ awaits' = [awaits EXCEPT ![p] = 0]
      /\ \A q \in Procs : pc'[q] = "sending" => q # p /\ pc[q] = "sending"
  BY DEF ReceiveAnswer, ReceiveConfirmed, ReceiveRejected, ReceiveNothing, Receive,
         O!OutcomeOfError, bridge
<1>8. DeliveryTypeOK'
  BY <1>6, <1>7, DeliveryAssumption DEF DeliveryAssumption, bridge
<1>9. RequestsAreReal'
  BY <1>7 DEF RequestsAreReal, bridge
<1>. QED  BY <1>5, <1>8, <1>9

\* The bridge handles only what was sent, and stores before it confirms.
LEMMA BridgeSteps ==
  ASSUME DInv, NEW r \in Requests, Handle(r)
  PROVE  /\ [O!Next]_(O!vars)
         /\ DInv'
<1>. USE DEF DInv, DeliveryTypeOK
<1>. DEFINE k == r[1]
<1>1. k \in Keys
  BY DEF Requests
<1>2. request[r] \in {"sent", "admitted"} /\ sent[k] > 0
  BY DEF Handle, Admit, Reject, SaveFails, Store, StoreFails, RequestsAreReal
<1>3. UNCHANGED <<client, awaits>>
  BY DEF Handle, Admit, Reject, SaveFails, Store, StoreFails
<1>4. [O!Next]_(O!vars)
  <2>1. CASE k \notin stored /\ stored' = stored \cup {k}
    <3>1. O!BridgeAccepts(k)
      BY <1>2, <1>3, <2>1 DEF client, O!BridgeAccepts, O!store, O!locals, O!history
    <3>. QED  BY <1>1, <3>1 DEF O!Next
  <2>2. CASE stored' = stored
    BY <1>3, <2>2 DEF client, O!vars
  <2>. QED  BY <2>1, <2>2 DEF Handle, Admit, Reject, SaveFails, Store, Stored, StoreFails
<1>5. O!TypeOK'
  BY <1>4, OutboxTypes
<1>6. PICK s \in {"admitted", "confirmed", "rejected", "error"} : Reaches(r, s) /\ (s = "confirmed" => k \in stored')
  BY DEF Handle, Admit, Reject, SaveFails, Store, Stored, StoreFails
<1>7. /\ request' \in [Requests -> Stages]
      /\ \A q \in Requests : request'[q] = "unsent" => request[q] = "unsent"
  BY <1>6, ReachesType DEF Stages, Answers
<1>8. stored \subseteq stored' /\ records' \subseteq stored' /\ seen' \subseteq Keys
      /\ gateway' = gateway /\ stops' \in 0..MaxStops
  BY <1>1, DeliveryAssumption
     DEF DeliveryAssumption, Handle, Admit, Reject, SaveFails, Store, Stored, StoreFails
<1>9. \A p \in Procs : pc[p] = "sending" => cur[p] \in Keys
  BY DEF O!TypeOK, O!HoldingPC
<1>10. DeliveryTypeOK'
  BY <1>3, <1>5, <1>7, <1>8, <1>9 DEF client, Requests
<1>11. RequestsAreReal'
  BY <1>2, <1>3, <1>6, <1>7, <1>8 DEF RequestsAreReal, Reaches, client, Stages, Answers
<1>. QED  BY <1>4, <1>10, <1>11

LEMMA SendSteps ==
  ASSUME DInv, NEW p \in Procs, Send(p)
  PROVE  /\ O!Next
         /\ DInv'
<1>. USE DEF DInv, DeliveryTypeOK
<1>. DEFINE k == cur[p]
            n == sent[cur[p]] + 1
<1>1. O!GetSignedEventAndSend(p) /\ UNCHANGED bridge
  BY DEF Send
<1>2. O!Next
  BY <1>1 DEF O!Next, O!ProcStep, O!LoopStep
<1>3. O!TypeOK'
  BY <1>2, OutboxTypes
<1>4. k \in Keys /\ sent[k] \in Nat /\ sent[k] < MaxSends /\ cur' = cur
      /\ sent' = [sent EXCEPT ![k] = n]
      /\ \A q \in Procs : pc'[q] = "sending" => q = p \/ pc[q] = "sending"
  BY DEF Send, O!GetSignedEventAndSend, O!TypeOK, O!HoldingPC, O!locals
<1>5. n \in 1..MaxSends /\ <<k, n>> \in Requests
  BY <1>4, DeliveryAssumption DEF DeliveryAssumption, Requests
<1>6. request' = [request EXCEPT ![<<k, n>>] = "sent"] /\ awaits' = [awaits EXCEPT ![p] = n]
  BY DEF Send
<1>7. request' \in [Requests -> Stages]
      /\ \A q \in Requests : request'[q] = "unsent" => request[q] = "unsent"
  BY <1>5, <1>6 DEF Stages
<1>8. awaits' \in [Procs -> 0..MaxSends] /\ awaits'[p] > 0
      /\ request'[<<k, n>>] # "unsent"
  BY <1>5, <1>6
<1>9. \A q \in Procs : pc'[q] = "sending" =>
         awaits'[q] > 0 /\ request'[<<cur'[q], awaits'[q]>>] # "unsent"
  <2>. SUFFICES ASSUME NEW q \in Procs, q # p, pc[q] = "sending"
                PROVE  awaits'[q] > 0 /\ request'[<<cur[q], awaits[q]>>] # "unsent"
    BY <1>4, <1>6, <1>8
  <2>1. cur[q] \in Keys /\ awaits[q] \in 1..MaxSends
    BY WaitsForRequest
  <2>. QED  BY <2>1, <1>6, <1>7 DEF Requests
<1>10. DeliveryTypeOK'
  BY <1>1, <1>3, <1>7, <1>8, <1>9 DEF bridge
<1>11. RequestsAreReal'
  <2>. SUFFICES ASSUME NEW r \in Requests
                PROVE  /\ request'[r] = "confirmed" => r[1] \in stored
                       /\ request'[r] # "unsent" => sent'[r[1]] > 0
    BY <1>1 DEF RequestsAreReal, bridge
  <2>1. r[1] \in Keys /\ sent[r[1]] \in Nat
    BY DEF Requests, O!TypeOK
  <2>2. CASE r = <<k, n>>
    BY <2>2, <1>4, <1>5, <1>6, <2>1 DEF O!TypeOK
  <2>3. CASE r # <<k, n>>
    BY <2>3, <2>1, <1>4, <1>6 DEF RequestsAreReal, O!TypeOK
  <2>. QED  BY <2>2, <2>3
<1>. QED  BY <1>2, <1>10, <1>11

LEMMA CrashSteps ==
  ASSUME DInv, NEW p \in Procs, Crash(p)
  PROVE  /\ O!Next
         /\ DInv'
<1>. USE DEF DInv, DeliveryTypeOK
<1>1. O!Next
  BY DEF Crash, O!Next, O!ProcStep
<1>2. O!TypeOK'
  BY <1>1, OutboxTypes
<1>3. UNCHANGED <<request, bridge, sent>> /\ awaits' = [awaits EXCEPT ![p] = 0]
      /\ \A q \in Procs : pc'[q] = "sending" => q # p /\ pc[q] = "sending" /\ cur'[q] = cur[q]
  BY DEF Crash, O!Crash, O!NextEntry, O!Resume, O!TypeOK, O!history
<1>4. DeliveryTypeOK'
  BY <1>2, <1>3, DeliveryAssumption DEF DeliveryAssumption, bridge
<1>5. RequestsAreReal'
  BY <1>3 DEF RequestsAreReal, bridge
<1>. QED  BY <1>1, <1>4, <1>5

\* A restart and a record that is dropped are nothing to the outbox: it counts
\* what was ever stored.
LEMMA QuietSteps ==
  ASSUME DInv, Restart \/ \E k \in Keys : Forget(k)
  PROVE  /\ UNCHANGED O!vars
         /\ DInv'
<1>. USE DEF DInv, DeliveryTypeOK
<1>1. UNCHANGED <<client, awaits, stored>>
  BY DEF Restart, Forget
<1>2. UNCHANGED O!vars
  BY <1>1 DEF client, O!vars
<1>3. O!TypeOK'
  BY <1>2, OutboxTypes
<1>4. /\ request' \in [Requests -> Stages]
      /\ \A q \in Requests : /\ request'[q] = "unsent" <=> request[q] = "unsent"
                             /\ request'[q] = "confirmed" => request[q] = "confirmed"
  BY DEF Restart, Forget, Stages, Answers
<1>5. seen' \subseteq Keys /\ records' \subseteq stored /\ gateway' \in BOOLEAN /\ stops' \in 0..MaxStops
  BY DeliveryAssumption DEF DeliveryAssumption, Restart, Forget
<1>6. \A p \in Procs : pc[p] = "sending" => <<cur[p], awaits[p]>> \in Requests
  BY DEF O!TypeOK, O!HoldingPC, Requests
<1>7. DeliveryTypeOK'
  BY <1>1, <1>3, <1>4, <1>5, <1>6 DEF client
<1>8. RequestsAreReal'
  BY <1>1, <1>4 DEF RequestsAreReal, client
<1>. QED  BY <1>2, <1>7, <1>8

\* Every step keeps the invariant and is a step of the outbox or none.
LEMMA Step == DInv /\ [Next]_vars => [O!Next]_(O!vars) /\ DInv'
<1>. SUFFICES ASSUME DInv, [Next]_vars
              PROVE  [O!Next]_(O!vars) /\ DInv'
  OBVIOUS
<1>1. CASE ClientStep
  <2>1. [O!Next]_(O!vars) /\ O!TypeOK'
    BY <1>1, ClientSteps, OutboxTypes DEF DInv, DeliveryTypeOK
  <2>2. UNCHANGED <<request, awaits, bridge, sent>>
        /\ \A p \in Procs : pc'[p] = "sending" => pc[p] = "sending" /\ cur'[p] = cur[p]
    BY <1>1, ClientSteps
  <2>3. DeliveryTypeOK'
    BY <2>1, <2>2 DEF DInv, DeliveryTypeOK, bridge
  <2>4. RequestsAreReal'
    BY <2>2 DEF DInv, RequestsAreReal, bridge
  <2>. QED  BY <2>1, <2>3, <2>4 DEF DInv
<1>2. ASSUME NEW p \in Procs, Send(p) \/ ReceiveAnswer(p) \/ Crash(p)
      PROVE  [O!Next]_(O!vars) /\ DInv'
  BY <1>2, SendSteps, AnswerSteps, CrashSteps
<1>3. ASSUME NEW r \in Requests, Handle(r)
      PROVE  [O!Next]_(O!vars) /\ DInv'
  BY <1>3, BridgeSteps
<1>4. CASE Restart \/ \E k \in Keys : Forget(k)
  BY <1>4, QuietSteps
<1>5. CASE UNCHANGED vars
  <2>1. UNCHANGED O!vars
    BY <1>5 DEF vars, client, bridge, O!vars
  <2>2. O!TypeOK'
    BY <2>1, OutboxTypes DEF DInv, DeliveryTypeOK
  <2>. QED  BY <1>5, <2>1, <2>2 DEF DInv, DeliveryTypeOK, RequestsAreReal, vars, client, bridge
<1>. QED  BY <1>1, <1>2, <1>3, <1>4, <1>5 DEF Next

\* The bridge is asked, answers and stops in any order, and what a loop waits
\* for is always a request that was sent.
THEOREM DeliveryTypeCorrect == Spec => []DeliveryTypeOK
<1>1. Init => DInv
  BY InitInv
<1>2. DInv /\ [Next]_vars => DInv'
  BY Step
<1>3. DInv => DeliveryTypeOK
  BY DEF DInv
<1>. QED  BY <1>1, <1>2, <1>3, PTL DEF Spec

\* Client and bridge together implement the outbox over a set of accepted
\* keys, so every theorem about the outbox's safety is one about both.
THEOREM DeliveryImplementsOutbox == Spec => OutboxSpec
<1>1. Init => O!Init /\ DInv
  BY InitInv
<1>2. DInv /\ [Next]_vars => [O!Next]_(O!vars) /\ DInv'
  BY Step
<1>. QED  BY <1>1, <1>2, PTL DEF Spec, OutboxSpec, O!Spec

=============================================================================
