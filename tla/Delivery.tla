------------------------------ MODULE Delivery ------------------------------
(***************************************************************************)
(* A delivery from end to end: the outbox and its delivery loop (Outbox),  *)
(* the HTTP transport of packages/sync-client, and the bridge's            *)
(* acceptDelivery with its optional admission gateway and its store.       *)
(*                                                                         *)
(* Outbox sees the bridge only as a set of accepted keys and lets any      *)
(* answer come back.  Here every answer is given by a bridge that handled  *)
(* the request, or by no one: a client that has given up on a request does *)
(* not stop it, and its retry is a second request for the same key.  The   *)
(* specification implements Outbox with `accepted' read as the keys that   *)
(* the bridge has ever stored.                                             *)
(*                                                                         *)
(* A key names one event, so the store never answers with a conflict.  The *)
(* store's get and putIfAbsent are one step, and so is the gateway's       *)
(* decision with its save: BridgeService and Admission take them apart.    *)
(***************************************************************************)
EXTENDS Naturals, Sequences, FiniteSets

CONSTANTS
  Keys, Procs, NoKey, BatchSize, MaxAttempts, ClaimTimeout, RetryDelays,
  MaxNow,     \* as in Outbox
  Gateways,   \* whether the service has a gateway: a subset of BOOLEAN
  MaxSends,   \* bound: the requests sent for a key
  Steady,     \* the tabs that are kept going, for liveness
  MaxStops    \* bound: the stops of the bridge and its store's failures

VARIABLES
  now, events, outbox, pc, batchNow, due, cur, attempt, sent, refused,
  takenOver,  \* as in Outbox
  request,    \* how far the n-th request for each key has come
  awaits,     \* the request a processor waits for: its number for cur, or 0
  gateway,    \* whether the bridge has an admission gateway
  seen,       \* keys in the gateway's replay cache
  records,    \* keys of the records in the bridge's store
  stored,     \* history: keys the bridge has stored at any time
  stops       \* stops of the bridge and failures so far

client == <<now, events, outbox, pc, batchNow, due, cur, attempt, sent, refused, takenOver>>
bridge == <<gateway, seen, records, stored, stops>>
vars == <<client, request, awaits, bridge>>

O == INSTANCE Outbox WITH accepted <- stored

Requests == Keys \X (1..MaxSends)
Answers == {"confirmed", "rejected", "error"}
Stages == {"unsent", "sent", "admitted"} \cup Answers

ASSUME DeliveryAssumption ==
  /\ NoKey \notin Keys
  /\ BatchSize \in Nat \ {0}
  /\ MaxAttempts \in Nat \ {0}
  /\ ClaimTimeout \in Nat
  /\ RetryDelays \subseteq Nat
  /\ MaxNow \in Nat
  /\ Gateways \subseteq BOOLEAN
  /\ MaxSends \in Nat
  /\ Steady \subseteq Procs
  /\ MaxStops \in Nat

Init ==
  /\ now = 0
  /\ events = {}
  /\ outbox = [k \in Keys |-> O!Absent]
  /\ pc = [p \in Procs |-> "idle"]
  /\ batchNow = [p \in Procs |-> 0]
  /\ due = [p \in Procs |-> <<>>]
  /\ cur = [p \in Procs |-> NoKey]
  /\ attempt = [p \in Procs |-> 0]
  /\ sent = [k \in Keys |-> 0]
  /\ refused = {}
  /\ takenOver = {}
  /\ request = [r \in Requests |-> "unsent"]
  /\ awaits = [p \in Procs |-> 0]
  /\ gateway \in Gateways
  /\ seen = {}
  /\ records = {}
  /\ stored = {}
  /\ stops = 0

-----------------------------------------------------------------------------
(* The client: the steps of Outbox that ask nothing of the bridge.         *)

LoopStep(p) ==
  \/ O!RecoverStaleOutboxClaims(p) \/ O!ListDueOutbox(p)
  \/ O!ClaimOutboxEntry(p) \/ O!SkipEntry(p) \/ O!GetSignedEventMissing(p)
  \/ O!MarkOutboxConfirmed(p) \/ O!MarkOutboxFailed(p) \/ O!ScheduleOutboxRetry(p)

Application(k) == O!PutSignedEvent(k) \/ O!EnqueueOutbox(k)

ClientStep ==
  /\ UNCHANGED <<request, awaits, bridge>>
  /\ \/ O!Tick
     \/ \E k \in Keys : Application(k)
     \/ \E p \in Procs : LoopStep(p)

Send(p) ==
  /\ UNCHANGED bridge
  /\ pc[p] = "loading"
  /\ sent[cur[p]] < MaxSends
  /\ O!GetSignedEventAndSend(p)
  /\ request' = [request EXCEPT ![<<cur[p], sent[cur[p]] + 1>>] = "sent"]
  /\ awaits' = [awaits EXCEPT ![p] = sent[cur[p]] + 1]

\* The answer that has come back to p.
Answer(p) == request[<<cur[p], awaits[p]>>]

\* pc moves on with what the answer says; final says that it is a refusal.
Receive(p, next, final) ==
  /\ UNCHANGED <<request, bridge>>
  /\ pc' = [pc EXCEPT ![p] = next]
  /\ awaits' = [awaits EXCEPT ![p] = 0]
  /\ refused' = IF final THEN refused \cup {cur[p]} ELSE refused
  /\ UNCHANGED <<now, events, outbox, batchNow, due, cur, attempt, sent, takenOver>>

\* 200 or 202 with a valid body.
ReceiveConfirmed(p) ==
  /\ pc[p] = "sending"
  /\ Answer(p) = "confirmed"
  /\ Receive(p, "confirm", FALSE)

\* 422, the status of every rejection: NonRetryableOutboxError.
ReceiveRejected(p) ==
  /\ pc[p] = "sending"
  /\ Answer(p) = "rejected"
  /\ Receive(p, "fail", TRUE)

\* 500, a lost connection, or no answer within the transport's timeout,
\* wherever the request is by then.
ReceiveNothing(p) ==
  /\ pc[p] = "sending"
  /\ Receive(p, O!OutcomeOfError(attempt[p]), FALSE)

Crash(p) ==
  /\ UNCHANGED <<request, bridge>>
  /\ O!Crash(p)
  /\ awaits' = [awaits EXCEPT ![p] = 0]

-----------------------------------------------------------------------------
(* The bridge: acceptDelivery.                                             *)

Reaches(r, stage) == request' = [request EXCEPT ![r] = stage]

\* No gateway, or a key that it has not seen and no later check refuses.
Admit(r) ==
  /\ UNCHANGED <<client, awaits, gateway, records, stored, stops>>
  /\ request[r] = "sent"
  /\ gateway => r[1] \notin seen
  /\ seen' = IF gateway THEN seen \cup {r[1]} ELSE seen
  /\ Reaches(r, "admitted")

\* drop-duplicate, or a refusal by a later check (scope, kind, size,
\* quarantine, rate limit, policy label, user block): the key is in the
\* replay cache in each case.
Reject(r) ==
  /\ UNCHANGED <<client, awaits, gateway, records, stored, stops>>
  /\ request[r] = "sent"
  /\ gateway
  /\ seen' = seen \cup {r[1]}
  /\ Reaches(r, "rejected")

\* The state of the gateway cannot be saved.
SaveFails(r) ==
  /\ UNCHANGED <<client, awaits, gateway, seen, records, stored>>
  /\ request[r] = "sent"
  /\ gateway
  /\ stops < MaxStops
  /\ stops' = stops + 1
  /\ Reaches(r, "rejected")

\* Faulty variant: a delivery is confirmed before the store has it.
StoredLate(r) == stored

Stored(r) == stored \cup {r[1]}

\* The record is inserted, or one with the key exists: a duplicate.
Store(r) ==
  /\ UNCHANGED <<client, awaits, gateway, seen, stops>>
  /\ request[r] = "admitted"
  /\ records' = records \cup {r[1]}
  /\ stored' = Stored(r)
  /\ Reaches(r, "confirmed")

StoreFails(r) ==
  /\ UNCHANGED <<client, awaits, gateway, seen, records, stored>>
  /\ request[r] = "admitted"
  /\ stops < MaxStops
  /\ stops' = stops + 1
  /\ Reaches(r, "error")

\* The process stops: what it was handling is cut off.  The gateway starts
\* with what it had saved, or with nothing when it has no state store.
Restart ==
  /\ UNCHANGED <<client, awaits, gateway, records, stored>>
  /\ stops < MaxStops
  /\ stops' = stops + 1
  /\ request' = [r \in Requests |-> IF request[r] = "admitted" THEN "error" ELSE request[r]]
  /\ seen' \in {seen, {}}

\* A record expires or makes room for a later one.
Forget(k) ==
  /\ UNCHANGED <<client, request, awaits, gateway, seen, stored, stops>>
  /\ k \in records
  /\ records' = records \ {k}

Handle(r) == Admit(r) \/ Reject(r) \/ SaveFails(r) \/ Store(r) \/ StoreFails(r)

ReceiveAnswer(p) == ReceiveConfirmed(p) \/ ReceiveRejected(p) \/ ReceiveNothing(p)

Next ==
  \/ ClientStep
  \/ \E p \in Procs : Send(p) \/ ReceiveAnswer(p) \/ Crash(p)
  \/ \E r \in Requests : Handle(r)
  \/ \E k \in Keys : Forget(k)
  \/ Restart

Spec == Init /\ [][Next]_vars

-----------------------------------------------------------------------------
(* Fairness.  A loop that runs keeps running, and its request always ends: *)
(* the transport aborts it after its timeout.  Batches keep being started  *)
(* in the steady tabs (their user keeps asking for delivery); another tab  *)
(* may stop anywhere.  Crashes and restarts may happen for ever, but not   *)
(* always at the same point of the loop: hence strong fairness of each     *)
(* kind of step.  Nothing is assumed of the bridge.                        *)

Settles(p) == O!MarkOutboxConfirmed(p) \/ O!MarkOutboxFailed(p) \/ O!ScheduleOutboxRetry(p)

Fairness ==
  /\ WF_vars(O!Tick /\ ClientStep)
  /\ \A p \in Steady :
       /\ SF_vars(O!RecoverStaleOutboxClaims(p) /\ ClientStep)
       /\ SF_vars(O!ListDueOutbox(p) /\ ClientStep)
       /\ SF_vars((O!ClaimOutboxEntry(p) \/ O!SkipEntry(p)) /\ ClientStep)
       /\ SF_vars(Send(p) \/ (O!GetSignedEventMissing(p) /\ ClientStep))
       /\ SF_vars(ReceiveAnswer(p))
       /\ SF_vars(Settles(p) /\ ClientStep)

LiveSpec == Spec /\ Fairness

-----------------------------------------------------------------------------
(* Properties.                                                             *)

DeliveryTypeOK ==
  /\ O!TypeOK
  /\ request \in [Requests -> Stages]
  /\ awaits \in [Procs -> 0..MaxSends]
  /\ gateway \in BOOLEAN
  /\ seen \subseteq Keys
  /\ records \subseteq stored
  /\ stops \in 0..MaxStops
  /\ \A p \in Procs : pc[p] = "sending" =>
       awaits[p] > 0 /\ request[<<cur[p], awaits[p]>>] # "unsent"

\* The whole of it implements the outbox over a bridge that is only a set of
\* accepted keys: a loop never moves to an outcome that the outbox does not
\* allow, whatever the order of requests, answers, timeouts and restarts.
OutboxSpec == O!Spec

\* Without a gateway, an entry is reported failed although the bridge took its
\* event only when all its attempts are used up; entries recovered from
\* a loop that still held them are excepted as in Outbox.
FailedThoughStored ==
  \A k \in Keys \ takenOver :
    outbox[k].status = "failed" /\ k \in stored
      => gateway \/ outbox[k].retryCount + 1 >= MaxAttempts

\* The clock of a run stops: an entry is beyond it that becomes due, or whose claim
\* becomes stale, only after its last tick.
BeyondClock(k) ==
  \/ outbox[k].status = "pending" /\ outbox[k].nextRetryAt > MaxNow
  \/ outbox[k].status = "syncing" /\ outbox[k].updatedAt + ClaimTimeout > MaxNow

\* Everything enqueued ends confirmed or failed for good, whatever happens to requests,
\* answers, the bridge and the other tabs, through as many retries and recoveries as the
\* clock has ticks for.  Excused is only what ends up beyond the clock and stays there.
EveryEntrySettles ==
  \A k \in Keys : <>[](outbox[k].status \in O!Settled \cup {"absent"} \/ BeyondClock(k))

\* Every entry settles, and what it settles on is what became of it: both at once, for
\* a loop that gives up early settles everything.
SettlesTruly == EveryEntrySettles /\ []FailedThoughStored

\* "duplicate deliveries must remain idempotent"
\* (docs/threat-model/bridge-resilience-review.md): a delivery that the bridge
\* already has a record of is not rejected.
DuplicatesAreIdempotent ==
  [][\A r \in Requests :
       request[r] # "rejected" /\ request'[r] = "rejected" => r[1] \notin records]_vars
=============================================================================
