------------------------------- MODULE Outbox -------------------------------
(***************************************************************************)
(* The mutation outbox of a local-first client: the IndexedDB table of     *)
(* packages/local-store/src/index.ts and the delivery loop                 *)
(* processOutboxBatch of packages/sync-client/src/index.ts.                *)
(*                                                                         *)
(* Several processors run the loop on the same database: each browser tab  *)
(* has its own delivery controller, and only the table is shared.  Every   *)
(* store call is one IndexedDB transaction, hence one action; between two  *)
(* calls the loop awaits, and any other processor, the clock, the bridge   *)
(* or a crash may intervene.                                               *)
(*                                                                         *)
(* The bridge is seen here through the answers the transport can return.   *)
(* It may take a request at any time after it was sent, whether or not its *)
(* answer reaches the client.                                              *)
(***************************************************************************)
EXTENDS Naturals, Sequences, FiniteSets, Functions

CONSTANTS
  Keys,          \* idempotency keys; each names one signed event
  Procs,         \* callers of processOutboxBatch sharing one database
  NoKey,         \* a processor that holds no entry
  BatchSize,     \* batchSize
  MaxAttempts,   \* maxAttempts
  ClaimTimeout,  \* claimTimeoutMs, in ticks
  RetryDelays,   \* the values computeBackoffDelayMs can return, in ticks
  MaxNow         \* bound: the last tick of the clock

ASSUME OutboxAssumption ==
  /\ NoKey \notin Keys
  /\ BatchSize \in Nat \ {0}
  /\ MaxAttempts \in Nat \ {0}
  /\ ClaimTimeout \in Nat
  /\ RetryDelays \subseteq Nat
  /\ MaxNow \in Nat

VARIABLES
  now,        \* wall clock
  events,     \* keys whose signed event is in the signedEvents table
  outbox,     \* the mutationOutbox table
  pc,         \* where each processor's loop is
  batchNow,   \* now, read when its batch started
  due,        \* the candidates it has left
  cur,        \* the entry it claimed, or NoKey
  attempt,    \* claimed.retryCount
  accepted,   \* keys the bridge has accepted a delivery of
  sent,       \* history: requests sent for each key
  refused,    \* history: keys with a final refusal or no event to send
  takenOver   \* history: keys recovered while a processor still held them

store == <<events, outbox>>
locals == <<batchNow, due, cur, attempt>>
history == <<sent, refused, takenOver>>
vars == <<now, events, outbox, pc, batchNow, due, cur, attempt,
          accepted, sent, refused, takenOver>>

OutboxStatus == {"pending", "syncing", "confirmed", "failed", "conflicted"}
Settled == {"confirmed", "failed", "conflicted"}

\* A row of the table; "absent" stands for a key that has no row.
MutationOutboxEntry ==
  [status: OutboxStatus \cup {"absent"}, retryCount: Nat,
   nextRetryAt: Nat, updatedAt: Nat]

\* Where a loop is.  From "loading" on it holds the entry it claimed, and
\* from "confirm" on it knows the outcome and is about to write it.
HoldingPC == {"loading", "sending", "confirm", "conflict", "fail", "retry"}
PC == {"idle", "listing", "claiming"} \cup HoldingPC

\* Processor p has claimed k and has not written an outcome for it yet.
Holds(p, k) == pc[p] \in HoldingPC /\ cur[p] = k

\* Where the loop is with the candidates of rest to go: at the next one, or
\* at its end.
Resume(rest) == IF rest = <<>> THEN "idle" ELSE "claiming"

NextEntry(p, rest) ==
  /\ pc' = [pc EXCEPT ![p] = Resume(rest)]
  /\ due' = [due EXCEPT ![p] = rest]
  /\ cur' = [cur EXCEPT ![p] = NoKey]
  /\ attempt' = [attempt EXCEPT ![p] = 0]
  /\ batchNow' = [batchNow EXCEPT ![p] = IF rest = <<>> THEN 0 ELSE @]

Absent == [status |-> "absent", retryCount |-> 0, nextRetryAt |-> 0, updatedAt |-> 0]

Init ==
  /\ now = 0
  /\ events = {}
  /\ outbox = [k \in Keys |-> Absent]
  /\ pc = [p \in Procs |-> "idle"]
  /\ batchNow = [p \in Procs |-> 0]
  /\ due = [p \in Procs |-> <<>>]
  /\ cur = [p \in Procs |-> NoKey]
  /\ attempt = [p \in Procs |-> 0]
  /\ accepted = {}
  /\ sent = [k \in Keys |-> 0]
  /\ refused = {}
  /\ takenOver = {}

-----------------------------------------------------------------------------
(* The application writes an event and queues it.                          *)

PutSignedEvent(k) ==
  /\ k \notin events
  /\ events' = events \cup {k}
  /\ UNCHANGED <<now, outbox, pc, locals, accepted, history>>

\* Keys are random UUIDs, so a key is enqueued once.  The store does not ask
\* for the event to be there.
EnqueueOutbox(k) ==
  /\ outbox[k].status = "absent"
  /\ outbox' = [outbox EXCEPT ![k] =
       [status |-> "pending", retryCount |-> 0, nextRetryAt |-> now, updatedAt |-> now]]
  /\ UNCHANGED <<now, events, pc, locals, accepted, history>>

-----------------------------------------------------------------------------
(* Starting a batch: read the clock and put abandoned claims back.         *)

\* Faulty variant: the times are compared the wrong way round.
StaleClaimsSwapped(t) ==
  {k \in Keys : outbox[k].status = "syncing" /\ t + ClaimTimeout <= outbox[k].updatedAt}

StaleClaims(t) ==
  {k \in Keys : outbox[k].status = "syncing" /\ outbox[k].updatedAt + ClaimTimeout <= t}

\* Faulty variant: a recovered claim does not count as an attempt.
RecoveredWithoutCount(e, t) ==
  [e EXCEPT !.status = "pending", !.nextRetryAt = t, !.updatedAt = t]

Recovered(e, t) ==
  [status |-> "pending", retryCount |-> e.retryCount + 1,
   nextRetryAt |-> t, updatedAt |-> t]

\* recoverStaleOutboxClaims takes at most BatchSize entries, in index order.
RecoverStaleOutboxClaims(p) ==
  /\ pc[p] = "idle"
  /\ \E R \in SUBSET StaleClaims(now) :
       /\ Cardinality(R) <= BatchSize
       /\ R = StaleClaims(now) \/ Cardinality(R) = BatchSize
       /\ outbox' = [k \in Keys |-> IF k \in R THEN Recovered(outbox[k], now) ELSE outbox[k]]
       /\ takenOver' = takenOver \cup {k \in R : \E q \in Procs : Holds(q, k)}
  /\ pc' = [pc EXCEPT ![p] = "listing"]
  /\ batchNow' = [batchNow EXCEPT ![p] = now]
  /\ UNCHANGED <<now, events, due, cur, attempt, accepted, sent, refused>>

DueKeys(t) == {k \in Keys : outbox[k].status = "pending" /\ outbox[k].nextRetryAt <= t}

\* s holds the first BatchSize due keys in the order of the
\* [status+nextRetryAt] index; keys that are due at the same time are in
\* either order.
IsDueList(s, t) ==
  /\ IsInjective(s)
  /\ \A i, j \in DOMAIN s : i < j => outbox[s[i]].nextRetryAt <= outbox[s[j]].nextRetryAt
  /\ \A k \in DueKeys(t) \ Range(s) :
       /\ Len(s) = BatchSize
       /\ \A i \in DOMAIN s : outbox[s[i]].nextRetryAt <= outbox[k].nextRetryAt

ListDueOutbox(p) ==
  /\ pc[p] = "listing"
  /\ \E n \in 0..BatchSize : \E s \in [1..n -> DueKeys(batchNow[p])] :
       /\ IsDueList(s, batchNow[p])
       /\ NextEntry(p, s)
  /\ UNCHANGED <<now, store, accepted, history>>

-----------------------------------------------------------------------------
(* One turn of the loop.                                                   *)

\* Faulty variant: a candidate is claimed without looking at its status.
ClaimableWhateverItsStatus(k) == outbox[k].status # "absent"

Claimable(k) == outbox[k].status = "pending"

\* The claim is stamped with the time the batch started.  An entry whose
\* budget is spent is claimed and then marked failed without being sent.
ClaimOutboxEntry(p) ==
  /\ pc[p] = "claiming"
  /\ LET k == Head(due[p])
         e == outbox[k]
     IN /\ Claimable(k)
        /\ outbox' = [outbox EXCEPT ![k] =
             [e EXCEPT !.status = "syncing", !.updatedAt = batchNow[p]]]
        /\ pc' = [pc EXCEPT ![p] =
             IF e.retryCount >= MaxAttempts THEN "fail" ELSE "loading"]
        /\ cur' = [cur EXCEPT ![p] = k]
        /\ attempt' = [attempt EXCEPT ![p] = e.retryCount]
  /\ due' = [due EXCEPT ![p] = Tail(@)]
  /\ UNCHANGED <<now, events, batchNow, accepted, history>>

\* Another processor got the candidate first: result.skipped.
SkipEntry(p) ==
  /\ pc[p] = "claiming"
  /\ ~Claimable(Head(due[p]))
  /\ NextEntry(p, Tail(due[p]))
  /\ UNCHANGED <<now, store, accepted, history>>

GetSignedEventAndSend(p) ==
  /\ pc[p] = "loading"
  /\ cur[p] \in events
  /\ pc' = [pc EXCEPT ![p] = "sending"]
  /\ sent' = [sent EXCEPT ![cur[p]] = @ + 1]
  /\ UNCHANGED <<now, store, locals, accepted, refused, takenOver>>

GetSignedEventMissing(p) ==
  /\ pc[p] = "loading"
  /\ cur[p] \notin events
  /\ pc' = [pc EXCEPT ![p] = "fail"]
  /\ refused' = refused \cup {cur[p]}
  /\ UNCHANGED <<now, store, locals, accepted, sent, takenOver>>

-----------------------------------------------------------------------------
(* The transport's answer: mapBridgeHttpResponse and the catch block.      *)

\* Faulty variant: a 2xx answer without a valid body counts as confirmed.
AnyAnswerConfirms(k) == TRUE

\* Only a well-formed confirmation of the bridge confirms.
AnswerConfirms(k) == k \in accepted

AnswerConfirmed(p) ==
  /\ pc[p] = "sending"
  /\ AnswerConfirms(cur[p])
  /\ pc' = [pc EXCEPT ![p] = "confirm"]
  /\ UNCHANGED <<now, store, locals, accepted, history>>

\* HTTP 409, or a body saying the key belongs to another event.
AnswerConflicted(p) ==
  /\ pc[p] = "sending"
  /\ pc' = [pc EXCEPT ![p] = "conflict"]
  /\ refused' = refused \cup {cur[p]}
  /\ UNCHANGED <<now, store, locals, accepted, sent, takenOver>>

\* HTTP 400, 401, 403, 404, 413 or 422, or a body with status rejected.
AnswerNonRetryable(p) ==
  /\ pc[p] = "sending"
  /\ pc' = [pc EXCEPT ![p] = "fail"]
  /\ refused' = refused \cup {cur[p]}
  /\ UNCHANGED <<now, store, locals, accepted, sent, takenOver>>

OutcomeOfError(n) == IF n + 1 >= MaxAttempts THEN "fail" ELSE "retry"

\* Timeout, network error, another HTTP status, or an unusable 2xx body.  The
\* bridge may or may not have taken the request.
AnswerRetryable(p) ==
  /\ pc[p] = "sending"
  /\ pc' = [pc EXCEPT ![p] = OutcomeOfError(attempt[p])]
  /\ UNCHANGED <<now, store, locals, accepted, history>>

-----------------------------------------------------------------------------
(* Writing the outcome.  None of the four store calls looks at the entry's *)
(* status or at who claimed it.                                            *)

UpdateOutboxStatus(p, status) ==
  /\ outbox' = [outbox EXCEPT ![cur[p]] =
       [@ EXCEPT !.status = status, !.updatedAt = batchNow[p]]]
  /\ NextEntry(p, due[p])
  /\ UNCHANGED <<now, events, accepted, history>>

MarkOutboxConfirmed(p) == pc[p] = "confirm" /\ UpdateOutboxStatus(p, "confirmed")
MarkOutboxConflicted(p) == pc[p] = "conflict" /\ UpdateOutboxStatus(p, "conflicted")
MarkOutboxFailed(p) == pc[p] = "fail" /\ UpdateOutboxStatus(p, "failed")

\* The count written is the one read at the claim, plus one.
ScheduleOutboxRetry(p) ==
  /\ pc[p] = "retry"
  /\ \E d \in RetryDelays :
       outbox' = [outbox EXCEPT ![cur[p]] =
         [status |-> "pending", retryCount |-> attempt[p] + 1,
          nextRetryAt |-> batchNow[p] + d, updatedAt |-> batchNow[p]]]
  /\ NextEntry(p, due[p])
  /\ UNCHANGED <<now, events, accepted, history>>

-----------------------------------------------------------------------------
(* The rest of the world.                                                  *)

\* The tab closes, or a store transaction rejects and processOutboxBatch with
\* it.  The table survives, the claim stays, and no one awaits the answer.
Crash(p) ==
  /\ pc[p] # "idle"
  /\ NextEntry(p, <<>>)
  /\ UNCHANGED <<now, store, accepted, history>>

\* A request reaches the bridge, however late.
BridgeAccepts(k) ==
  /\ sent[k] > 0
  /\ k \notin accepted
  /\ accepted' = accepted \cup {k}
  /\ UNCHANGED <<now, store, pc, locals, history>>

Tick ==
  /\ now < MaxNow
  /\ now' = now + 1
  /\ UNCHANGED <<store, pc, locals, accepted, history>>

LoopStep(p) ==
  \/ ListDueOutbox(p) \/ ClaimOutboxEntry(p) \/ SkipEntry(p)
  \/ GetSignedEventAndSend(p) \/ GetSignedEventMissing(p)
  \/ MarkOutboxConfirmed(p) \/ MarkOutboxConflicted(p)
  \/ MarkOutboxFailed(p) \/ ScheduleOutboxRetry(p)

Answer(p) ==
  AnswerConfirmed(p) \/ AnswerConflicted(p) \/ AnswerNonRetryable(p) \/ AnswerRetryable(p)

ProcStep(p) == RecoverStaleOutboxClaims(p) \/ LoopStep(p) \/ Answer(p)

Next ==
  \/ \E k \in Keys : PutSignedEvent(k) \/ EnqueueOutbox(k) \/ BridgeAccepts(k)
  \/ \E p \in Procs : ProcStep(p) \/ Crash(p)
  \/ Tick

Spec == Init /\ [][Next]_vars

-----------------------------------------------------------------------------
(* Properties.                                                             *)

TypeOK ==
  /\ now \in Nat
  /\ events \subseteq Keys
  /\ outbox \in [Keys -> MutationOutboxEntry]
  /\ pc \in [Procs -> PC]
  /\ batchNow \in [Procs -> Nat]
  /\ due \in [Procs -> Seq(Keys)]
  /\ cur \in [Procs -> Keys \cup {NoKey}]
  /\ attempt \in [Procs -> Nat]
  /\ accepted \subseteq Keys
  /\ sent \in [Keys -> Nat]
  /\ refused \subseteq Keys
  /\ takenOver \subseteq Keys
  /\ \A p \in Procs : pc[p] \in HoldingPC => cur[p] \in Keys
  /\ \A p \in Procs : pc[p] = "claiming" => due[p] # <<>>

\* An entry is reported confirmed only if the bridge did accept its event,
\* whatever was lost, retried, recovered or overwritten in between.
ConfirmedWasAccepted == \A k \in Keys : outbox[k].status = "confirmed" => k \in accepted

\* Two loops never work on one entry at the same time, and the row carries
\* the working loop's own claim, unless recovery once took the entry from a
\* loop that was still working on it.
ExclusiveClaim ==
  \A k \in Keys \ takenOver : \A p \in Procs : Holds(p, k) =>
    /\ outbox[k].status = "syncing"
    /\ outbox[k].retryCount = attempt[p]
    /\ outbox[k].updatedAt = batchNow[p]
    /\ \A q \in Procs \ {p} : ~Holds(q, k)

\* An entry is sent at most maxAttempts times in its life, over all batches,
\* tabs, crashes and recoveries, with the same exception.
RetryBudget == \A k \in Keys \ takenOver : sent[k] <= MaxAttempts

\* An entry ends as failed only after a final refusal (or for want of its
\* event), or when its attempts, abandoned ones included, are used up.
FailedForAReason ==
  \A k \in Keys \ takenOver :
    outbox[k].status = "failed" => k \in refused \/ outbox[k].retryCount + 1 >= MaxAttempts

\* Nothing is given up early and nothing is tried for ever: however tabs stop, recover
\* claims and answer late, an entry is sent no more often than its budget allows, and
\* one that has failed has used it up or was refused for good.
AttemptsAreAccounted == RetryBudget /\ FailedForAReason

\* A confirmed, failed or conflicted entry is never touched or sent again,
\* with the same exception.
SettledIsFinal ==
  [][\A k \in Keys \ takenOver : outbox[k].status \in Settled =>
       outbox'[k] = outbox[k] /\ sent'[k] = sent[k]]_vars

\* An entry is taken from a working loop only when that loop's batch began at
\* least claimTimeoutMs ago.
TakeoverOnlyAfterTimeout ==
  [][\A k \in takenOver' \ takenOver :
       \E p \in Procs : Holds(p, k) /\ batchNow[p] + ClaimTimeout <= now]_vars

\* "stale responses must not update newer local state"
\* (docs/threat-model/bridge-resilience-review.md): the outcome of an attempt
\* older than the one the row has been confirmed for leaves the row confirmed.
StaleResponsesKeepNewerState ==
  [][\A p \in Procs, k \in Keys :
       /\ Holds(p, k) /\ pc'[p] # pc[p]
       /\ outbox[k].status = "confirmed" /\ attempt[p] < outbox[k].retryCount
       => outbox'[k].status = "confirmed"]_vars
=============================================================================
