# Formal models of the local-first P2P app

TLA+ models of the parts of this repository where processes, storage, messages
and failures interleave, or where a decision follows from a log of events that
arrive in any order: the client's outbox, inbound sync, projections and keys; the
bridge with its admission, stores, streams, limits and tokens; groups, routes and
threads; capabilities and their proofs; trust and safety. TLC checks the models
on small instances. For every instance TLAPS proves what section 5 lists: the
outbox and its implementation by the delivery path, the bridge with its stores,
streams, tokens and limits, admission, the inbound sync, the mailbox, the device's
identity and budget, MLS keys and forks, block sources, capabilities and their
proofs, the cases that reports make, and what the user is shown.

## 1. The system

A client keeps signed events in IndexedDB and works offline. What is meant for
others goes through an outbox to a bridge, a small HTTP service with a bounded
store; other clients read the bridge's streams after a cursor, by polling or
over a socket, verify what they get and fold it into projections.

| Component | State | Operations | Interacts by | What is hard |
| --- | --- | --- | --- | --- |
| Mutation outbox (`local-store`, `sync-client`) | `mutationOutbox`, `signedEvents`; a loop per tab | enqueue, recover, list, claim, send, mark, retry | shared table, HTTP | several tabs, lost answers, crashes, stale claims |
| Foreground sync, delivery gate, send budget (`sync-client`, `pwa`) | running flag, back-off, counters of a window | request, reserve, refund | callbacks | overlapping triggers, refunds after errors, clocks set back |
| Bridge delivery and stores (`bridge-service`) | JSON file and its copy, or SQL rows; sequence counter | `acceptDelivery`, `readInboundRecords`, prune | promises behind a lock, transactions | two awaits per delivery, failed writes, restarts, capacity, expiry |
| Transport admission (`admission-gateway`, `trust-safety`) | replay cache, buckets, scores, quarantines, state file | admit, save, load, advise | called by `acceptDelivery` | concurrent saves in one temp file, retries taken for replays |
| HTTP front (`http-hardening`, `token-registry`) | buckets, tokens and their files | authenticate, limit, flush, add, revoke | HTTP, timers | saves that overtake each other, restarts |
| Durable streams (`stream-broker`, `stream-socket`) | subscriptions and buffers, adapter state | subscribe, backlog, go live, publish, close | callbacks, sockets | publishes during the backlog read, overflow, breaks |
| Inbound sync (`sync-client`, `local-store`) | checkpoints, event table, projections | pull, verify, store with checkpoint, dispatch | transactions | stop between storing and projecting, overlapping pulls, bad records |
| Mailbox, user data root, MLS groups, threads, routes | event logs and projections | append, fold, rebuild, sweep | transactions, key callbacks | order of arrival, late keys, rebuild against append, forks |
| Identity, devices and their keys (`identity`, `pwa`, verifiers) | control log, projection, keys, proof registry | authorize, revoke, rotate, verify, heal | transactions, several tabs | order of arrival against order of dates, cached verdicts, tabs |
| Events and sealed mail (`protocol`, `crypto`, `envelope`, `private-payload`) | - | check, seal, open | calls | recipients that change while an event is made |
| MLS provider, block store | group states, key packages; breakers | commit, join, process; get block | locks, promises | joins beside other calls, calls lost between writes, probes |
| Capabilities and proofs (`capabilities`, five verifiers) | grants, graph, records, rows | grant, revoke, walk a chain, cache, rely | calls, rows | inheritance along chains, cached state after a restart |
| Trust and safety | local logs and projections | append, fold, import, rank | calls | order of arrival, repeats, closed cases, scores of strangers |
| Search, UI, shells, platform, adapters | - | render, index | calls | outside of what is modelled |

`PROJECT.json` lists every component with its status, and every hazard with its
line and the properties that cover it.

What makes the components correct: an outbox entry has one sender at a time, is
sent a bounded number of times, is reported confirmed only if the bridge has it
and always settles; the bridge gives one answer per idempotency key, never gives a
record a number that its file has held before and keeps what it has confirmed; a reader's cursor
never passes over a record; a projection is a function of the events stored,
whatever order and however often they came; a revocation holds from when it is
known, and nobody passes on more than was given; a key is used once and by one
identity; and what is private stays with its parties.

## 2. Modules

One action is whatever lies between two awaits: an IndexedDB transaction, an
operation of a store behind its lock, a synchronous decision. Each module has a
type invariant (`...TypeOK`); the composite modules join those of their parts.
"History" variables are read by properties only. Every definition that stands
for code is in the `map` of `PROJECT.json` with its file and lines.

### The way out: Outbox, SendBudget, Delivery

**Outbox** is the table and the loop `processOutboxBatch` of several tabs.
`outbox[k]` is the row of an idempotency key, `events` the keys whose signed event
is stored; `pc`, `batchNow`, `due`, `cur`, `attempt` are a loop's locals.
`RecoverStaleOutboxClaims`, `ListDueOutbox`, `ClaimOutboxEntry`, `SkipEntry`,
`GetSignedEventAndSend`, `GetSignedEventMissing`, the four `Answer...`s,
`MarkOutbox...` and `ScheduleOutboxRetry` are the loop; writes are unconditional,
as in the code. The bridge is the set `accepted`: a request may be accepted at any
time after it was sent, whether or not its answer is ever seen. `Crash` is a tab
that closes or a store call that rejects. `takenOver` (history) holds the keys
recovered from a loop that was still working on them. The code allows that, for a
claim's age is that of its batch, and then promises little; the safety properties
exempt such keys, a theorem says when it may happen at all, and the run
`outbox_stale` shows what it can do.

**SendBudget** is what lets a batch out: the running flag and back-off of the
foreground sync, the delivery gate and the budget of a window. `BudgetAccounts`:
the counters are what was attempted, what was lost to rejected batches and what
the current run holds, whatever the clock does meanwhile. A run loads the local state
before its delivery and after it (`Delivered`, `ReloadEnds`), and either may fail
(`LoadRejects`).

**Delivery** puts the bridge in the place of Outbox's set: requests that outlive
the client that gave them up, the admission gateway with its replay cache, the
store, stops of the bridge, answers that are lost. `OutboxSpec` says that this
implements `Outbox` (`INSTANCE Outbox WITH accepted <- stored`); `SettlesTruly`
says that every entry settles for good, and on what became of it.

### The bridge: BridgeService, RecordStore, SqlStore, DurableStream, Admission, RateLimit, HttpFront, TokenRegistry

**BridgeService** is `acceptDelivery` and `readInboundRecords` over
`JsonFileBridgeStore`. `file` is what the file holds, `cache` the copy in memory,
`boot` the process's `initialSequence`. A request keeps in `at` the clock it came
in with. `PutFails` is a write that rejects after the copy was set,
`RestartAfterPut` a stop between the rename and the answer. `confirmed`, `read`,
`phantoms` (put in the copy by a write that failed) and `written` (put in the file, ever)
are histories. `SequencesNameRecords` compares each new number with all of `written`, so
also with those of records that have expired or were shifted out. Records are a set:
their order in the code's list is that of their numbers.

**RecordStore** is what a record store promises, as the in-memory store does it:
every operation is one step. **SqlStore** is the SQL store statement by statement,
with the chain of promises in front of it, transactions, failures of any
statement, and restarts; `SqlImplementsStore` is the refinement
(`kept <- records`, `latest <-` the row of the sequence).

**DurableStream** is one stream, one client and its connections, one after
another. `handleSubscribe` awaits the store once, so it is `HandleSubscribe`,
`ReadBacklog`, and the continuation: `GoLive`, `BacklogNotSent` or
`AbandonBacklog`. All reasons to close a socket are `CloseSocket`. The client is
external: it takes frames in order and keeps the cursor of the last one, as the
header of `stream-socket.ts` says. `LiveStreamIsWhole` joins what the handshake
must not do: lose, repeat, or go live without a subscription.

**Admission** is the gateway, the decision engine and the state file: a decision
is one step, and its save another three, in one temporary file that handlings
share. The action `Load` of a torn file starts the gateway afresh, as the code
does. `OneAtATimeIsSafe` says what holds as long as callers keep to the one
request at a time that the gateway's comment asks for; `QuarantineHolds` also
speaks of overlaps. **RateLimit** is the token bucket that Admission and HttpFront
share. **HttpFront** has the checks before the service, the limiter and its
flushes; **TokenRegistry** the tokens, their file, and saves that overlap
(`overtaken`).

### The way in: StreamReader, InboundSync

**InboundSync** is `pullAndProcessInboundSyncBatch` and `processInboundSyncBatch`
for one checkpoint key and several tabs over `checkpoint`, `stored` and `control`.
`PutSignedEventWithSyncCheckpoint` is the transaction that stores event, checkpoint
and control projection together; `RejectRecord` breaks a batch off; `Dispatch`
follows a fresh event; `Stop` is a tab that closes at any await. The source is
external: it publishes, drops, and answers a pull with a page without gaps; an
event may come as several records. **StreamReader** is what this is meant to be:
one reader that takes the next record that is still there, each number once.
`ReaderSpec` says that the pullers together implement it.

### Projections: Mailbox, UserDataRoot, MlsGroup, ChatThread, RouteState

**Mailbox** is the mailbox of one identity in `local-store` with
`applyMailboxEvent`, one operator per kind of event. `log` and `projected` are the
event log, `rows[t]` what the tables have of an envelope. `RebuildRead` and
`RebuildWrite` are `loadMailboxInboxState`, between which events are decrypted;
`SweepInbox`, `SweepOutbox`, `SweepEnvelope`, `SweepSkips` are the expiry sweep.
`Expected` says what a log means without folding it. Logs in which an event is
dated before the queueing of its envelope (`InOrder` fails) are replayed in that
order, so that the event is lost in a rebuild although an append had kept it; the
properties say so. **UserDataRoot** has the same shape for members and the binding
of a mailbox.

**MlsGroup** is the projection of a group's controls on devices that settle forks on
their own (the one of the instance) or leave them to others: accepted, queued,
rejected, recovered. `MlsForksAreSettledByContent` compares the head with the lowest of
its rivals, as long as members alone have issued commits. `MlsEpochNeverFallsBack`
speaks of controls whose issuers count epochs (`Counted`); section 6 has its exception.
**ChatThread** folds a thread's events, **RouteState** the receipts of an envelope. Of
two messages that were sent under one id the first to arrive is kept, which
`ThreadsAgree` excepts (`SentAlike`); one of the instance's events is such a send.

### Identities and keys: DeviceIdentity, IdentityAuthority, EventEnvelope, SealedMail, MlsProvider

**DeviceIdentity** is the identity of a device in several tabs: creation, adoption,
restore and healing of its keys, and the emissions that are built from a
projection that was read before. **IdentityAuthority** has the two folds of the
control log, by arrival in the projection and by date in the verifier, and the
registry's cached verdicts that the gates ask. **EventEnvelope** has the checks an
event passes when it is made and when it is accepted, over every combination of
kind, scope and form of payload. **SealedMail** resolves recipients from
projections that lag behind, seals, delivers and opens.

**MlsProvider** is `TsMlsProvider` over its store for one group: a call loads the
state, computes the next one, saves it and only then returns; `withLock` is
`LockFree`. The MLS library is external: a state is the sequence of commits it
stands on. `joinFromWelcome` holds its key package's lock only; `mpLoose` (history)
has the devices on which a join ran beside another call or was lost after its
save, which `NoKeyIsUsedTwice` exempts.

### BlockStore

Requests for blocks over several fetchers, whose breakers they share: asking in
order of preference, retries, verification, probes, aborts.
`SourcesAreTriedAgain` says when a fetcher may be refused.

### Capabilities: Capabilities, ProofChain, ProofRegistry

**Capabilities** is the projection of grants and revocations and the delegation
graph. The projection has one place for a revocation id (`revoked`), so that a
revocation of another grant under the same id displaces the one that is there; the graph
lists all of them (`graphRevoked`). **ProofChain** the walk of the ZCAP-LD and UCAN verifiers from a leaf to its
roots, one link per step with what is carried along; **ProofRegistry** the registry
and its rows, the composed verifiers, evaluation of an invocation, the reliance
gate and credential bindings, with restarts and rows that were tampered with. A caller
may fold the states of its proofs, keep the verdict (`KeepVerdict`) and bring it to the
gate later, where it wins over the registry (`ProofsState`).

### Trust and safety: SafetyControls, SafetyLabels, SafetyCases, Reputation, CliqueSearch

The user's own controls with snapshots of another app; labels and subscriptions;
reports, appeals, the moderation queue, policies, decisions and curation; the
reputation log with the local scores, seeds, penalties and endorsements; Tarjan's
search of `sybil-hardening.ts` step by step.

### Compositions and MC modules

`Delivery` composes Outbox, gateway and store; `MCDelivery` checks it with two tabs,
with two entries, and with a bridge that stops and may have a gateway, one after
another. Parts that share no variable are checked together in one run each: `MCOutbox`
(outbox, blocks, keys), `MCBridge` (deliveries, streams, SQL, HTTP, tokens), `MCDevice`
(the client's projections, keys, budget, events and mail), `MCSafety` (admission,
controls, labels, cases, capabilities, reputation, cliques, chains, registry). The variable `part` chooses
the part that a behaviour exercises; the others stay as they began, so that state
spaces add up instead of multiplying. Some properties of these modules join those
of two parts that say the same of each (`ReplicasAgree`, `ProjectionsHeal`,
`NothingGoesBack`, `KeptByItsParties`, `ShownByTheLog`).

## 3. Runs

| Run | Instance | States | Shows |
| --- | --- | --- | --- |
| `outbox` | 2 tabs, 2 entries, batch 2, 2 attempts, clock 0..1; 2 requests, 2 fetchers; 2 devices with 2 calls, 3 commits | 1.52 million | the safety properties of the outbox; fetchers are tried again; no key is used twice |
| `outbox_stale` | 2 tabs, 1 entry, 3 attempts | counterexample | an old answer overwrites a newer confirmation |
| `delivery` | per part: 2 tabs; 2 entries in batches of 1; 1 stop, gateway or none; 2 attempts, 3 requests, clock 0..2 | 190 thousand | the delivery path implements the outbox; every entry settles for good, and truly |
| `delivery_duplicate` | the same, with a gateway | counterexample | the retry of a delivery whose answer was lost is rejected |
| `bridge` | 2 deliveries at a time for 2 keys, or 1 for 3 keys in room for 2; 2 connections, 4 records; 3 SQL operations; 2 HTTP connections; 3 changes of 2 tokens | 857 thousand | keys, numbers, confirmations, readers, streams, SQL refinement, tokens, limits |
| `bridge_durable` | 1 handler, 1 failed write | counterexample | a confirmation of what is not in the file |
| `stream_dropped` | 1 connection, 3 records, pages of 1 | counterexample | a backlog longer than its limit is lost |
| `inbound` | 2 tabs, 7 events, 2 records, pages of 2 | 50 thousand | nothing skipped, projection and table agree, one reader, every record is taken |
| `inbound_replay` | 1 tab, 2 contact cards, 3 records | counterexample | an older card that comes again becomes the current one |
| `device` | per part: 1 rebuild and 1 sweep; a device that settles forks; 1 host of the registry; 2 tabs; 3 entries of budget; every event; 4 changes of two logs; 7 receipts; 9 chat events | 621 thousand | rebuilds heal and nothing goes back, replicas agree, forks and verdicts go by content, one identity, budgets, scopes and parties |
| `mailbox_fetched` | an envelope to oneself, a receipt, a checkpoint | counterexample | the sweep expires what was fetched |
| `safety` | per part: 2 requests and 1 snapshot file; 5 to 9 events in any order (logs of 5 labels, 3 words of reputation); chains of 3 links; 2 proofs; graphs of 3 nodes | 289 thousand | admission, controls, labels, cases, delegation, chains, registry, reputation |

Why the bounds are enough for the interesting cases:

- two tabs give every race for a claim; a batch of two makes the second claim's
  time stamp old; one tick makes a claim stale, a retry due, and a record
  expire; two attempts separate a first try, a last one and a spent budget;
- in `delivery` a timeout and a delay of one tick and a clock that ticks twice let an
  entry be claimed at 0, recovered or retried at 1, and fail at 2, all before the clock
  stops; two entries compete for a batch of one;
- two requests share the breakers of two fetchers that open at the second
  failure, so that one request's late failure meets another's probe; two devices
  with two calls each and three commits give a creation, an addition and one more
  commit of either beside a join, a removal or a lost call;
- three requests, two of which share a key with different events, give duplicates
  and conflicts; more keys than there is room for make insertions evict; four
  records exceed a page of two and a buffer of two, over one connection or two;
  three statements' worth of SQL operations overlap a failure and a restart. In
  the part with overlapping deliveries a write fails only while the second key's
  request is not under way, which keeps the size within minutes;
- two of the revocations share an id and revoke different grants, a report and an appeal
  come under a known id with a new key, and a verdict may be kept over a revocation and an
  expiry;
- in the admission part two deliveries overlap before the clock reaches its bound;
- two records and two tabs give every overlap of pages, a record stored by the
  other tab, one that is gone and one that is rejected in front of another;
- the events of each projection are chosen so that each kind occurs, that two of
  them compete (two commits, two receipts of one rank, two edits, two bindings)
  and that one is malformed or foreign; they arrive in every order, late and again.

Bounds are constants of the models and guards of one action each: `MaxNow` and its
like (`MaxAdmNow`, `MaxBsNow`, `MaxSendNow`, `MaxIdNow`, `MaxCapNow`, `MaxControlNow`,
`MaxPrNow`), `MaxSequence`, `MaxFailures`, `MaxConns`, `MaxRecords`, `MaxSends`,
`MaxStops`, `MaxMoves`, `MaxMails`, `MaxCommits`, `MaxTexts`, `MaxLost`, `FreshIds`,
and the numbers of requests, upsets and changes. A reader of a cfg finds each
with its value, and what the numbers stand for in its first comment.

Six runs expect a violation. Each checks one sentence of the repository's own
documents or comments; `findings` of `PROJECT.json` quotes it and names the line.

Every property of a passing run has a mutant: a variant of one definition, next
to it in its module and marked "Faulty variant", with which TLC finds the
property violated.

## 4. Fairness

`Delivery` and `InboundSync` have a liveness property.

In `Delivery` (`LiveSpec`) the tabs of `Steady` go on: a started loop continues and
its request ends, because the transport aborts it after `timeoutMs`, and batches
keep being started. Crashes may go on for ever, but not always at the same point:
each kind of step is strongly fair. The clock ticks. Nothing is assumed of the
bridge, of answers, or of the other tabs, which may stop for good anywhere. The parts of
`MCDelivery` assume the same (`PartSpec`). `EveryEntrySettles` says that from some time on
an entry is settled for good: a passing visit does not do. It leaves out entries that end
up due, or with a claim that is stale, only after the last tick of the bounded clock.

In `InboundSync` the pullers of `Steady` are called again and again, as the
foreground sync does; each kind of their steps is strongly fair. All others may
stop for good, at a bad moment, and the source promises nothing.
`EveryRecordIsTaken` leaves out records that the source loses and those behind a
record that is rejected for ever: the code retries such a record without end and
has no way around it.

## 5. Proofs

All theorems hold for every value of the constants that satisfies the modules'
assumptions (`OutboxAssumption` and its like: limits are positive, clocks and numbers
natural, null values not data). They are listed in `PROJECT.json`.

`OutboxProofs`: types; confirmations are true; a claim is exclusive; attempts are
accounted for and failures have a reason; settled entries are final; a takeover
needs a timeout. The inductive invariant adds to the properties
`ConfirmationsAreTrue` (a loop about to write "confirmed" has heard of an
accepted event) and `BudgetAccounts` of that module (the retry count of the row
pays for every request sent, with one more while a claim is being sent). One
lemma shows that every action keeps it; the action properties follow from it and
a case split.

`DeliveryProofs`: types, and `DeliveryImplementsOutbox`: initial states map to
initial states of Outbox, and each action of Delivery to a step or a stutter. Most are
steps of Outbox by their definition; its `BridgeAccepts` is the step in which the
bridge stores the record.
Two steps need the invariant `RequestsAreReal`: the bridge has stored the event of
a request before it confirms it, and handles only what was sent. With it the
safety theorems of Outbox carry over to the delivery path.

`BridgePartsProofs`, deliveries: types and capacity; sequence numbers name records;
confirmed records are stored; the reader misses nothing; one delivery per key.
The properties alone are not inductive because reads go to the copy. The
invariant `IInv` therefore relates the copy to the file (`CopyOK`): it holds
nothing the file does not, failed writes apart; a record of the copy and another
of the file never share a key while both live; and without failed writes it
lacks nothing. `StateOK` says that the file tells records apart by key and by
number with `latestSequence` above all; `ConfirmedOK` and `ReaderOK` relate the
histories to the file. `FileWritten` is the argument for every write: what goes
is expired or no longer promised, what comes has a number above all: no record that was ever written has a number above
`latestSequence` of the file (`WrittenOK`), which never falls. Capacity
rests on `RoomIsMade`, a counting argument over the records that
`EvictedToCapacity` keeps.

`InboundSyncProofs`: types; no record is skipped; projection and table agree;
the pullers implement `StreamReader`. `NothingSkipped` is not inductive: a
puller stores what its page says, not what the source has now. The invariant
adds `PagesComplete`: between the checkpoint and a record that a page has left,
the source keeps nothing that the page has not left too. It survives another
tab's step because that only raises the checkpoint, and a rejected record
because it throws the page away. With it `PutTakesNext` shows that a put takes
the reader's next record, from which both `NothingSkipped` and the refinement
follow; every other step is a stutter or a step of the source.

`DeviceProofs`, mailbox: types; rows stay behind the log (`RowsBehindLog`); a
rebuild that missed nothing heals; rows go back by other rebuilds only. The
main lemma is `ReplayIsExpected`: the fold of any finite log, in the order of dates
and ids, is what `Expected` reads off the log without folding it. It is an induction
over the parts of the log, done by minimal counterexample: among the parts for
which it fails one is smallest, and without its last event it holds. `FoldExists`
shows that the fold the code computes exists for every finite set. The invariant adds to
`RowsBehindLog` that ids are unique in the log and that a row is backed by a queued
event of its envelope, without which a rebuild could leave half of a row.

`DeviceProofs`, projections and mail: `ProjectionsHeal`, for which the argument of the
mailbox is made for the user data root too (`UdrReplayIsUdrOf`); `ReplicasAgree`, from
invariants that read what a device shows off the set of what it has taken, without its
order (`FollowsReceipts`, `FollowsEvents`); `KeptByItsParties`, where what was sealed has
the wraps of the logs as its sender had read them (`MailInv`) and the checks of an event
are decided kind by kind (`CheckedKeepsItsScope`).

`DeviceProofs`, authority: `DevicesAreRebuilt` and `VerdictsAreKept`. One lemma
(`EpochsSayMore`) serves the projection, by arrival, and the verifier's fold, by date:
what takes effect has a later epoch than all before, so that both end with what the
latest epochs say and `EpochsSayOne` makes them equal. That the fold ends with the last
words of the log (`DatesSay`) is again a minimal counterexample over its parts. What is
verified, or was let through, keeps a log that justified it (`VerifiedOnce`).

`DeviceProofs`, forks: `MlsForksAreSettledByContent`, for any controls of a group. As
long as a device has taken nothing but the creation and commits upon it, and members
alone have issued commits, a device that settles forks has either the creation alone or
a head that is the lowest of all commits it has had to choose from; what is queued is
then of earlier epochs (`HeadIs`). Hence the head is seeded as a candidate when a rival
comes, and `Select` takes the lower of the two (`SelectIsLowest`). Whatever else a
device takes ends the condition for good.

`DeviceProofs`, epochs: `NothingGoesBack`, from the invariants of the mailbox and of the
device's keys and one for the group, `InStep`: a projection is in the epoch of its last
control or in the next (`AtControl`), because a head that is selected again stands under
the epoch of its competitor. On a device that settles forks on its own no commit that it
has taken is of a later epoch than the last one, the issuer of the head is a member, so
that the seeded head is never left in the queue, and what is queued is there under its
own epoch. A commit that follows any control that was taken is then at most one epoch
ahead, and whatever follows the last control at least in the epoch of the projection.

`DeviceProofs`, budget and identity: types; `BudgetAccounts`, and that refunds
are covered; one identity; nothing is undone by an emission. The budget needs
which step holds what (`CountersTyped`). The identity needs that an open tab's
session is the record, that wrap keys once set stay, and `ViewsFollow`: what an
emission was built from is either current or its epoch has been passed.

`ClientPartsProofs`: `NoKeyIsUsedTwice` of the MLS provider, for any devices, key
packages and calls, from an invariant that relates each call under way to the stored
state it was computed from; and `SourcesAreTriedAgain` of the block store, from one that
gives each probing breaker the request that probes it.

`BridgePartsProofs`, the other parts: `RevokedStaysOut` of the tokens (a revoked token is in none of
memory, file and saves under way); types of the SQL store, its numbers, and that it
implements `RecordStore` (the invariant says what a transaction's view is after each
statement); `LiveStreamIsWhole` of the streams (client, wire, page and buffer cover the
store without a gap); `LimiterKeepsCount` of the HTTP front. The limiter's invariant is
that allowed requests and the tokens left exceed the capacity by at most the tokens
gained since the start, in whole ticks per token, and that the newest save has the
buckets.

`SafetyProofs`: types; `OneAtATimeIsSafe` and `QuarantineHolds` of Admission, from an
invariant that holds until two handlings overlap; `NothingIsLaundered` of the proof
registry; `CasesAreKept`, for reports and appeals whose ids and keys may be shared in any
way; `GrantedAllTheWay` along chains of any length, by
relating what the walk carries to every link above; `DelegationIsBounded`, where that
actions narrow along a whole path is again a minimal counterexample, and revocations may
share ids;
`EndorsedIsCurrent` of Reputation, for any registry of labelers whose priorities are
integers; and three more.

`CliquesAreFound`, for any graph, by the invariant of Tarjan's search (`SearchInv`): the
frames under way are a path; a frame's node reaches whatever came onto the stack after
it, and everything on the stack reaches a frame's node that came before; a frame's low
link is the index of a node that it reaches on the stack, and no greater than that of
any node to which an edge was followed since; no edge leaves the components that were
found. So what is above a node that is its own low link is all that it reaches and that
reaches it.

`ShownByTheLog`, for any events, apps, snapshots and subscriptions. Both logs are folded
again when they are loaded. The fold is exhibited as a function of the length of the
prefix (`ControlPrefixes`, `LabelPrefixes`), and what each prefix says is proved to
change with its next event as the fold does (`FirstsGrow`, `InForceGrows`,
`StandingGrows`, `FollowsGrows`). The highest rank of a visibility (`HighestIn`) is the
value of a fold over a finite set in any order.

`StrangersGainNothing`, for any seeds, words and limits. The known are closed under
the words that count, so that no edge of the trust graph leaves them
(`GraphOfTheKnown`); a vector that has nothing for strangers has nothing for them after a
step of the iteration or the penalty, and for the known what it has without the
strangers' words (`SpreadAgrees`, `TrustAgrees`, `PenalizedAgrees`); distances are those
of ways among the known. Sums over the same sets stay unopened: they are equal.

The assumptions are those of the modules: sets of ids that are finite where the code
counts or folds them, ids that tell events apart, null values that are not data,
positive limits.

Only model-checked are the liveness properties `SettlesTruly` and
`EveryRecordIsTaken`: fairness is outside of the prover.

## 6. What the models show of the code

Besides the six findings, which contradict a sentence of the repository, these are
behaviours of the code that the properties name as exceptions or that a reader of
the models should know:

- Outbox: a recovered claim's loop goes on; see `takenOver`. Inbound: after a stop
  between the store of an event and its projection, the redelivered event is
  skipped and its projection is never made.
- HTTP front: the handlers do not consult the token registry, although
  `token-registry.ts` says that it takes precedence over `auth`. A registry whose last
  token was revoked adds the configured tokens when it starts. The save that the
  limiter's timer starts leaves a rejection unhandled. Two saves that overtake each
  other bring an older state back.
- Admission: with deliveries at a time, which the gateway asks its callers to
  avoid and the service does not, a key may be admitted twice and the snapshot torn.
- Mailbox: a rebuild that overlaps an append writes what it has read; rows that it
  takes back are put right by the next one. Route: the first of two terminal
  statuses of one rank stays, so that two sides may differ.
- Chat: a conflicting event under a message's id, or two edits, leave what
  arrived first or last; events that do not fit yet throw, and may be retried.
- Identity: a revocation of a device that is revoked already is taken but leaves the
  epoch as it is. An authorization of an earlier epoch that arrives after it is then
  taken too, or the revocation itself when it is delivered again; the projection and
  the verifier, which goes by date, may so differ on whether the device is active.
  `DevicesAreRebuilt` speaks of logs in which no device is revoked twice
  (`RevokedOnce`); the instance has a device that is.
- Sealed mail: the sender discards the one-time key and cannot rebuild its own
  outbox rows.
- Send budget: when the local state cannot be loaded after a delivery, the run counts as
  failed and backs off although its delivery did not fail.
- Bridge: the number of a record whose write failed is given again to the next.
- Capabilities: the projection keeps one revocation of an id. When two revocations of
  different grants share an id and both come before the grant of the first, that grant
  is held as active in the projection; the graph still knows the revocation
  (`Displaced`).
- Proof registry: a verdict that a caller brings (`proofsState` of `cap-adapter.ts`) wins
  over the registry, however old it is, so that a proof may be relied upon after it was
  revoked or has expired; `NothingIsLaundered` asks in this case that the proofs were
  sound when the verdict was folded, and cannot speak of a caller that makes one up. A
  caller that names no proofs is not asked for any. The gate for bearer tokens reads the
  scheme that a reference claims, not that of the record.
- Proof registry, continued: the cached state of a proof is not compared with its expiry when
  states are summarized; the row of a revoked proof that became unreadable is
  dropped at load, and its id may be registered anew; a stale put of another host
  can overwrite a newer verdict (IdentityAuthority has several hosts' steps,
  ProofRegistry one host). Reliance does not check a decision's own expiry.
  `revokeProof` takes a `revokedAt` before `issuedAt`, which validation refuses at
  the next load.
- Chains: a UCAN's expiry is not carried past a link without one; a `max-uses`
  caveat is only checked to be positive.
- Reports: a report under a known id with a new idempotency key replaces the record,
  resolved or not, so that a closed report is open again; it is neither counted nor listed
  a second time. An appeal does likewise, and stays listed under the decision that the
  replaced one contested. `ClosedIsClosed` excepts both (`ReportTakenAnew`,
  `AppealTakenAnew`).
- Reputation: the words of strangers change no score, but any observer of a subject
  counts for its confidence, known or not. Events that arrive by sync lose the
  publisher's id, and a removal outlasts a later publication. The scope `self` is
  never valid, nor are controls of MLS groups in a sealed scope.
- MLS groups: a rival commit that no member has issued stays in the queue of its epoch.
  With one there, the head is not added to the candidates (they are not empty), and the
  next rival that a member has issued takes the head's place, whatever the two say. With
  commits of one epoch by members and by strangers, devices that settle forks on their
  own may so end with different heads; `FromMembers` excepts such logs. The head is
  seeded under the epoch of its competitor, not its own. If its issuer was removed, it
  stays in the queue there, and if the issuer is added again before the next commit of
  that epoch comes, it may be selected; the device then goes on from a control that is
  older than its epoch, and a later commit on it takes the device back by one.
  Candidates that a detection names, and a recovery that selects the commit of a
  stranger, do likewise. `Undisturbed` excepts such logs on devices that settle forks on
  their own.
- Block store: a request that is aborted while it probes a fetcher never gives the
  probe back, and the fetcher is refused from then on, although the breaker is
  described as self-healing. A late failure of an older request ends another's
  probe, so that two may be out. A retry does not ask the breaker again after its
  delay.
- MLS provider: a join does not wait for the group's other operations, although
  the class comment says that all of them are serialized; beside a creation or
  another join it may overwrite a state. A stop between the two writes of a join
  leaves the key package, which joins again once the group was deleted.
  `removeMember` removes one leaf of a member that has several.

## 7. Not modelled

See the components marked `partly` and `not_modelled` in `PROJECT.json`. Search, UI,
shells, platform and the OpenRank adapter are presentation and adapters: what a user
creates enters `Outbox` as `PutSignedEvent` and `EnqueueOutbox`. Within the modelled
parts: formats and encodings, cryptography (a signature fits or does not), the MLS
library, decoding of blocks, payloads of mailbox events that are invalid, a store file
that cannot be parsed, `allowRewind` and several checkpoint keys, the outcome
`unwrap-failed` of sealed mail, explanations of curation and the lookup indexes
`queueIdsBySourceId` and `decisionsBySubjectKey`, the audit log, the operator's pages,
the values of back-off delays (a set, or an operator), how many past epochs an MLS
device keeps (all it was in), several providers over one store, the confidence of
reputation scores, and wording of errors.
