----------------------------- MODULE Admission -----------------------------
(***************************************************************************)
(* The bridge's transport admission: the gateway of apps/bridge-service,   *)
(* the decision engine of packages/trust-safety/src/transport-admission    *)
(* (replay cache, peer reputation, rate limit), and the snapshot file the  *)
(* gateway saves its state to.                                             *)
(*                                                                         *)
(* A delivery is decided from the gateway's state in one synchronous step; *)
(* the new state is then written to a temporary file, the file is renamed, *)
(* and only then does the gateway take the new state over.  The service    *)
(* starts this for every request as it comes in, so handlings overlap and  *)
(* share the one temporary file of the process.                            *)
(*                                                                         *)
(* One tick is the time in which an unmodulated bucket gains a token.  The *)
(* audit log and the records of quarantined peers are written and never    *)
(* read by a decision; they are left out.                                  *)
(***************************************************************************)
EXTENDS RateLimit, Sequences, FiniteSets, SequencesExt

CONSTANTS
  AdmKeys,              \* idempotency keys; each names one envelope,
  PeerOf, FlawOf,       \* with its peer and what is wrong with it
  Peers,
  Handlers,             \* requests that the service handles at a time
  Sources,              \* operators whose advisory scores are taken in
  HasStore,             \* whether the gateway has a state store
  ReplayTtl, MaxEntries,                  \* of the replay cache
  Capacity, BaseBackoff, MaxBackoff,      \* of the rate limit
  MinScore, MaxScore, DecayPerTick, QuarantineThreshold, RecoveryThreshold,
  MaxQuarantine,                          \* of peer reputation
  AdvisoryTtl,
  MaxAdmNow, MaxRequests, MaxUpsets       \* bounds: time; deliveries; restarts,
                                          \* failures and operator actions

VARIABLES
  admNow,
  state,       \* the gateway's TransportAdmissionState
  advisory,    \* when each source last lowered each peer's score, or NoTime
  phase,       \* per handler: idle, saving, writing or written
  job,         \* per handler: what it decided
  fd,          \* per handler: the file its write goes to
  shared,      \* handlers whose write met another's in the same file
  temp, file,  \* contents of the temporary file and of the snapshot
  running,     \* whether a gateway is up
  requests, upsets,
  lastAdmitted,  \* history: when each key that a snapshot should know was admitted
  readmitted,    \* history: keys admitted again within ReplayTtl
  raced          \* history: whether a handling, or an action of the operator,
                 \* began before another handling ended

disk == <<fd, shared, temp, file>>
history == <<lastAdmitted, readmitted, raced>>
vars == <<admNow, state, advisory, phase, job, disk, running, requests, upsets, history>>

NoTime == -1

\* What a file may hold that is no state.
NoFile == [lacks |-> "file"]
Torn == [lacks |-> "end"]

Penalty == [scope |-> 10, kind |-> 5, bytes |-> 25, bomb |-> 100, rate |-> 10]

ASSUME AdmissionAssumption ==
  /\ HasStore \in BOOLEAN
  /\ PeerOf \in [AdmKeys -> Peers]
  /\ FlawOf \in [AdmKeys -> {"none", "scope", "kind", "bytes", "bomb"}]
  /\ {ReplayTtl, MaxEntries, Capacity, AdvisoryTtl, MaxQuarantine} \subseteq Nat \ {0}
  /\ {BaseBackoff, MaxBackoff, DecayPerTick} \subseteq Nat
  /\ {MaxAdmNow, MaxRequests, MaxUpsets} \subseteq Nat
  /\ BaseBackoff <= MaxBackoff
  /\ {MinScore, MaxScore, QuarantineThreshold, RecoveryThreshold} \subseteq Int
  /\ MinScore <= QuarantineThreshold /\ QuarantineThreshold < RecoveryThreshold
  /\ RecoveryThreshold <= MaxScore /\ MinScore <= 0 /\ 0 <= MaxScore

-----------------------------------------------------------------------------
(* The replay cache: keys with the time they were seen, oldest first.      *)

\* Faulty variant: an entry expires one tick too early.
FreshTooShort(entry, t) == entry.at > t - ReplayTtl + 1

Fresh(entry, t) == entry.at > t - ReplayTtl

IsDuplicate(replay, k, t) ==
  \E i \in DOMAIN replay : replay[i].key = k /\ Fresh(replay[i], t)

\* The expired entries at the head go, then the oldest ones over capacity.
Pruned(replay, t) ==
  LET firstFresh == {i \in DOMAIN replay : Fresh(replay[i], t)}
      head == IF firstFresh = {} THEN Len(replay)
              ELSE (CHOOSE i \in firstFresh : \A j \in firstFresh : i <= j) - 1
      tail == SubSeq(replay, head + 1, Len(replay))
      over == IF Len(tail) >= MaxEntries THEN Len(tail) - MaxEntries + 1 ELSE 0
  IN  SubSeq(tail, over + 1, Len(tail))

\* An entry of the key that has expired gives way.
recordSeen(replay, k, t) ==
  LET kept == Pruned(replay, t)
      stale == {i \in DOMAIN kept : kept[i].key = k}
  IN  Append(IF stale = {} THEN kept ELSE RemoveAt(kept, CHOOSE i \in stale : TRUE),
             [key |-> k, at |-> t])

-----------------------------------------------------------------------------
(* Peer reputation.                                                        *)

createReputation(t) == [score |-> 0, at |-> t, until |-> NoTime]

Clamp(n) == IF n < MinScore THEN MinScore ELSE IF n > MaxScore THEN MaxScore ELSE n

\* The score moves towards zero and never past it; a quarantine stays.
decayReputation(rep, t) ==
  LET lost == (t - rep.at) * DecayPerTick
      score == IF rep.score > lost THEN rep.score - lost
               ELSE IF rep.score < -lost THEN rep.score + lost ELSE 0
  IN  IF t <= rep.at THEN rep ELSE [rep EXCEPT !.score = Clamp(score), !.at = t]

\* Faulty variant: without the gap between the thresholds.
QuarantineWithoutGap(until, score, t) ==
  IF score <= QuarantineThreshold THEN t + MaxQuarantine ELSE NoTime

\* A quarantine that the penalty or credit starts, keeps or ends.
QuarantineAfter(until, score, t) ==
  LET entered == IF until = NoTime /\ score <= QuarantineThreshold
                 THEN t + MaxQuarantine ELSE until
  IN  IF entered = NoTime \/ score >= RecoveryThreshold \/ t >= entered
      THEN NoTime ELSE entered

applyReputationDelta(rep, delta, t) ==
  LET score == Clamp(decayReputation(rep, t).score + delta)
  IN  [score |-> score, at |-> t, until |-> QuarantineAfter(rep.until, score, t)]

isQuarantined(rep, t) == rep.until # NoTime /\ t < rep.until

-----------------------------------------------------------------------------
(* The rate limit.  A peer that some source holds to be bad has a quarter  *)
(* of the capacity and of the refill, and twice the back-off.              *)

Untrusted(p) == \E s \in Sources : advisory[p][s] # NoTime

AtLeastOne(n) == IF n < 1 THEN 1 ELSE n

BaseLimit ==
  [capacity |-> Capacity, ticks |-> 1, base |-> BaseBackoff, most |-> MaxBackoff]

RateLimit(p) ==
  IF Untrusted(p)
  THEN [BaseLimit EXCEPT !.capacity = AtLeastOne(@ \div 4), !.ticks = 4,
                         !.base = Least(MaxBackoff, 2 * @)]
  ELSE BaseLimit

\* A peer has a bucket from its first delivery on.
BucketAt(bucket, t) ==
  IF bucket.at = NoTime THEN createRateLimitBucket(t, BaseLimit) ELSE bucket

-----------------------------------------------------------------------------
(* The engine.                                                             *)

EmptyState ==
  [replay |-> <<>>, rep |-> [p \in Peers |-> createReputation(0)],
   bucket |-> [p \in Peers |-> createRateLimitBucket(NoTime, BaseLimit)]]

Outcome(verdict, s, p, rep, bucket, replay) ==
  [verdict |-> verdict,
   next |-> [replay |-> replay, rep |-> [s.rep EXCEPT ![p] = rep],
             bucket |-> [s.bucket EXCEPT ![p] = bucket]]]

\* runAdmissionChecks, in its order.  What a quarantine refuses is a reject
\* like that of a flawed envelope and has a name of its own here.
AdmissionChecks(s, k, t) ==
  LET p == PeerOf[k]
      flaw == FlawOf[k]
      rep == s.rep[p]
      bucket == BucketAt(s.bucket[p], t)
      replay == recordSeen(s.replay, k, t)
      decayed == decayReputation(rep, t)
      rl == tryConsume(bucket, t, RateLimit(p))
  IN  IF IsDuplicate(s.replay, k, t)
      THEN Outcome("drop-duplicate", s, p, rep, bucket, s.replay)
      ELSE IF flaw # "none"
      THEN Outcome("reject", s, p, applyReputationDelta(rep, -Penalty[flaw], t), bucket, replay)
      ELSE IF isQuarantined(decayed, t)
      THEN Outcome("quarantined", s, p, decayed, bucket, replay)
      ELSE IF ~rl.allowed
      THEN Outcome("rate-limit", s, p, applyReputationDelta(decayed, -Penalty["rate"], t),
                   rl.bucket, replay)
      ELSE Outcome("accept", s, p, applyReputationDelta(decayed, 1, t), rl.bucket, replay)

-----------------------------------------------------------------------------

NoJob == [verdict |-> "none"]

Init ==
  /\ admNow = 0
  /\ state = EmptyState
  /\ advisory = [p \in Peers |-> [s \in Sources |-> NoTime]]
  /\ phase = [h \in Handlers |-> "idle"]
  /\ job = [h \in Handlers |-> NoJob]
  /\ fd = [h \in Handlers |-> "none"]
  /\ shared = {}
  /\ temp = NoFile
  /\ file = NoFile
  /\ running = TRUE
  /\ requests = 0
  /\ upsets = 0
  /\ lastAdmitted = [k \in AdmKeys |-> NoTime]
  /\ readmitted = {}
  /\ raced = FALSE

Idle == \A h \in Handlers : phase[h] = "idle"

Upset == upsets < MaxUpsets /\ upsets' = upsets + 1

Knows(s, k) == \E i \in DOMAIN s.replay : s.replay[i].key = k

\* The service goes on with j, and the gateway with the state j came to.
Concludes(j) ==
  LET admitted == j.verdict = "accept" /\ ~j.overlay
      again == lastAdmitted[j.key] # NoTime /\ j.at < lastAdmitted[j.key] + ReplayTtl
  IN  /\ state' = j.next
      /\ lastAdmitted' = [k \in AdmKeys |->
           IF admitted /\ k = j.key THEN j.at
           ELSE IF ~raced /\ ~Knows(j.next, k) THEN NoTime  \* made room for another
           ELSE lastAdmitted[k]]
      /\ readmitted' = IF admitted /\ again THEN readmitted \cup {j.key} ELSE readmitted

\* A delivery comes in and is decided; overlay says that an operator label
\* on its author or a block of its recipient refuses what the engine accepts.
Decide(h, k, overlay) ==
  LET checks == AdmissionChecks(state, k, admNow)
      j == [verdict |-> checks.verdict, next |-> checks.next, key |-> k,
            at |-> admNow, overlay |-> overlay]
  IN  /\ running
      /\ overlay => checks.verdict = "accept"
      /\ phase[h] = "idle"
      /\ requests < MaxRequests
      /\ requests' = requests + 1
      /\ IF HasStore
         THEN /\ phase' = [phase EXCEPT ![h] = "saving"]
              /\ job' = [job EXCEPT ![h] = j]
              /\ raced' = (raced \/ ~Idle)
              /\ UNCHANGED <<state, lastAdmitted, readmitted>>
         ELSE /\ Concludes(j)
              /\ UNCHANGED <<phase, job, raced>>
      /\ UNCHANGED <<admNow, advisory, disk, running, upsets>>

\* writeFile opens the temporary file: what it held is gone.
OpenTemp(h) ==
  LET others == {g \in Handlers \ {h} : phase[g] = "writing" /\ fd[g] = "temp"}
  IN  /\ phase[h] = "saving"
      /\ phase' = [phase EXCEPT ![h] = "writing"]
      /\ fd' = [fd EXCEPT ![h] = "temp"]
      /\ temp' = Torn
      /\ shared' = IF others = {} THEN shared ELSE shared \cup others \cup {h}
      /\ UNCHANGED <<admNow, state, advisory, job, file, running, requests, upsets, history>>

\* The write ends: in the temporary file, in the snapshot if another handling
\* has renamed the file since, or in a file that has been replaced.
WriteDone(h) ==
  /\ phase[h] = "writing"
  /\ phase' = [phase EXCEPT ![h] = "written"]
  /\ \E content \in {job[h].next} \cup (IF h \in shared THEN {Torn} ELSE {}) :
       /\ temp' = IF fd[h] = "temp" THEN content ELSE temp
       /\ file' = IF fd[h] = "file" THEN content ELSE file
  /\ fd' = [fd EXCEPT ![h] = "none"]
  /\ shared' = shared \ {h}
  /\ UNCHANGED <<admNow, state, advisory, job, running, requests, upsets, history>>

\* rename, and the gateway's state moves on.
Rename(h) ==
  /\ phase[h] = "written"
  /\ temp # NoFile
  /\ file' = temp
  /\ temp' = NoFile
  /\ fd' = [g \in Handlers |-> CASE fd[g] = "temp" -> "file"
                                 [] fd[g] = "file" -> "none"
                                 [] OTHER -> fd[g]]
  /\ phase' = [phase EXCEPT ![h] = "idle"]
  /\ job' = [job EXCEPT ![h] = NoJob]
  /\ Concludes(job[h])
  /\ UNCHANGED <<admNow, advisory, shared, running, requests, upsets, raced>>

\* The delivery is rejected and the gateway's state stays.
Abandons(h) ==
  /\ phase' = [phase EXCEPT ![h] = "idle"]
  /\ job' = [job EXCEPT ![h] = NoJob]
  /\ fd' = [fd EXCEPT ![h] = "none"]
  /\ shared' = shared \ {h}
  /\ UNCHANGED <<admNow, state, advisory, temp, file, running, requests, history>>

\* Another handling has renamed the temporary file away.
RenameMissing(h) ==
  /\ phase[h] = "written"
  /\ temp = NoFile
  /\ Abandons(h)
  /\ UNCHANGED upsets

SaveFails(h) ==
  /\ phase[h] # "idle"
  /\ Upset
  /\ Abandons(h)

-----------------------------------------------------------------------------
(* The operator, other operators' advisories, restarts.                    *)

quarantinePeer(p, duration) ==
  LET until == admNow + Least(duration, MaxQuarantine)
  IN  /\ running
      /\ Upset
      /\ state' = [state EXCEPT !.rep[p] =
                     [score |-> QuarantineThreshold, at |-> admNow, until |-> until]]
      /\ raced' = (raced \/ ~Idle)
      /\ UNCHANGED <<admNow, advisory, phase, job, disk, running, requests,
                     lastAdmitted, readmitted>>

liftQuarantine(p) ==
  /\ running
  /\ Upset
  /\ state' = [state EXCEPT !.rep[p] = createReputation(admNow)]
  /\ raced' = (raced \/ ~Idle)
  /\ UNCHANGED <<admNow, advisory, phase, job, disk, running, requests,
                 lastAdmitted, readmitted>>

\* ingestAdvisoryFeed: a source lowers a peer's score or takes that back; an
\* entry that is stale, or older than what the source said last, is skipped.
Ingest(p, s, updatedAt, lowers) ==
  /\ running
  /\ Upset
  /\ updatedAt >= admNow - AdvisoryTtl
  /\ updatedAt >= advisory[p][s]
  /\ advisory' = [advisory EXCEPT ![p][s] = IF lowers THEN updatedAt ELSE NoTime]
  /\ UNCHANGED <<admNow, state, phase, job, disk, running, requests, history>>

\* The timer that drops what has become stale.
EvictStaleAdvisory ==
  /\ advisory' = [p \in Peers |-> [s \in Sources |->
       IF advisory[p][s] < admNow - AdvisoryTtl THEN NoTime ELSE advisory[p][s]]]
  /\ advisory' # advisory
  /\ UNCHANGED <<admNow, state, phase, job, disk, running, requests, upsets, history>>

\* The gateway starts with s, which may know less than was admitted.
StartsWith(s) ==
  /\ state' = s
  /\ lastAdmitted' = [k \in AdmKeys |-> IF s = EmptyState THEN NoTime ELSE lastAdmitted[k]]
  /\ advisory' = [p \in Peers |-> [q \in Sources |-> NoTime]]

\* The process stops and starts again, under another temporary name.  It
\* does not start over a snapshot that it cannot read.
Restart ==
  /\ running
  /\ Upset
  /\ phase' = [h \in Handlers |-> "idle"]
  /\ job' = [h \in Handlers |-> NoJob]
  /\ fd' = [h \in Handlers |-> "none"]
  /\ shared' = {}
  /\ temp' = NoFile
  /\ running' = (file # Torn)
  /\ StartsWith(IF file \in {NoFile, Torn} THEN EmptyState ELSE file)
  /\ UNCHANGED <<admNow, file, requests, readmitted, raced>>

\* The operator deletes the snapshot.
DeleteSnapshot ==
  /\ ~running
  /\ file' = NoFile
  /\ running' = TRUE
  /\ StartsWith(EmptyState)
  /\ UNCHANGED <<admNow, phase, job, fd, shared, temp, requests, upsets, readmitted, raced>>

AdmTick ==
  /\ admNow < MaxAdmNow
  /\ admNow' = admNow + 1
  /\ UNCHANGED <<state, advisory, phase, job, disk, running, requests, upsets, history>>

Saving(h) == OpenTemp(h) \/ WriteDone(h) \/ Rename(h) \/ RenameMissing(h) \/ SaveFails(h)

Next ==
  \/ \E h \in Handlers, k \in AdmKeys, overlay \in BOOLEAN : Decide(h, k, overlay)
  \/ \E h \in Handlers : Saving(h)
  \/ \E p \in Peers : quarantinePeer(p, MaxQuarantine) \/ liftQuarantine(p)
  \/ \E p \in Peers, s \in Sources, t \in {0, admNow}, lowers \in BOOLEAN : Ingest(p, s, t, lowers)
  \/ EvictStaleAdvisory
  \/ Restart
  \/ DeleteSnapshot
  \/ AdmTick

Spec == Init /\ [][Next]_vars
-----------------------------------------------------------------------------
(* Properties.                                                             *)

AdmissionTypeOK ==
  /\ admNow \in 0..MaxAdmNow
  /\ \A p \in Peers : state.rep[p].score \in MinScore..MaxScore
  /\ \A p \in Peers : state.bucket[p].tokens \in 0..Capacity
  /\ Len(state.replay) <= MaxEntries
  /\ \A h \in Handlers : phase[h] \in {"idle", "saving", "writing", "written"}
  /\ \A h \in Handlers : fd[h] # "none" => phase[h] = "writing"
  /\ readmitted \subseteq AdmKeys

\* One delivery at a time is what the gateway asks for: then no key is
\* admitted twice within ReplayTtl, not even around a restart, unless it had
\* to make room for another, the snapshot is never torn, and it holds what
\* the gateway knows.
OneAtATimeIsSafe ==
  raced \/ /\ readmitted = {}
           /\ file # Torn
           /\ HasStore /\ running /\ Idle /\ file # NoFile => file.replay = state.replay

\* A quarantine in force ends by itself only when the peer's score is back
\* at the recovery threshold: not by a later penalty, and not by a delivery
\* that was decided without it unless that one was under way already.
QuarantineHolds ==
  [][\A p \in Peers :
       isQuarantined(state.rep[p], admNow') /\ ~isQuarantined(state'.rep[p], admNow')
         => \/ state'.rep[p].score >= RecoveryThreshold
            \/ upsets' # upsets   \* the operator's lift, or a restart
            \/ raced]_vars
=============================================================================
