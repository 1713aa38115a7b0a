----------------------------- MODULE Reputation -----------------------------
(***************************************************************************)
(* The reputation graph of packages/trust-safety: the log of reputation    *)
(* events in packages/local-store, what the PWA and the inbound sync write *)
(* to it, the local scores that computeReputation makes of it, the set of  *)
(* labelers that a user follows, and the view that joins both.             *)
(*                                                                         *)
(* Parties and labelers are numbers, in the order of their identifiers.    *)
(* Strengths are tenths, scores are fractions of Scale, rounded down, and  *)
(* half-lives, windows and buckets are counted in ticks.                   *)
(***************************************************************************)
EXTENDS Integers, Sequences, FiniteSets, FiniteSetsExt, SequencesExt

CONSTANTS
  RepEvents,      \* the events that come up: RepEvent below
  RepMalformed,   \* those whose shape validateReputationEvent refuses
  Publisher,      \* the labeler that an aggregator's event comes from, by identifier
  Seeds,          \* contacts: [subject, strength, at]
  Me,             \* the observer whose device this is
  RepWindow,      \* observationWindowMs, in half-lives
  RepBucket,      \* observationBucketMs, in half-lives
  MaxSpan,        \* REPUTATION_LIMITS.maxWindowMs
  MaxRepNodes,    \* maxNodes
  MaxEdges,       \* maxEdgesPerNode
  Iterations,     \* maxIterations
  Registry,       \* the distributor's labelers: a function to their priority
  Entries,        \* what the user may enter: [labeler, priority]
  MaxEntered,     \* bound: entries of the user
  MaxRepRows,     \* bound: rows of the log
  MaxRepNow       \* bound: ticks

RepKinds == {"observation", "attestation", "revocation", "published", "removed"}

\* For all kinds: id, at (createdAt), by (the observer).  An observation counts plus
\* and minus from start to end; an attestation has a sign, a strength, a tag and an
\* end; a revocation names the attestation of; an aggregator scores about.
RepEvent ==
  [id: Nat, kind: RepKinds, at: Int, by: Nat, about: Nat, plus: Nat, minus: Nat,
   start: Int, end: Int, sign: {-1, 0, 1}, strength: 0..10, met: BOOLEAN, of: Nat]

ASSUME ReputationAssumption ==
  /\ RepEvents \subseteq RepEvent
  /\ RepMalformed \subseteq RepEvents
  /\ {RepWindow, RepBucket, MaxSpan, MaxRepNodes, MaxEdges} \subseteq Nat \ {0}
  /\ {Iterations, MaxEntered, MaxRepRows, MaxRepNow} \subseteq Nat
  /\ Seeds \subseteq [subject: Nat, strength: 0..10, at: Int] /\ IsFiniteSet(Seeds)
  /\ Me \in Nat
  /\ DOMAIN Registry \subseteq Nat /\ \A l \in DOMAIN Registry : Registry[l] \in Int
  /\ \A c \in Entries : c.labeler \in Nat /\ c.priority \in Int

VARIABLES
  repRows,    \* trustSafetyReputationEvents, in the order of sequence
  chosen,     \* the labelers that the user entered, in this order
  muted,      \* the labelers that the user muted
  repNow      \* the clock of the view

repVars == <<repRows, chosen, muted, repNow>>

-----------------------------------------------------------------------------
(* validateReputationEvent.                                                *)

IsReputationEvent(e) ==
  /\ e \notin RepMalformed
  /\ e.kind = "observation" => e.plus + e.minus > 0 /\ e.end - e.start \in 0..MaxSpan
  /\ e.kind = "attestation" => e.end >= e.at
  /\ e.kind = "revocation" => e.end >= e.at
  /\ e.kind = "published" => e.start <= e.at

\* appendTrustSafetyReputationEvent.
IsRecorded(e) == \E row \in ToSet(repRows) : row.id = e.id

AppendRow(e) ==
  repRows' = IF IsRecorded(e) THEN repRows ELSE Append(repRows, e)

-----------------------------------------------------------------------------
(* projectEventsToGraphInputs and the first steps of computeReputation: the*)
(* events that count.  Their order does not.                               *)

OfKind(events, kind) == {e \in events : e.kind = kind}

Revoked(events) == {r.of : r \in OfKind(events, "revocation")}

LiveAttestations(events) ==
  {a \in OfKind(events, "attestation") : a.id \notin Revoked(events) /\ a.end >= repNow}

LiveObservations(events) ==
  {o \in OfKind(events, "observation") : o.end >= repNow - RepWindow}

-----------------------------------------------------------------------------
(* The weight of an observer's trust in a subject.                         *)

\* timeDecay, as a multiple of the decay of the oldest event.
Decay(at) == 2 ^ (MaxRepNow + RepWindow - Max({0, repNow - at}))

\* The square root, rounded down.
Root(n) == CHOOSE r \in 0..n : r * r <= n /\ n < (r + 1) * (r + 1)

\* compressByTimeBucket: an observer's counts of a subject in one bucket.
BucketOf(o) == o.end \div RepBucket

InBucketOf(o, s) == s.by = o.by /\ s.about = o.about /\ BucketOf(s) = BucketOf(o)

Compressed(burst) ==
  Root(MapThenSumSet(LAMBDA o : o.plus, burst)) - Root(MapThenSumSet(LAMBDA o : o.minus, burst))

BurstOf(o, burst) ==
  [by |-> o.by, about |-> o.about, gain |-> Compressed(burst), end |-> Max({s.end : s \in burst})]

Bursts(observations) ==
  {BurstOf(o, {s \in observations : InBucketOf(o, s)}) : o \in observations}

\* The pairs of an observer and a subject of which one says something of the other.
Pairs(events) ==
  {<<e.by, e.about>> : e \in LiveAttestations(events) \cup LiveObservations(events)}

\* applyEdgeMultipliers, times twenty: 0.7 without a positive attestation, 1.5 with
\* one of a contact who was met.
Multiplier(words) ==
  LET positive == {a \in words : a.sign = 1}
  IN IF positive = {} THEN 14 ELSE IF \E a \in positive : a.met THEN 30 ELSE 20

Gained(bursts) == MapThenSumSet(LAMBDA b : b.gain * Decay(b.end), bursts)

Attested(words) == MapThenSumSet(LAMBDA a : a.sign * a.strength * Decay(a.at), words)

\* The sum of all that an observer says of a subject, and its multiplier.
EdgeOf(p, bursts, words) ==
  [by |-> p[1], about |-> p[2], weight |-> (Gained(bursts) + Attested(words)) * Multiplier(words)]

WeightedEdges(events) ==
  {EdgeOf(p, {b \in Bursts(LiveObservations(events)) : <<b.by, b.about>> = p},
          {a \in LiveAttestations(events) : <<a.by, a.about>> = p}) : p \in Pairs(events)}

-----------------------------------------------------------------------------
(* The nodes, the edges of the trust graph and the seeds.                  *)

\* Without contacts, the observer is the seed.
SeedContacts ==
  IF Seeds = {} THEN {[subject |-> Me, strength |-> 10, at |-> repNow]} ELSE Seeds

\* All that were named.
Everyone(events) ==
  {c.subject : c \in SeedContacts} \cup UNION {{p[1], p[2]} : p \in Pairs(events)}

\* Those of the smallest identifiers if they are too many.
Nodes(events) ==
  LET all == Everyone(events)
  IN {n \in all : Cardinality({m \in all : m < n}) < MaxRepNodes}

Heavier(e, f) == e.weight > f.weight \/ (e.weight = f.weight /\ e.about < f.about)

\* The positive edges among the nodes, of each observer the heaviest.
TrustGraph(events) ==
  LET nodes == Nodes(events)
      positive == {e \in WeightedEdges(events) : e.weight > 0 /\ {e.by, e.about} \subseteq nodes}
  IN {e \in positive :
        Cardinality({f \in positive : f.by = e.by /\ Heavier(f, e)}) < MaxEdges}

Scale == 10000

SeedWeight(n) ==
  MapThenSumSet(LAMBDA c : c.strength * Decay(c.at), {c \in SeedContacts : c.subject = n})

\* Faulty variant: every node is a seed.
UniformSeeds(nodes) == [n \in nodes |-> Scale \div Cardinality(nodes)]

SeedTotal(seeds) == MapThenSumSet(SeedWeight, seeds)

\* Only seeds have a part of their own, if they have any weight.
Personalization(nodes) ==
  LET seeds == nodes \cap {c.subject : c \in SeedContacts}
      total == SeedTotal(seeds)
  IN [n \in nodes |->
        IF n \in seeds /\ total > 0 THEN (SeedWeight(n) * Scale) \div total ELSE 0]

-----------------------------------------------------------------------------
(* Personalized PageRank, the penalty for cliques and the distance from the*)
(* seeds.                                                                  *)

RowSum(row) == MapThenSumSet(LAMBDA e : e.weight, row)

\* The share of an edge in what its observer passes on.
ShareOf(graph, e, amount) == (amount * e.weight) \div RowSum({f \in graph : f.by = e.by})

\* What a subject receives from the observers that have something to pass on.
Shares(graph, t, n) ==
  {[from |-> e.by, share |-> ShareOf(graph, e, 85 * t[e.by])] :
     e \in {f \in graph : f.about = n /\ t[f.by] # 0}}

SumOfShares(shares) == MapThenSumSet(LAMBDA s : s.share, shares)

\* One step with a damping of 0.85.
Spread(graph, p, t) ==
  [n \in DOMAIN p |-> (15 * p[n] + SumOfShares(Shares(graph, t, n))) \div 100]

Trust(graph, p) ==
  LET t[k \in 0..Iterations] == IF k = 0 THEN p ELSE Spread(graph, p, t[k - 1])
  IN t[Iterations]

\* A set of nodes and those a step away.
AStepFrom(graph, reached) ==
  reached \cup {e.about : e \in {f \in graph : f.by \in reached}}

\* The nodes within k steps of a set.
Within(graph, from, k) ==
  LET w[i \in 0..k] == IF i = 0 THEN from ELSE AStepFrom(graph, w[i - 1])
  IN w[k]

\* No way is longer than the number of nodes.
ReachableFrom(graph, from) == Within(graph, from, MaxRepNodes)

\* The strongly connected component of a node.
ComponentOf(graph, n) ==
  {n} \cup {m \in ReachableFrom(graph, {n}) : n \in ReachableFrom(graph, {m})}

\* applyCliquePenalty: the members of a component of two or more without a way out
\* lose by the root of its size.
Penalized(graph, t) ==
  [n \in DOMAIN t |->
     LET clique == ComponentOf(graph, n)
         closed == \A e \in graph : e.by \in clique => e.about \in clique
     IN IF Cardinality(clique) >= 2 /\ closed
        THEN (t[n] * Root(10000 \div Cardinality(clique))) \div 100
        ELSE t[n]]

\* computeSeedDistances: the steps from the nearest seed.
Distance(graph, seeds, n) ==
  IF n \in ReachableFrom(graph, seeds)
  THEN Min({k \in 0..MaxRepNodes : n \in Within(graph, seeds, k)})
  ELSE -1

\* computeReputation: the scores of those that trust has reached. (The confidence that
\* goes with a score, which counts all observers, is left out.)
LocalScores(events) ==
  LET graph == TrustGraph(events)
      p == Personalization(Nodes(events))
      seeds == {n \in DOMAIN p : p[n] > 0}
      t == Penalized(graph, Trust(graph, p))
  IN [n \in {m \in DOMAIN t : t[m] > 0} |->
        [score |-> t[n], distance |-> Distance(graph, seeds, n)]]

-----------------------------------------------------------------------------
(* The labelers that a user follows: buildAggregatorSubscriptionList joins *)
(* the user's entries, resolveActiveLabelerSet those and the distributor's.*)

Local == 0    \* the reserved identifier of the local source

\* A priority below one becomes one, and the best entry of a labeler stays.
PriorityOf(entry) == IF entry.priority < 1 THEN 1 ELSE entry.priority

Subscribed == {c \in ToSet(chosen) : c.labeler # Local}

UserPriority ==
  [l \in {c.labeler : c \in Subscribed} |->
     Min({PriorityOf(c) : c \in {d \in Subscribed : d.labeler = l}})]

\* A labeler that the user muted is left out, the user's priority comes before the
\* distributor's.
ActiveLabelers ==
  LET distributed == {r \in DOMAIN Registry : Registry[r] >= 1 /\ r # Local}
  IN [l \in (DOMAIN UserPriority \cup distributed) \ muted |->
        IF l \in DOMAIN UserPriority THEN UserPriority[l] ELSE Registry[l]]

-----------------------------------------------------------------------------
(* computeAggregatedReputation.                                            *)

From(rows, kind, l, s) ==
  {i \in DOMAIN rows : /\ rows[i].kind = kind
                       /\ rows[i].about = s
                       /\ Publisher[rows[i].id] = l}

\* Faulty variant: what was removed stays.
CandidatesKept(rows, s) ==
  {l \in DOMAIN ActiveLabelers : From(rows, "published", l, s) # {}}

\* The labelers whose score of s counts: all removals are applied after all scores, so
\* that a removal outlasts a score that is published after it.
Candidates(rows, s) ==
  {l \in DOMAIN ActiveLabelers :
     From(rows, "published", l, s) # {} /\ From(rows, "removed", l, s) = {}}

Better(l, m) ==
  \/ ActiveLabelers[l] < ActiveLabelers[m]
  \/ ActiveLabelers[l] = ActiveLabelers[m] /\ l <= m

Best(labelers) == CHOOSE l \in labelers : \A m \in labelers : Better(l, m)

LastScore(rows, l, s) == rows[Max(From(rows, "published", l, s))].strength * (Scale \div 10)

\* What the view says of a subject: the local score comes first, otherwise the last
\* score of the best labeler.
Entry(rows, scores, s) ==
  IF s \in DOMAIN scores THEN [score |-> scores[s].score, source |-> Local]
  ELSE LET l == Best(Candidates(rows, s)) IN [score |-> LastScore(rows, l, s), source |-> l]

AggregatedView(rows) ==
  UNION {{[about |-> s, is |-> Entry(rows, scores, s)] :
            s \in DOMAIN scores \cup {t \in {e.about : e \in OfKind(ToSet(rows), "published")} :
                                      Candidates(rows, t) # {}}} :
         scores \in {LocalScores(ToSet(rows))}}

-----------------------------------------------------------------------------
(* Actions.                                                                *)

RepInit ==
  /\ repRows = <<>>
  /\ chosen = <<>>
  /\ muted = {}
  /\ repNow = 0

Storable(e) ==
  /\ IsReputationEvent(e)
  /\ IsRecorded(e) \/ Len(repRows) < MaxRepRows
  /\ AppendRow(e)
  /\ UNCHANGED <<chosen, muted, repNow>>

\* The user's own words: emitObservationRecorded, emitAttestationPublished and
\* emitAttestationRevoked.
RecordObservation(e) == e.kind = "observation" /\ e.by = Me /\ Storable(e)
PublishAttestation(e) == e.kind = "attestation" /\ e.by = Me /\ Storable(e)
RevokeAttestation(e) == e.kind = "revocation" /\ e.by = Me /\ Storable(e)

\* The words of others, for callers of computeReputation that have them.
LearnFromOthers(e) ==
  e.kind \in {"observation", "attestation", "revocation"} /\ e.by # Me /\ Storable(e)

\* dispatchInboundReputationEnvelope and processInboundReputationBatch: only an
\* aggregator's events, from a labeler that the user follows.
TakesInbound(e) ==
  /\ e.kind \in {"published", "removed"}
  /\ Publisher[e.id] \in DOMAIN ActiveLabelers

ReceiveReputation(e) == TakesInbound(e) /\ Storable(e)

\* The settings: an entry for a labeler, and muting one.
ChooseLabeler(entry) ==
  /\ Len(chosen) < MaxEntered
  /\ entry \notin ToSet(chosen)
  /\ chosen' = Append(chosen, entry)
  /\ UNCHANGED <<repRows, muted, repNow>>

MuteLabeler(l) ==
  /\ l \notin muted
  /\ muted' = muted \cup {l}
  /\ UNCHANGED <<repRows, chosen, repNow>>

RepTick ==
  /\ repNow < MaxRepNow
  /\ repNow' = repNow + 1
  /\ UNCHANGED <<repRows, chosen, muted>>

RepNext ==
  \/ \E e \in RepEvents :
       \/ RecordObservation(e)
       \/ PublishAttestation(e)
       \/ RevokeAttestation(e)
       \/ LearnFromOthers(e)
       \/ ReceiveReputation(e)
  \/ \E entry \in Entries : ChooseLabeler(entry)
  \/ \E l \in DOMAIN ActiveLabelers : MuteLabeler(l)
  \/ RepTick

RepSpec == RepInit /\ [][RepNext]_repVars

-----------------------------------------------------------------------------
(* Properties.                                                             *)

RepTypeOK ==
  /\ repRows \in Seq(RepEvents)
  /\ chosen \in Seq(Entries)
  /\ muted \subseteq Nat
  /\ repNow \in 0..MaxRepNow

\* Those to whom chains of words lead from the seeds: they are in every set that holds
\* the seeds and of whom its members say something.
Known(events) ==
  {n \in Everyone(events) :
     \A closed \in SUBSET Everyone(events) :
       /\ {c.subject : c \in SeedContacts} \subseteq closed
       /\ \A p \in Pairs(events) : p[1] \in closed => p[2] \in closed
       => n \in closed}

\* The events without the words of observers that are not known.
OfTheKnown(events) ==
  {e \in events : e.kind \in {"observation", "attestation"} => e.by \in Known(events)}

\* What an observer says of whom no chain of words from the seeds tells changes no
\* score and no distance: with the words of all such observers taken out of the log,
\* computeReputation answers the same, as long as the graph is not truncated.
StrangersGainNothing ==
  Cardinality(Nodes(ToSet(repRows))) < MaxRepNodes
    => LocalScores(OfTheKnown(ToSet(repRows))) = LocalScores(ToSet(repRows))

\* A score that the view takes from a labeler is the last word of a labeler that the
\* user follows and has not muted: it was not removed after it was published, whatever
\* the order in which publications, removals and the user's choices came.
EndorsedIsCurrent ==
  \A v \in AggregatedView(repRows) :
    v.is.source # Local =>
      /\ v.is.source \notin muted
      /\ \E i \in DOMAIN repRows :
           /\ repRows[i].kind = "published" /\ repRows[i].about = v.about
           /\ Publisher[repRows[i].id] = v.is.source
           /\ \A j \in (i + 1)..Len(repRows) :
                ~(/\ repRows[j].kind \in {"published", "removed"}
                  /\ repRows[j].about = v.about
                  /\ Publisher[repRows[j].id] = v.is.source)
=============================================================================
