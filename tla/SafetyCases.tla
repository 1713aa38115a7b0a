----------------------------- MODULE SafetyCases -----------------------------
(***************************************************************************)
(* What follows a report: the projections of                               *)
(* packages/trust-safety/src/reports-appeals, moderation-runtime and       *)
(* curation-runtime.  Their events reach them in any order and more than   *)
(* once; the parameters of an action are what its event names.             *)
(*                                                                         *)
(* An event that would throw is an action that is not enabled, as is one   *)
(* that changes nothing, for its eventId or what it carries is known.      *)
(***************************************************************************)
EXTENDS Naturals, Integers, FiniteSets, Functions

CONSTANTS
  Reports,      \* reports of one reporter about one subject on one day
  ReportCap,    \* how many of them are taken
  Appeals,      \* appeals of decisions
  QueueItems,   \* items of the moderation queue
  Assignees,    \* authorities that an item can be assigned to
  Policies,     \* policies of the community
  MaxVersion,   \* bound: the versions of a policy
  Decisions,    \* decisions that are recorded
  Rules,        \* curation rules, about one item
  MaxDelta      \* bound: the boosts and downranks by one rule

\* The reporter makes up both the id of a report and its idempotency key, and may send
\* one id under two keys or two ids under one.  What a report is about may be private by
\* nature; its scope may be wide, an index or the network; its evidence may be open, not
\* encrypted.
Report == [id: STRING, key: STRING, private: BOOLEAN, wide: BOOLEAN, open: BOOLEAN]

\* An appeal names the decision it is about.
Appeal == [id: STRING, key: STRING, decision: STRING]

\* One scope for each kind that is told apart.
EnforcementScope ==
  {"community-local", "bridge-local", "app-surface-local", "index-local", "network-advisory"}

\* A decision refers to a version of a policy, which may be another community's.
Decision ==
  [id: STRING, private: BOOLEAN, action: {"reject-transport", "curation", "other"},
   scope: EnforcementScope, policy: STRING, version: Nat]

ASSUME CaseAssumption ==
  /\ Reports \subseteq Report /\ Appeals \subseteq Appeal /\ Decisions \subseteq Decision
  /\ ReportCap \in Nat /\ MaxVersion \in Nat \ {0} /\ MaxDelta \in Nat
  /\ IsFiniteSet(Rules)

ReportIds == {r.id : r \in Reports}
AppealIds == {a.id : a \in Appeals}
DecisionIds == {d.id : d \in Decisions}

VARIABLES
  reports,    \* byReportId: [report, status, outcome] of each, {} if it is not there
  inbox,      \* byTargetAuthority: the reports that are listed
  filed,      \* reportsByReporterSubjectDay: the reports counted against the cap
  reportKeys, \* byReportIdempotencyKey
  appealKeys, \* byAppealIdempotencyKey
  appeals,    \* byAppealId: [appeal, status, outcome] of each, {} if it is not there
  contested,  \* byAppealedDecisionId: <<decision, appeal>>
  items,      \* queueItemsById: the status of each and its assignee
  byStatus,   \* queueIdsByStatus
  byAssignee, \* queueIdsByAssignee
  versions,   \* policiesByPolicyIdAndVersion: the status of each version
  latest,     \* activePolicyVersionByPolicyId, 0 if there is none
  decided,    \* decisionsById: the decision of each id, {} if there is none
  underPolicy, \* decisionsByPolicyId: <<policy, version, decision>>
  rules,      \* rulesById: the status of each
  given,      \* itemsBySubjectKey: what each rule has boosted less downranked
  net,        \* netScoreDelta
  exclusions  \* the exclusions of the item: <<rule, from where>>

reportVars == <<reports, inbox, filed, reportKeys, appeals, appealKeys, contested>>
queueVars == <<items, byStatus, byAssignee>>
policyVars == <<versions, latest, decided, underPolicy>>
curationVars == <<rules, given, net, exclusions>>
caseVars == <<reportVars, queueVars, policyVars, curationVars>>

ItemStatus == {"open", "assigned", "resolved"}

CaseInit ==
  /\ reports = [i \in ReportIds |-> {}]
  /\ inbox = {} /\ filed = {} /\ reportKeys = {} /\ appealKeys = {}
  /\ appeals = [i \in AppealIds |-> {}]
  /\ contested = {}
  /\ items = [q \in QueueItems |-> [status |-> "none", to |-> {}]]
  /\ byStatus = [s \in ItemStatus |-> {}]
  /\ byAssignee = [a \in Assignees |-> {}]
  /\ versions = [p \in Policies |-> [v \in 1..MaxVersion |-> "none"]]
  /\ latest = [p \in Policies |-> 0]
  /\ decided = [i \in DecisionIds |-> {}]
  /\ underPolicy = {}
  /\ rules = [r \in Rules |-> "none"]
  /\ given = [r \in Rules |-> 0]
  /\ net = 0
  /\ exclusions = {}

StatusOf(held) == IF held = {} THEN "none" ELSE (CHOOSE h \in held : TRUE).status

-----------------------------------------------------------------------------
(* What is private.                                                        *)

\* validateSafetyReport.
ValidReport(r) == ~(r.private /\ r.wide)

\* assertPrivateEvidenceOnPrivateSubject.
EvidenceIsSealed(r) == r.private => ~r.open

\* validateSafetyPolicyDecision: who may decide what, and how far it is heard.
ValidDecision(d) ==
  /\ d.action = "reject-transport" => d.scope \in {"bridge-local", "app-surface-local"}
  /\ d.action = "curation" => d.scope \notin {"bridge-local", "network-advisory"}
  /\ ~(d.private /\ d.scope \in {"index-local", "network-advisory"})

ExcludeFrom == {"feed", "search", "recommendation"}

PublicSurfaces == {"public-feed", "search", "recommendation"}

\* decideReportAsCurationSignal.
IsCurationSignal(r, surface) == surface \in PublicSurfaces => ~r.private

\* decideCurationSurfaceIngest, for a thing that was sent to all or to some.
IsIngested(surface, public, private) == surface \in PublicSurfaces => public /\ ~private

-----------------------------------------------------------------------------
(* applyReportAppealEvent.                                                 *)

\* Faulty variant: a report is taken for a retry only while it is open.
AnswersAgain(r) == r.key \in reportKeys /\ StatusOf(reports[r.id]) # "resolved"

\* A retry: the idempotency key has been seen.
IsRetry(r) == r.key \in reportKeys

\* safety.report.created, once there is room for it.  Only the key is looked up: a report
\* of a known id under a new key takes the place of the one that is there, whatever has
\* become of that, and is not listed or counted again.
CreateReport(r) ==
  /\ ValidReport(r)
  /\ ~IsRetry(r)
  /\ Cardinality(filed) < ReportCap
  /\ EvidenceIsSealed(r)
  /\ reports' = [reports EXCEPT ![r.id] = {[report |-> r, status |-> "submitted", outcome |-> "none"]}]
  /\ inbox' = inbox \cup {r.id}
  /\ filed' = filed \cup {r.id}
  /\ reportKeys' = reportKeys \cup {r.key}
  /\ UNCHANGED <<appeals, appealKeys, contested>>

\* safety.report.acknowledged.
AcknowledgeReport(i) ==
  /\ StatusOf(reports[i]) = "submitted"
  /\ reports' = [reports EXCEPT ![i] = {[h EXCEPT !.status = "acknowledged"] : h \in @}]
  /\ UNCHANGED <<inbox, filed, reportKeys, appeals, appealKeys, contested>>

\* What can become of a report or an appeal, and whether the event names the authority
\* that it was escalated to, or the decision that takes the place of the first.
Resolution == [outcome: {"escalated", "overturned", "closed"}, names: BOOLEAN]

\* validateReportAppealEvent: it names one exactly if there must be one.
ValidResolution(e, outcome) ==
  /\ e.outcome \in {outcome, "closed"}
  /\ e.names <=> e.outcome = outcome

\* safety.report.resolved, acknowledged or not.
ResolveReport(i, e) ==
  /\ ValidResolution(e, "escalated")
  /\ StatusOf(reports[i]) \in {"submitted", "acknowledged"}
  /\ reports' = [reports EXCEPT ![i] =
                   {[h EXCEPT !.status = "resolved", !.outcome = e.outcome] : h \in @}]
  /\ UNCHANGED <<inbox, filed, reportKeys, appeals, appealKeys, contested>>

\* safety.appeal.created, of a decision that need not be known here.  One of a known id
\* under a new key takes the place of the other and is listed under its own decision too.
CreateAppeal(a) ==
  /\ a.key \notin appealKeys
  /\ appeals' = [appeals EXCEPT ![a.id] =
                   {[appeal |-> a, status |-> "submitted", outcome |-> "none"]}]
  /\ contested' = contested \cup {<<a.decision, a.id>>}
  /\ appealKeys' = appealKeys \cup {a.key}
  /\ UNCHANGED <<reports, inbox, filed, reportKeys>>

\* safety.appeal.resolved.
ResolveAppeal(i, e) ==
  /\ ValidResolution(e, "overturned")
  /\ StatusOf(appeals[i]) = "submitted"
  /\ appeals' = [appeals EXCEPT ![i] =
                   {[h EXCEPT !.status = "resolved", !.outcome = e.outcome] : h \in @}]
  /\ UNCHANGED <<reports, inbox, filed, reportKeys, appealKeys, contested>>

-----------------------------------------------------------------------------
(* applyModerationEvent.                                                   *)

\* moderation.queue.item.created.
CreateItem(q) ==
  /\ items[q].status = "none"
  /\ items' = [items EXCEPT ![q] = [status |-> "open", to |-> {}]]
  /\ byStatus' = [byStatus EXCEPT !.open = @ \cup {q}]
  /\ UNCHANGED byAssignee

\* moderation.queue.item.assigned.
AssignItem(q, a) ==
  /\ items[q].status = "open"
  /\ items' = [items EXCEPT ![q] = [status |-> "assigned", to |-> {a}]]
  /\ byStatus' = [byStatus EXCEPT !.open = @ \ {q}, !.assigned = @ \cup {q}]
  /\ byAssignee' = [byAssignee EXCEPT ![a] = @ \cup {q}]

\* A resolved item leaves the inbox of its assignee.
TakenFromInbox(q) ==
  [a \in Assignees |-> IF a \in items[q].to THEN byAssignee[a] \ {q} ELSE byAssignee[a]]

\* moderation.queue.item.resolved, assigned or not.
ResolveItem(q) ==
  /\ items[q].status \in {"open", "assigned"}
  /\ items' = [items EXCEPT ![q].status = "resolved"]
  /\ byStatus' = [s \in ItemStatus |->
                    IF s = "resolved" THEN byStatus[s] \cup {q} ELSE byStatus[s] \ {q}]
  /\ byAssignee' = TakenFromInbox(q)

\* safety.policy.created: version 1 of a policy that never was.
CreatePolicy(p) ==
  /\ latest[p] = 0
  /\ versions[p][1] = "none"
  /\ versions' = [versions EXCEPT ![p][1] = "active"]
  /\ latest' = [latest EXCEPT ![p] = 1]
  /\ UNCHANGED <<decided, underPolicy>>

\* validateSafetyPolicy: a version supersedes one before it, or none, which is 0.
ValidPolicy(v, supersedes) == v >= 1 /\ supersedes < v

\* safety.policy.updated: v and the version that it says it supersedes.
UpdatePolicy(p, v, supersedes) ==
  /\ ValidPolicy(v, supersedes)
  /\ latest[p] # 0
  /\ v = latest[p] + 1
  /\ supersedes = latest[p]
  /\ versions' = [versions EXCEPT ![p][v] = "active"]
  /\ latest' = [latest EXCEPT ![p] = v]
  /\ UNCHANGED <<decided, underPolicy>>

\* safety.policy.deprecated.
DeprecatePolicy(p) ==
  /\ latest[p] # 0
  /\ versions' = [versions EXCEPT ![p][latest[p]] = "deprecated"]
  /\ latest' = [latest EXCEPT ![p] = 0]
  /\ UNCHANGED <<decided, underPolicy>>

\* safety.policy.decision.recorded: the first of an id stays, and the policy it refers
\* to need not be here.
RecordDecision(d) ==
  /\ ValidDecision(d)
  /\ decided[d.id] = {}
  /\ decided' = [decided EXCEPT ![d.id] = {d}]
  /\ underPolicy' = underPolicy \cup {<<d.policy, d.version, d.id>>}
  /\ UNCHANGED <<versions, latest>>

-----------------------------------------------------------------------------
(* applyCurationEvent and computeItemRanking.                              *)

\* curation.rule.created.
CreateRule(r) ==
  /\ rules[r] = "none"
  /\ rules' = [rules EXCEPT ![r] = "active"]
  /\ UNCHANGED <<given, net, exclusions>>

\* curation.rule.disabled.
DisableRule(r) ==
  /\ rules[r] = "active"
  /\ rules' = [rules EXCEPT ![r] = "disabled"]
  /\ UNCHANGED <<given, net, exclusions>>

\* curation.item.boosted and curation.item.downranked, whatever became of the rule or
\* if it is not there yet.
ScoreItem(r, delta) ==
  /\ given[r] + delta \in -MaxDelta..MaxDelta
  /\ given' = [given EXCEPT ![r] = @ + delta]
  /\ net' = net + delta
  /\ UNCHANGED <<rules, exclusions>>

\* curation.item.excluded.
ExcludeItem(r, from) ==
  /\ exclusions' = exclusions \cup {<<r, from>>}
  /\ UNCHANGED <<rules, given, net>>

\* What the active rules make of the item, and where they leave it out.
Excluded == {x[2] : x \in {y \in exclusions : rules[y[1]] = "active"}}

Ranking == SumFunction([r \in {q \in Rules : rules[q] = "active"} |-> given[r]])

-----------------------------------------------------------------------------
ReportNext ==
  /\ \/ \E r \in Reports : CreateReport(r)
     \/ \E i \in ReportIds : AcknowledgeReport(i) \/ \E e \in Resolution : ResolveReport(i, e)
     \/ \E a \in Appeals : CreateAppeal(a)
     \/ \E i \in AppealIds, e \in Resolution : ResolveAppeal(i, e)
  /\ UNCHANGED <<queueVars, policyVars, curationVars>>

QueueNext ==
  /\ \E q \in QueueItems :
       CreateItem(q) \/ (\E a \in Assignees : AssignItem(q, a)) \/ ResolveItem(q)
  /\ UNCHANGED <<reportVars, policyVars, curationVars>>

PolicyNext ==
  /\ \/ \E p \in Policies :
          \/ CreatePolicy(p)
          \/ \E v \in 1..MaxVersion, s \in 0..MaxVersion : UpdatePolicy(p, v, s)
          \/ DeprecatePolicy(p)
     \/ \E d \in Decisions : RecordDecision(d)
  /\ UNCHANGED <<reportVars, queueVars, curationVars>>

CurationNext ==
  /\ \E r \in Rules :
       \/ CreateRule(r) \/ DisableRule(r)
       \/ \E delta \in {-1, 1} : ScoreItem(r, delta)
       \/ \E from \in ExcludeFrom : ExcludeItem(r, from)
  /\ UNCHANGED <<reportVars, queueVars, policyVars>>

CaseNext == ReportNext \/ QueueNext \/ PolicyNext \/ CurationNext

CaseSpec == CaseInit /\ [][CaseNext]_caseVars

-----------------------------------------------------------------------------
(* Properties.                                                             *)

\* The records of the three projections.
CaseTypeOK ==
  /\ \A i \in ReportIds : \A h \in reports[i] :
       h.report \in Reports /\ h.report.id = i
         /\ h.status \in {"submitted", "acknowledged", "resolved"}
  /\ inbox \subseteq ReportIds /\ filed \subseteq ReportIds
  /\ \A i \in AppealIds : \A h \in appeals[i] :
       h.appeal \in Appeals /\ h.appeal.id = i /\ h.status \in {"submitted", "resolved"}
  /\ items \in [QueueItems -> [status: ItemStatus \cup {"none"}, to: SUBSET Assignees]]
  /\ byStatus \in [ItemStatus -> SUBSET QueueItems]
  /\ byAssignee \in [Assignees -> SUBSET QueueItems]
  /\ versions \in [Policies -> [1..MaxVersion -> {"none", "active", "deprecated"}]]
  /\ latest \in [Policies -> 0..MaxVersion]
  /\ \A i \in DecisionIds : decided[i] \subseteq Decisions
  /\ rules \in [Rules -> {"none", "active", "disabled"}]
  /\ given \in [Rules -> -MaxDelta..MaxDelta]
  /\ net \in Int

\* The indexes of the projections list what the records say, whatever order the events
\* came in and however often: a moderator's inbox holds the items assigned to him that
\* are not resolved, the cap counts every report that is on record once, and a decision
\* is listed under the policy that it was made under and no other.  An appeal is listed
\* under the decision that it contests, and under no other but that of an appeal that
\* was taken under its id before.
IndexesAgree ==
  /\ inbox = {i \in ReportIds : reports[i] # {}} /\ filed = inbox
  /\ \A i \in AppealIds : \A h \in appeals[i] : <<h.appeal.decision, i>> \in contested
  /\ \A i \in AppealIds, d \in DecisionIds :
       <<d, i>> \in contested =>
         appeals[i] # {} /\ \E a \in Appeals : a.id = i /\ a.decision = d /\ a.key \in appealKeys
  /\ \A s \in ItemStatus : byStatus[s] = {q \in QueueItems : items[q].status = s}
  /\ \A a \in Assignees :
       byAssignee[a] = {q \in QueueItems : a \in items[q].to /\ items[q].status = "assigned"}
  /\ \A p \in Policies :
       latest[p] # 0 => \A v \in 1..MaxVersion : versions[p][v] = "active" <=> v <= latest[p]
  /\ underPolicy = UNION {{<<d.policy, d.version, i>> : d \in decided[i]} : i \in DecisionIds}

\* A report about something that is private by nature, once it is taken, shows nothing
\* in the open: it is not addressed to an index or the network, its evidence is
\* encrypted, and neither it nor its subject appears on a public surface.  Nor is a
\* decision about such a thing heard of everywhere.
PrivateStaysPrivate ==
  /\ \A i \in ReportIds : \A h \in reports[i] :
       h.report.private =>
         /\ ~h.report.wide /\ ~h.report.open
         /\ \A s \in PublicSurfaces, public \in BOOLEAN :
              ~IsCurationSignal(h.report, s) /\ ~IsIngested(s, public, h.report.private)
  /\ \A i \in DecisionIds : \A d \in decided[i] :
       d.private => d.scope \in {"community-local", "bridge-local", "app-surface-local"}

\* A report or an appeal of this id is taken under a key that was not known: a retry never
\* is, nor does an event that acknowledges or resolves one come to this.
ReportTakenAnew(i) ==
  \E r \in Reports :
    /\ r.id = i /\ r.key \in reportKeys' \ reportKeys
    /\ \E h \in reports'[i] : h.report = r /\ h.status = "submitted"

AppealTakenAnew(i) ==
  \E a \in Appeals :
    /\ a.id = i /\ a.key \in appealKeys' \ appealKeys
    /\ \E h \in appeals'[i] : h.appeal = a /\ h.status = "submitted"

\* Nothing that was closed is opened again or closed otherwise: a resolved item, a
\* deprecated policy, and a resolved report or appeal unless another is taken under its
\* id with a key that was never seen, which then stands as submitted.  What was decided
\* stays on record with the text of the policy it was decided under, through every
\* update, deprecation and appeal.  What a disabled rule gave, took or left out is out of
\* the ranking for good.
ClosedIsClosed ==
  [][/\ \A i \in ReportIds :
          StatusOf(reports[i]) = "resolved" => reports'[i] = reports[i] \/ ReportTakenAnew(i)
     /\ \A i \in AppealIds :
          StatusOf(appeals[i]) = "resolved" => appeals'[i] = appeals[i] \/ AppealTakenAnew(i)
     /\ \A q \in QueueItems : items[q].status = "resolved" => items'[q].status = "resolved"
     /\ \A p \in Policies :
          (\E v \in 1..MaxVersion : versions[p][v] = "deprecated") => versions'[p] = versions[p]
     /\ \A i \in DecisionIds : decided[i] # {} => decided'[i] = decided[i]
     /\ \A p \in Policies, v \in 1..MaxVersion : versions[p][v] # "none" => versions'[p][v] # "none"
     /\ \A r \in Rules :
          /\ rules[r] = "disabled" /\ given'[r] # given[r] => Ranking' = Ranking
          /\ rules[r] = "disabled" /\ (\E s \in ExcludeFrom : <<r, s>> \in exclusions' \ exclusions) =>
               Excluded' = Excluded]_caseVars

\* The cases that reports make are kept: their indexes agree, what is private stays so
\* and what is closed stays closed, unless it is reported or appealed anew.
CasesAreKept == []IndexesAgree /\ []PrivateStaysPrivate /\ ClosedIsClosed
=============================================================================
