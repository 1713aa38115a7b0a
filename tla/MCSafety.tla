------------------------------ MODULE MCSafety ------------------------------
(* The parts of packages/trust-safety and packages/capabilities that share no*)
(* variable, for TLC: the transport admission of a bridge, the user's own    *)
(* controls, labels, the cases that reports make, capabilities, chains of    *)
(* proofs and their registry, reputation and the search for cliques.  A      *)
(* behaviour exercises one part, so that their state spaces add up.          *)
EXTENDS Admission, SafetyControls, SafetyLabels, SafetyCases, Capabilities, Reputation,
        CliqueSearch, ProofChain, ProofRegistry, TLC

CONSTANTS k1, k2, p1

VARIABLE part   \* the part that a behaviour exercises

-----------------------------------------------------------------------------
(* Envelopes of one peer: one that is in order and one that is not.          *)

MinScoreValue == -40
QuarantineValue == -14
RecoveryValue == -3
PeerOfValue == [k \in AdmKeys |-> p1]
FlawOfValue == k1 :> "none" @@ k2 :> "kind"

-----------------------------------------------------------------------------
(* A block that is lifted, an allowlist entry, a preference for a hard-safety*)
(* label, and a snapshot that was stored as an event.                        *)

UserControl(id, kind, action, rank, at, expires) ==
  [id |-> id, kind |-> kind, action |-> action, rank |-> rank, at |-> at, expires |-> expires]

MCControlEvents ==
  {UserControl(1, "block", "apply", 5, 1, 1), UserControl(2, "block", "remove", 5, 0, 0),
   UserControl(3, "allow", "apply", 0, 1, 0), UserControl(4, "hard", "apply", 3, 2, 0),
   UserControl(5, "label", "snapshot", 0, 1, 0)}

-----------------------------------------------------------------------------
(* Two subscriptions to one labeler, two labels, and revocations by the      *)
(* issuer and by another actor.                                              *)

Labeling(id, kind, of, who, name, trusts) ==
  [id |-> id, kind |-> kind, of |-> of, labeler |-> "L", who |-> who, name |-> name,
   trusts |-> trusts]

MCLabelEvents ==
  {Labeling(1, "subscribe", "s1", "me", "", {"n"}), Labeling(2, "subscribe", "s2", "me", "", {"m"}),
   Labeling(3, "unsubscribe", "s2", "me", "", {}), Labeling(4, "apply", "l1", "x", "n", {}),
   Labeling(5, "revoke", "l1", "y", "n", {}), Labeling(6, "revoke", "l1", "x", "n", {}),
   Labeling(7, "apply", "l2", "x", "m", {}), Labeling(8, "subscribe", "s1", "me", "", {"m"}),
   Labeling(9, "define", "", "x", "n", {})}

-----------------------------------------------------------------------------
(* A report with its retry, which is addressed more widely, and one that     *)
(* takes its place under a key of its own; one about a thing that is private *)
(* and two that should not be taken; an appeal, its retry and one that takes *)
(* its place; two decisions under one id and one that should not be taken.   *)

ReportOf(id, private, wide, open) ==
  [id |-> id, key |-> id, private |-> private, wide |-> wide, open |-> open]

MCReports ==
  {ReportOf("r1", FALSE, FALSE, TRUE), ReportOf("r1", FALSE, TRUE, TRUE),
   [ReportOf("r1", TRUE, FALSE, FALSE) EXCEPT !.key = "anew"],
   ReportOf("r2", TRUE, FALSE, FALSE), ReportOf("r2", TRUE, FALSE, TRUE),
   ReportOf("r3", TRUE, TRUE, FALSE), ReportOf("r3", FALSE, FALSE, FALSE)}

MCAppeals ==
  {[id |-> "a1", key |-> "k", decision |-> "d1"], [id |-> "a1", key |-> "k", decision |-> "d2"],
   [id |-> "a1", key |-> "anew", decision |-> "d2"]}

DecisionOf(id, private, action, scope, version) ==
  [id |-> id, private |-> private, action |-> action, scope |-> scope, policy |-> "c1",
   version |-> version]

MCDecisions ==
  {DecisionOf("d1", TRUE, "other", "community-local", 1),
   DecisionOf("d1", TRUE, "reject-transport", "bridge-local", 2),
   DecisionOf("d2", FALSE, "curation", "index-local", 3),
   DecisionOf("d2", TRUE, "curation", "index-local", 1),
   DecisionOf("d2", FALSE, "reject-transport", "community-local", 1)}

-----------------------------------------------------------------------------
(* A grant that is delegated twice, variants of the delegations with a longer*)
(* life, one more action or a cycle, and a fork with two parents; two of the *)
(* revocations have one id.                                                  *)

Delegation(id, issuer, audience, actions, depth, notBefore, expires, proofs) ==
  [id |-> id, issuer |-> issuer, audience |-> audience, about |-> "r", actions |-> actions,
   depth |-> depth, notBefore |-> notBefore, expires |-> expires, proofs |-> proofs]

MCGrants ==
  {Delegation("root", "A", "B", {"x", "y"}, 2, 0, 2, {}),
   Delegation("root", "A", "B", {"x"}, 2, 1, 2, {"leaf"}),
   Delegation("mid", "B", "C", {"x"}, 1, 0, 2, {"root"}),
   Delegation("mid", "B", "C", {"x", "z"}, 1, 0, 2, {"root"}),
   Delegation("leaf", "C", "D", {"x"}, 0, 0, 2, {"mid"}),
   Delegation("leaf", "C", "D", {"x"}, 0, 0, 3, {"mid"}),
   Delegation("fork", "C", "D", {"x"}, 2, 1, 1, {"mid", "root"})}

MCRevocations ==
  {[id |-> "v1", of |-> "root", by |-> "A", at |-> 1],
   [id |-> "v2", of |-> "mid", by |-> "A", at |-> 0],
   [id |-> "v2", of |-> "leaf", by |-> "C", at |-> 0]}

-----------------------------------------------------------------------------
(* Observations and attestations of the user, one of a friend and one of a   *)
(* stranger, a revocation, and two labelers' words of one party.             *)

Word(id, kind, by, about) ==
  [id |-> id, kind |-> kind, at |-> 0, by |-> by, about |-> about, plus |-> 0, minus |-> 0,
   start |-> 0, end |-> 1, sign |-> 1, strength |-> 10, met |-> FALSE, of |-> 0]

MCRepMalformed == {Word(20, "attestation", 1, 2)}

MCRepEvents ==
  MCRepMalformed \cup
  {[Word(1, "observation", 1, 2) EXCEPT !.plus = 3, !.end = 0],
   [Word(3, "attestation", 1, 3) EXCEPT !.met = TRUE, !.end = 0],
   Word(4, "attestation", 2, 1),
   Word(5, "attestation", 4, 2),
   [Word(6, "revocation", 1, 3) EXCEPT !.of = 3],
   [Word(7, "published", 0, 4) EXCEPT !.strength = 3],
   [Word(8, "removed", 0, 4) EXCEPT !.strength = 0],
   [Word(10, "published", 0, 4) EXCEPT !.strength = 8]}

MCPublisher == [id \in 7..10 |-> IF id = 10 THEN 2 ELSE 1]
MCRegistry == [l \in {1} |-> 2]
MCEntries == {[labeler |-> 2, priority |-> 0], [labeler |-> 0, priority |-> 1]}

-----------------------------------------------------------------------------
(* Two places, one inside the other; a native proof or a bearer token under  *)
(* one id, and a credential that is issued later than the proofs may have    *)
(* been revoked.                                                             *)

MCPlaces == {<<"a">>, <<"a", "b">>}

Registration(id, scheme, issued) ==
  [id |-> id, scheme |-> scheme, subject |-> "s", issued |-> issued, expires |-> 2, revoked |-> {}]

MCRegistrations ==
  {Registration("a", "native-signed-event", 0), Registration("a", "bearcap", 0),
   Registration("b", "vc", 1)}

\* References that say of the proof a that it is a credential, which it is not, or that
\* it is a bearer token, which it may be.
Referring(scheme) == {[id |-> "a", scheme |-> scheme], [id |-> "b", scheme |-> "vc"]}

InvocationWith(refs) ==
  [reserved |-> TRUE, misfits |-> {}, surface |-> "mutation", notBefore |-> 1, expires |-> 2,
   caveats |-> {[kind |-> "max-uses", value |-> 1, fits |-> TRUE]}, refs |-> refs]

MCInvocations == {InvocationWith(Referring("vc")), InvocationWith(Referring("bearcap"))}

MCVcBindings ==
  {[proof |-> "a", subject |-> "s"], [proof |-> "b", subject |-> "s"], [proof |-> "b", subject |-> "t"]}

MCVcWindow == [from |-> 1, until |-> 2]

-----------------------------------------------------------------------------
Idles(p) ==
  /\ p # "admission" => UNCHANGED vars
  /\ p # "controls" => UNCHANGED controlVars
  /\ p # "labels" => UNCHANGED labelVars
  /\ p \notin {"reports", "queue", "curation"} => UNCHANGED caseVars
  /\ p # "capabilities" => UNCHANGED capVars
  /\ p # "reputation" => UNCHANGED repVars
  /\ p # "cliques" => UNCHANGED cliqueVars
  /\ p # "chains" => UNCHANGED chainVars
  /\ p \notin {"registry", "verdicts"} => UNCHANGED registryVars

safetyVars ==
  <<part, vars, controlVars, labelVars, caseVars, capVars, repVars, cliqueVars, chainVars,
    registryVars>>

SafetyInit ==
  /\ part \in {"admission", "controls", "labels", "reports", "queue", "curation", "capabilities",
               "reputation", "cliques", "chains", "registry", "verdicts"}
  /\ Init /\ ControlInit /\ LabelInit /\ CaseInit /\ CapInit /\ RepInit
  /\ IF part = "cliques" THEN CliqueInit ELSE CliqueInitWith({})
  /\ ChainInit /\ (part # "chains" => pcScheme = "ucan")
  /\ RegistryInit

\* Deliveries overlap while the clock has not reached its bound.  Proofs are kept in rows,
\* or verdicts about them by their callers.
SafetyNext ==
  /\ \/ part = "admission" /\ Next /\ (raced' => admNow' < MaxAdmNow)
     \/ part = "controls" /\ ControlNext
     \/ part = "labels" /\ LabelNext
     \/ part = "reports" /\ ReportNext
     \/ part = "queue" /\ (QueueNext \/ PolicyNext)
     \/ part = "curation" /\ CurationNext
     \/ part = "capabilities" /\ CapNext
     \/ part = "reputation" /\ RepNext
     \/ part = "cliques" /\ CliqueNext
     \/ part = "chains" /\ ChainNext
     \/ part = "registry" /\ RegistryNext /\ UNCHANGED prVerdicts
     \/ part = "verdicts" /\ RegistryNext /\ UNCHANGED <<prRows, prWithdrawn>>
  /\ Idles(part)
  /\ UNCHANGED part

SafetySpec == SafetyInit /\ [][SafetyNext]_safetyVars

SafetyTypeOK ==
  /\ AdmissionTypeOK /\ ControlTypeOK /\ LabelTypeOK /\ CaseTypeOK /\ CapTypeOK /\ RepTypeOK
  /\ CliqueTypeOK /\ ChainTypeOK /\ RegistryTypeOK

SameHandlers == Permutations(Handlers)

-----------------------------------------------------------------------------
(* Properties of two parts at a time.                                        *)

\* What the user sees can be read off the rows of his log, his own controls and the
\* labels of others alike, in whatever order and however often they came in; and no
\* allowlist shows what safety hides.
ShownByTheLog == []StackIsReadOffTheLog /\ LastWordIsShown /\ []AllowlistKeepsSafety
=============================================================================
