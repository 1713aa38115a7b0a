--------------------------- MODULE SafetyControls ----------------------------
(***************************************************************************)
(* The user's own controls over what is shown: the log of local-control    *)
(* events of packages/local-store, applyLocalControlEvent, the snapshots   *)
(* and decideVisibility of packages/trust-safety/src/local-controls.       *)
(*                                                                         *)
(* Rows are numbered as they arrive and replayed in that order.  A         *)
(* snapshot of the state of another app of the user is merged into the     *)
(* state that this app holds.  All of it is seen through the decision on   *)
(* one post, which every control of the model is about.                    *)
(***************************************************************************)
EXTENDS Naturals, Sequences, FiniteSets, Folds, SequencesExt

CONSTANTS
  Controls,         \* events: [id, kind, action, rank, at, expires]
  MalformedControls,\* those that validateLocalControlEvent refuses
  MaxControlNow     \* bound: the last tick of the clock

\* What an entry is keyed by; several kinds of entries of the code that are
\* handled alike are one kind here: block (actors, domains, hidden posts), mute
\* (actors, threads, keywords, notification channels), allow, and the
\* preferences for an ordinary and for a hard-safety label.
ControlKinds == {"block", "mute", "allow", "label", "hard"}

\* The rank of a decision: 0 is show, 5 is hide.
Ranks == 0..5

\* A removal is a revert, or an unsubscription whatever its action; expires is 0
\* for an entry that does not expire.
Control ==
  [id: Nat, kind: ControlKinds, action: {"apply", "remove", "snapshot"}, rank: Ranks,
   at: Nat, expires: Nat]

ASSUME ControlAssumption ==
  /\ Controls \subseteq Control
  /\ \A c \in Controls : c.kind = "block" => c.rank = 5
  /\ \A c \in Controls : c.kind = "allow" => c.rank = 0
  /\ MalformedControls \subseteq Controls
  /\ MaxControlNow \in Nat

VARIABLES
  controlLog,   \* trustSafetyControlEvents, in the order of sequence
  controlState, \* the state that the app holds
  otherState,   \* the state of another app of the user, taken as a snapshot
  controlNow    \* wall clock

controlVars == <<controlLog, controlState, otherState, controlNow>>

EntryOf(c) == [rank |-> c.rank, since |-> c.at, expires |-> c.expires]

\* At most one entry for each kind.
ControlState == [ControlKinds -> {{}} \cup {{EntryOf(c)} : c \in Controls}]

NoControls == [k \in ControlKinds |-> {}]

ControlInit ==
  /\ controlLog = <<>>
  /\ controlState = NoControls
  /\ otherState = NoControls
  /\ controlNow = 0

-----------------------------------------------------------------------------
(* applyLocalControlEvent.                                                 *)

WellFormed(c) == c \notin MalformedControls

\* Faulty variant: a removal leaves what is dated later than it.
ApplyControlByDate(state, c) ==
  IF c.action = "apply" THEN [state EXCEPT ![c.kind] = {EntryOf(c)}]
  ELSE [state EXCEPT ![c.kind] = {x \in @ : x.since > c.at}]

\* The last to be applied stands, whatever its date.
ApplyControl(state, c) ==
  IF c.action = "apply" THEN [state EXCEPT ![c.kind] = {EntryOf(c)}]
  ELSE [state EXCEPT ![c.kind] = {}]

\* A snapshot event is refused here, and the error ends the whole load.
Loadable(log) == \A i \in DOMAIN log : log[i].action # "snapshot"

\* loadLocalControlState.
Loaded(log) == FoldLeft(ApplyControl, NoControls, log)

-----------------------------------------------------------------------------
(* The log.                                                                *)

Logged(c) == \E i \in DOMAIN controlLog : controlLog[i] = c

\* appendTrustSafetyControlEvent, and the load after it.
AppendControl(c) ==
  /\ WellFormed(c)
  /\ ~Logged(c)
  /\ controlLog' = Append(controlLog, c)
  /\ controlState' = IF Loadable(controlLog') THEN Loaded(controlLog') ELSE controlState
  /\ UNCHANGED <<otherState, controlNow>>

\* Another app of the user has applied some of the events.
TakeSnapshot(c) ==
  /\ WellFormed(c)
  /\ c.action # "snapshot"
  /\ otherState' = ApplyControl(otherState, c)
  /\ UNCHANGED <<controlLog, controlState, controlNow>>

\* mergeRecord: the incoming entry wins, or the one that is newer.
Merged(current, incoming, strategy) ==
  [k \in ControlKinds |->
     IF strategy = "replace" THEN incoming[k]
     ELSE IF incoming[k] = {} THEN current[k]
     ELSE IF strategy = "union" \/ current[k] = {} THEN incoming[k]
     ELSE IF \E x \in incoming[k], y \in current[k] : x.since > y.since THEN incoming[k]
     ELSE current[k]]

\* importPreferencesSnapshot.
ImportSnapshot(strategy) ==
  /\ otherState # NoControls
  /\ controlState' = Merged(controlState, otherState, strategy)
  /\ otherState' = NoControls
  /\ UNCHANGED <<controlLog, controlNow>>

ControlTick ==
  /\ controlNow < MaxControlNow
  /\ controlNow' = controlNow + 1
  /\ UNCHANGED <<controlLog, controlState, otherState>>

ControlNext ==
  \/ \E c \in Controls : AppendControl(c) \/ TakeSnapshot(c)
  \/ \E strategy \in {"union", "replace", "merge-newer-wins"} : ImportSnapshot(strategy)
  \/ ControlTick

ControlSpec == ControlInit /\ [][ControlNext]_controlVars

-----------------------------------------------------------------------------
(* decideVisibility.                                                       *)

\* isExpired; pruneExpiredLocalControlState takes away what this leaves out.
InForce(state, k, clock) == {x \in state[k] : x.expires = 0 \/ clock <= x.expires}

WithoutExpired(state, clock) == [k \in ControlKinds |-> InForce(state, k, clock)]

\* What the allowlist of the user does not lift.
AppliesAnyway(k) == k \in {"block", "mute", "hard"}

\* The most restrictive decision of those that apply.
Visibility(state, clock) ==
  LET allowed == InForce(state, "allow", clock) # {}
      applies == {k \in ControlKinds : AppliesAnyway(k) \/ ~allowed}
      ranks   == {x.rank : x \in UNION {InForce(state, k, clock) : k \in applies}}
  IN  CHOOSE r \in ranks \cup {0} : \A other \in ranks : other <= r

-----------------------------------------------------------------------------
(* Properties.                                                             *)

\* The state of the log and of the apps.
ControlTypeOK ==
  /\ controlLog \in Seq(Controls \ MalformedControls)
  /\ controlState \in ControlState
  /\ otherState \in ControlState
  /\ controlNow \in 0..MaxControlNow

\* The last row about a kind that is not followed by another one.
LastRows(log, k) ==
  {i \in DOMAIN log : log[i].kind = k /\ \A j \in DOMAIN log : log[j].kind = k => j <= i}

\* Whatever an import has put into the state before, a row that arrives leaves for
\* each kind what the last row about it says; and of it all the user sees what the
\* most restrictive row in force demands, an allowlist entry lifting an ordinary
\* label only.
LastWordIsShown ==
  [][\A c \in Controls :
       AppendControl(c) /\ Loadable(controlLog') =>
         /\ \A k \in ControlKinds :
              controlState'[k] =
                {EntryOf(controlLog'[i]) : i \in {j \in LastRows(controlLog', k) :
                                                    controlLog'[j].action = "apply"}}
         /\ Visibility(WithoutExpired(controlState', controlNow), controlNow) =
              Visibility(controlState', controlNow)]_controlVars

\* Whoever is on the allowlist, nothing is shown more freely than the user's own
\* blocks and mutes and the preferences for hard-safety labels demand.
AllowlistKeepsSafety ==
  \A k \in {"block", "mute", "hard"} :
    \A x \in InForce(controlState, k, controlNow) :
      Visibility(controlState, controlNow) >= x.rank
=============================================================================
