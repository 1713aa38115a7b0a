----------------------------- MODULE SafetyLabels ----------------------------
(***************************************************************************)
(* Labels, labelers and subscriptions: the log of labeler events of        *)
(* packages/local-store, applyLabelerEvent and the stack of effective      *)
(* labels of packages/trust-safety/src/labelers-runtime.                   *)
(*                                                                         *)
(* One subject and one subscriber; an event carries what it is about.      *)
(***************************************************************************)
EXTENDS Naturals, Sequences, FiniteSets, Folds, SequencesExt

CONSTANTS
  LabelEvents,      \* events: [id, kind, of, labeler, who, name, trusts]
  MalformedLabels,  \* those that validateLabelerEvent refuses
  MaxLabelRows      \* bound: the rows of the log

LabelKinds ==
  {"profile", "define", "subscribe", "unsubscribe", "apply", "revoke", "annotate"}

\* Of is what the event is about: a subscription, a label, a labeler's profile, an
\* annotation; who is the actor that issues it; name is the label's key in its
\* namespace; trusts are the names that a subscription trusts.
LabelEvent ==
  [id: Nat, kind: LabelKinds, of: STRING, labeler: STRING, who: STRING,
   name: STRING, trusts: SUBSET STRING]

ASSUME LabelAssumption ==
  /\ LabelEvents \subseteq LabelEvent
  /\ MalformedLabels \subseteq LabelEvents
  /\ MaxLabelRows \in Nat

VARIABLE labelLog   \* trustSafetyLabelerEvents, in the order of sequence

labelVars == <<labelLog>>

\* The state keeps the events it was told of: those that define a label, the active
\* subscriptions with their places in the order in which they were made, the ended
\* ones, the labels in force and the revoked ones, the last profile of each labeler,
\* the annotations.  told counts the events.
NoLabels ==
  [told |-> 0, defined |-> {}, active |-> {}, ended |-> {}, shown |-> {}, revoked |-> {},
   profiles |-> {}, notes |-> {}]

LabelInit == labelLog = <<>>

-----------------------------------------------------------------------------
(* applyLabelerEvent.                                                      *)

\* Only the actor that issued a label may revoke it.
AllowsRevocation(state, e) == \E l \in state.shown : l.of = e.of /\ l.who = e.who

NamedBy(e, events) == {x \in events : x.of = e.of}

Subscriptions(state) == {s.sub : s \in state.active}

\* The transitions that do not throw.
Transitions(state, e) ==
  CASE e.kind = "define" -> ~\E d \in state.defined : d.name = e.name
    [] e.kind = "subscribe" -> NamedBy(e, Subscriptions(state) \cup state.ended) = {}
    [] e.kind = "unsubscribe" -> NamedBy(e, Subscriptions(state)) # {}
    [] e.kind = "apply" -> ~\E l \in state.shown \cup state.revoked : l.of = e.of
    [] e.kind = "revoke" -> AllowsRevocation(state, e)
    [] OTHER -> TRUE

\* Of an event that throws the load keeps nothing.
Told(state, e) ==
  IF ~Transitions(state, e) THEN state
  ELSE CASE e.kind = "define" -> [state EXCEPT !.defined = @ \cup {e}]
         [] e.kind = "subscribe" ->
              [state EXCEPT !.active = @ \cup {[sub |-> e, place |-> state.told]}]
         [] e.kind = "unsubscribe" ->
              [state EXCEPT !.active = {s \in @ : s.sub.of # e.of},
                            !.ended = @ \cup NamedBy(e, Subscriptions(state))]
         [] e.kind = "apply" -> [state EXCEPT !.shown = @ \cup {e}]
         [] e.kind = "revoke" ->
              [state EXCEPT !.shown = @ \ NamedBy(e, @),
                            !.revoked = @ \cup NamedBy(e, state.shown)]
         [] e.kind = "profile" -> [state EXCEPT !.profiles = (@ \ NamedBy(e, @)) \cup {e}]
         [] e.kind = "annotate" ->
              [state EXCEPT !.notes = IF NamedBy(e, @) = {} THEN @ \cup {e} ELSE @]

ApplyLabel(state, e) == [Told(state, e) EXCEPT !.told = @ + 1]

\* loadLabelersState.
LoadedLabels(rows) == FoldLeft(ApplyLabel, NoLabels, rows)

-----------------------------------------------------------------------------
(* effectiveLabelsForSubject, without the action that a label calls for.    *)

\* The last active subscription to a labeler is the one that counts.
TrustedBy(state, labeler) ==
  LET subs == {s \in state.active : s.sub.labeler = labeler}
  IN  {s.sub : s \in {x \in subs : \A y \in subs : y.place <= x.place}}

Stack(state) ==
  {l \in state.shown : \E s \in TrustedBy(state, l.labeler) : l.name \in s.trusts}

-----------------------------------------------------------------------------
(* The log.                                                                *)

\* appendTrustSafetyLabelerEvent.
AppendLabel(e) ==
  /\ Len(labelLog) < MaxLabelRows
  /\ e \notin MalformedLabels
  /\ e.id \notin {labelLog[i].id : i \in DOMAIN labelLog}
  /\ labelLog' = Append(labelLog, e)

LabelNext == \E e \in LabelEvents : AppendLabel(e)

LabelSpec == LabelInit /\ [][LabelNext]_labelVars

-----------------------------------------------------------------------------
(* Properties.                                                             *)

\* The rows of kind about one subscription or label.
RowsOf(kind, of, rows) == {i \in DOMAIN rows : rows[i].kind = kind /\ rows[i].of = of}

\* The rows of kind that were the first to use their name.
FirstRows(kind) ==
  {i \in DOMAIN labelLog :
     labelLog[i].kind = kind /\ \A j \in RowsOf(kind, labelLog[i].of, labelLog) : i <= j}

\* No row twice, and a label either in force or revoked.
LabelTypeOK ==
  /\ labelLog \in Seq(LabelEvents \ MalformedLabels)
  /\ \A i, j \in DOMAIN labelLog : labelLog[i] = labelLog[j] => i = j
  /\ LET state == LoadedLabels(labelLog)
     IN  /\ state.shown \cap state.revoked = {}
         /\ Subscriptions(state) \cap state.ended = {}

\* What is shown can be read off the log, whatever order it was written in and
\* whatever rows of it are refused: a label from the first row of its name on, unless
\* its own issuer has revoked it after that, and if the last subscription to its
\* labeler that was not ended after it was made trusts it.
StackIsReadOffTheLog ==
  LET inForce == {i \in FirstRows("apply") :
                    ~\E j \in RowsOf("revoke", labelLog[i].of, labelLog) :
                       j > i /\ labelLog[j].who = labelLog[i].who}
      standing == {i \in FirstRows("subscribe") :
                     ~\E j \in RowsOf("unsubscribe", labelLog[i].of, labelLog) : j > i}
  IN  Stack(LoadedLabels(labelLog)) =
        {labelLog[i] : i \in {k \in inForce :
           \E s \in standing :
             /\ labelLog[s].labeler = labelLog[k].labeler
             /\ \A t \in standing : labelLog[t].labeler = labelLog[s].labeler => t <= s
             /\ labelLog[k].name \in labelLog[s].trusts}}
=============================================================================
