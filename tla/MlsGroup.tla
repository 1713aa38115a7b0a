------------------------------- MODULE MlsGroup -------------------------------
(***************************************************************************)
(* The group-control projection of one MLS group on several devices:       *)
(* projectMlsGroupControlEvent of packages/mls-group-projection over       *)
(* appendMlsGroupControlEvent and updateMlsGroupProjection of              *)
(* packages/local-store.                                                   *)
(*                                                                         *)
(* A control names the control that it follows.  One that arrives before   *)
(* the control that it follows is rejected, and stays so; a commit that    *)
(* follows an accepted control other than the last one makes a fork.       *)
(* Controls of the device itself are stored and projected in one           *)
(* transaction, those of others are stored first and projected afterwards. *)
(* Controls arrive in any order and any number of times.                   *)
(***************************************************************************)
EXTENDS Naturals, FiniteSets

CONSTANTS
  MlsControls,   \* signed controls of the group, see Control
  MlsMalformed,  \* those of another version or with a field missing
  MlsDevices,    \* the devices whose projections are modelled
  MlsAutomated,  \* those that may settle a fork on their own
  MlsPullers     \* bound: the tabs of a device that take controls in

None == 0

MlsKinds ==
  {"created", "proposed", "added", "removed", "updated", "commit", "welcome",
   "advanced", "detected", "recovery", "stale"}

\* Which kinds only the device of a member may issue.
ByMembers == {"added", "removed", "updated", "advanced", "detected", "recovery"}

MlsIdentities == {c.who : c \in MlsControls} \cup UNION {c.others : c \in MlsControls}

\* who and device: the member and, if one is named, its device.  ref: the commit,
\* or the control that is selected or was rejected.  others: the initial
\* members, the conflicting commits, or the candidates that are given up.
MlsControl ==
  [kind: MlsKinds, id: Nat \ {None}, prev: Nat, epoch: Nat, issuer: Nat, who: Nat,
   device: SUBSET Nat, ref: Nat, others: SUBSET Nat]

ASSUME MlsAssumption ==
  /\ MlsControls \subseteq MlsControl
  /\ \A c, d \in MlsControls : c.id = d.id => c = d
  /\ MlsMalformed \subseteq MlsControls
  /\ \A c \in MlsControls \ MlsMalformed : c.kind = "commit" => c.ref # None
  /\ MlsAutomated \subseteq MlsDevices
  /\ MlsDevices \subseteq Nat
  /\ MlsPullers \in Nat

VARIABLES
  mls,        \* mlsGroupProjections, on each device
  mlsStored,  \* the controls in signedEvents
  mlsPending  \* stored, and not yet given to the projection

mlsVars == <<mls, mlsStored, mlsPending>>

Member == [status: {"none", "active", "removed"}, devices: SUBSET Nat]

Candidate == [id: Nat, ref: Nat, epoch: Nat, issuer: Nat]

EmptyGroup ==
  [epoch |-> 0, local |-> "unknown", accepted |-> {}, rejected |-> {}, candidates |-> {},
   members |-> [i \in MlsIdentities |-> [status |-> "none", devices |-> {}]],
   recoveries |-> {}, last |-> None, lastRef |-> None, lastIssuer |-> None]

MlsInit ==
  /\ mls = [d \in MlsDevices |-> EmptyGroup]
  /\ mlsStored = [d \in MlsDevices |-> {}]
  /\ mlsPending = [d \in MlsDevices |-> {}]

-----------------------------------------------------------------------------
(* What a control is refused for.                                          *)

IsMemberDevice(state, device) ==
  \E i \in MlsIdentities :
    state.members[i].status = "active" /\ device \in state.members[i].devices

\* A projection that has accepted nothing takes any previous control for its
\* last one.
ValidPreviousControl(state, c) == c.prev # None /\ state.last \in {None, c.prev}

Refused(state, c) ==
  \/ c \in MlsMalformed
  \/ c.kind = "created" /\ (state.accepted # {} \/ c.epoch # 0)
  \/ c.kind \notin {"created", "commit"} /\ ~ValidPreviousControl(state, c)
  \/ c.kind = "commit" /\ c.prev \notin state.accepted
  \/ c.kind \in ByMembers /\ ~IsMemberDevice(state, c.issuer)
  \/ c.kind = "commit" /\ c.prev = state.last /\ ~IsMemberDevice(state, c.issuer)
  \/ c.kind = "removed" /\ state.members[c.who].status = "none"

-----------------------------------------------------------------------------
(* What an accepted control does.                                          *)

Created(d, state, c) ==
  [state EXCEPT
     !.epoch = 0,
     !.local = IF d \in c.device THEN "member" ELSE "never-added",
     !.members = [i \in MlsIdentities |->
       [status |-> IF i \in c.others \cup {c.who} THEN "active" ELSE "none",
        devices |-> IF i = c.who THEN c.device ELSE {}]]]

Added(d, state, c) ==
  [state EXCEPT
     !.local = IF d \in c.device THEN "member" ELSE @,
     !.members[c.who] = [status |-> "active", devices |-> @.devices \cup c.device]]

Removed(d, state, c) ==
  [state EXCEPT
     !.local = IF d \in c.device \cup state.members[c.who].devices THEN "removed" ELSE @,
     !.members[c.who].status = "removed"]

Detected(state, c) ==
  [state EXCEPT !.candidates = @ \cup
     {[id |-> r, ref |-> r, epoch |-> c.epoch, issuer |-> c.issuer] : r \in c.others}]

Recovered(state, c) ==
  LET selected == {k \in state.candidates : k.id = c.ref}
      chosen   == CHOOSE k \in selected : TRUE
  IN  [state EXCEPT
         !.candidates = {k \in @ : k.id \notin c.others \cup {c.ref}},
         !.recoveries = @ \cup {[selected |-> c.ref, rejected |-> c.others]},
         !.lastRef = IF selected = {} THEN @ ELSE chosen.ref,
         !.lastIssuer = IF selected = {} THEN @ ELSE chosen.issuer]

\* Proposals, updates and welcomes, also those for other devices, are noted.
Applied(d, state, c) ==
  CASE c.kind = "created" -> Created(d, state, c)
    [] c.kind = "added" -> Added(d, state, c)
    [] c.kind = "removed" -> Removed(d, state, c)
    [] c.kind = "advanced" -> [state EXCEPT !.epoch = c.epoch]
    [] c.kind = "detected" -> Detected(state, c)
    [] c.kind = "recovery" -> Recovered(state, c)
    [] c.kind = "stale" -> [state EXCEPT !.rejected = @ \cup {c.ref}]
    [] c.kind = "commit" -> [state EXCEPT !.epoch = c.epoch, !.lastRef = c.ref,
                                          !.lastIssuer = c.issuer]
    [] c.kind \in {"proposed", "updated", "welcome"} -> state

Accepted(d, state, c) ==
  [Applied(d, state, c) EXCEPT !.accepted = @ \cup {c.id}, !.last = c.id]

-----------------------------------------------------------------------------
(* A commit that follows another control than the last one.                *)

CandidateOf(c) == [id |-> c.id, ref |-> c.ref, epoch |-> c.epoch, issuer |-> c.issuer]

\* The last commit stands for the head, under the epoch of its competitor.
HeadCandidate(state, c) ==
  IF state.last = None \/ state.lastRef = None THEN {}
  ELSE {[id |-> state.last, ref |-> state.lastRef, epoch |-> c.epoch,
         issuer |-> state.lastIssuer]}

Competing(state, c) ==
  LET known == {k \in state.candidates : k.epoch = c.epoch}
  IN  (IF known = {} THEN HeadCandidate(state, c) ELSE known) \cup {CandidateOf(c)}

\* Faulty variant: the candidate that came last is selected.
SelectNewest(safe) == CHOOSE k \in safe : \A other \in safe : k.id >= other.id

\* The lexicographically lowest commitRef.
Select(safe) == CHOOSE k \in safe : \A other \in safe : k.ref <= other.ref

\* resolveForkDeterministically; the candidates of other epochs are dropped.
Resolved(state, rivals) ==
  LET safe     == {k \in rivals : IsMemberDevice(state, k.issuer)}
      selected == Select(safe)
  IN  IF safe = {} THEN [state EXCEPT !.candidates = rivals]
      ELSE [state EXCEPT
              !.epoch = selected.epoch,
              !.candidates = {k \in rivals : k.id \notin {s.id : s \in safe}},
              !.recoveries = @ \cup {[selected |-> selected.id,
                                      rejected |-> {k.id : k \in safe \ {selected}}]},
              !.accepted = @ \cup {selected.id},
              !.last = selected.id,
              !.lastRef = selected.ref,
              !.lastIssuer = selected.issuer]

Stale(state, c) == c.epoch < state.epoch

Forked(d, state, c) ==
  IF Stale(state, c) THEN [state EXCEPT !.candidates = @ \cup {CandidateOf(c)}]
  ELSE LET rivals == Competing(state, c)
       IN  IF d \in MlsAutomated /\ Cardinality(rivals) >= 2 THEN Resolved(state, rivals)
           ELSE [state EXCEPT !.candidates = @ \cup rivals]

\* projectMlsGroupControlEvent: a control that has its outcome keeps it.
Projected(d, state, c) ==
  IF c.id \in state.accepted \cup state.rejected THEN state
  ELSE IF Refused(state, c) THEN [state EXCEPT !.rejected = @ \cup {c.id}]
  ELSE IF c.kind = "commit" /\ c.prev # state.last THEN Forked(d, state, c)
  ELSE Accepted(d, state, c)

-----------------------------------------------------------------------------
(* The tables of a device.                                                 *)

\* appendMlsGroupControlEvent: a control that is stored already is skipped.
AppendMlsControl(d, c) ==
  /\ c \notin mlsStored[d]
  /\ mlsStored' = [mlsStored EXCEPT ![d] = @ \cup {c}]
  /\ mls' = [mls EXCEPT ![d] = Projected(d, @, c)]
  /\ UNCHANGED mlsPending

\* putSignedEventWithSyncCheckpoint, which takes a control again when the bridge
\* delivers it under another sequence.
PutMlsControl(d, c) ==
  /\ c \notin mlsPending[d]
  /\ Cardinality(mlsPending[d]) < MlsPullers
  /\ mlsStored' = [mlsStored EXCEPT ![d] = @ \cup {c}]
  /\ mlsPending' = [mlsPending EXCEPT ![d] = @ \cup {c}]
  /\ UNCHANGED mls

QueuedControl(state, c) == \E k \in state.candidates : k.id = c.id

\* updateMlsGroupProjection.
UpdateMlsProjection(d, c) ==
  /\ c \in mlsPending[d]
  /\ mls' = [mls EXCEPT ![d] = IF QueuedControl(@, c) THEN @ ELSE Projected(d, @, c)]
  /\ mlsPending' = [mlsPending EXCEPT ![d] = @ \ {c}]
  /\ UNCHANGED mlsStored

\* The tab closes before the projection has been given the control.
MissMlsControl(d, c) ==
  /\ c \in mlsPending[d]
  /\ mlsPending' = [mlsPending EXCEPT ![d] = @ \ {c}]
  /\ UNCHANGED <<mls, mlsStored>>

MlsDevice(d) ==
  \E c \in MlsControls :
    \/ AppendMlsControl(d, c)
    \/ PutMlsControl(d, c)
    \/ UpdateMlsProjection(d, c)
    \/ MissMlsControl(d, c)

MlsNext == \E d \in MlsDevices : MlsDevice(d)

MlsSpec == MlsInit /\ [][MlsNext]_mlsVars

-----------------------------------------------------------------------------
(* Properties.                                                             *)

GroupState ==
  [epoch: Nat, local: {"unknown", "member", "removed", "never-added"},
   accepted: SUBSET Nat, rejected: SUBSET Nat, candidates: SUBSET Candidate,
   members: [MlsIdentities -> Member],
   recoveries: SUBSET [selected: Nat, rejected: SUBSET Nat],
   last: Nat, lastRef: Nat, lastIssuer: Nat]

\* The state of the projections.
MlsTypeOK ==
  /\ mls \in [MlsDevices -> GroupState]
  /\ mlsStored \in [MlsDevices -> SUBSET MlsControls]
  /\ mlsPending \in [MlsDevices -> SUBSET MlsControls]
  /\ \A d \in MlsDevices : mlsPending[d] \subseteq mlsStored[d]

\* The issuers have counted: a commit or an advance is one epoch after what it follows,
\* any other control is of the epoch of what it follows.
Counted(controls) ==
  \A c, p \in controls \ MlsMalformed :
    c.prev = p.id => c.epoch = p.epoch + IF c.kind \in {"commit", "advanced"} THEN 1 ELSE 0

\* No one has been removed, and no fork is settled by others.
Undisturbed(controls) == \A c \in controls : c.kind \notin {"removed", "detected", "recovery"}

\* Issuers that count the epochs of the branch that they follow never take a device back
\* to an earlier epoch, whichever branch it is on, whatever it has missed and in whatever
\* order its forks came. For a device that settles forks on its own this is so only as
\* long as no one is removed and no one else names candidates or settles: the head that is
\* left in the queue because its issuer was removed stands there under the epoch of its
\* competitor, and if it is selected when its issuer is back, the device goes on from it
\* in an epoch too late.
MlsEpochNeverFallsBack ==
  [][\A d \in MlsDevices :
       Counted(mlsStored'[d]) /\ (d \in MlsAutomated => Undisturbed(mlsStored'[d]))
         => mls'[d].epoch >= mls[d].epoch]_mlsVars

\* The commits that a device has had to choose from.
Rivals(d) ==
  LET givenUp == UNION {r.rejected : r \in mls[d].recoveries}
  IN  {c \in MlsControls : c.kind = "commit" /\ c.id \in mls[d].accepted \cup givenUp}

\* Nothing that a device has taken goes on from one of its rivals.
FlatOn(d) ==
  \A c \in MlsControls : c.id \in mls[d].accepted \/ c \in Rivals(d) =>
    \/ c.kind = "created"
    \/ c.kind = "commit" /\ \E root \in MlsControls : root.kind = "created" /\ c.prev = root.id

\* Every commit that has reached the device was issued by a member.
FromMembers(d) ==
  \A c \in mlsStored[d] : c.kind = "commit" => IsMemberDevice(mls[d], c.issuer)

LowestHead(d) == \A c \in Rivals(d) : mls[d].lastRef <= c.ref

\* Devices that settle forks on their own choose by content and not by arrival: as
\* long as the rivals have the same parent, no one has gone on from them and all are
\* of members, the head is the lowest of them. (A rival of no member is left in the
\* queue, and from then on the head is not among the candidates: the next rival of a
\* member takes its place, whatever its content.)
MlsForksAreSettledByContent ==
  \A d \in MlsAutomated : FlatOn(d) /\ FromMembers(d) => LowestHead(d)
=============================================================================
