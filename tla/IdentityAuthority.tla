------------------------- MODULE IdentityAuthority --------------------------
(***************************************************************************)
(* Who may act for an identity: applyIdentityControlEvent and              *)
(* seedIdentityControlProjection of packages/identity/src/control-log.ts   *)
(* over the event log and the projection of packages/local-store, the      *)
(* verifier of packages/identity-control-log-verifier, and the proof       *)
(* registry of packages/capabilities, which the gates of apps/pwa ask.     *)
(*                                                                         *)
(* The projection folds the events in the order of their arrival.  The     *)
(* verifier folds the log in the order of their dates.  The registry keeps *)
(* what a verification has said until it is run again.  A record of the    *)
(* registry is read, judged and put back in separate steps.                *)
(***************************************************************************)
EXTENDS Naturals, FiniteSets, Folds

CONSTANTS
  IdEvents,     \* signed control events of the identity, see IdEvent
  IdMalformed,  \* those that validateIdentityEvent refuses
  NoKey,        \* no controller yet
  IdHosts,      \* callers that verify and revoke proofs
  PublishScope, \* the scope that lets a device publish contact cards
  MaxIdNow      \* bound: the last tick of the clock

IdKinds ==
  {"created", "authorized", "revoked", "rotated", "granted", "withdrawn", "card"}

IdKeys == {e.by : e \in IdEvents} \cup {e.key : e \in IdEvents}
IdDevices == {e.device : e \in IdEvents}
IdCaps == {e.cap : e \in IdEvents}
IdScopes == {e.scope : e \in IdEvents}

\* by: the key that signs.  device and key: the device that the event is about
\* and its (new) key; was: the key that a rotation replaces.  A grant and a
\* withdrawal name the capability and the device it is delegated to.
IdEvent ==
  [kind: IdKinds, id: Nat, at: Nat, epoch: Nat, by: IdKeys, device: IdDevices,
   key: IdKeys, was: IdKeys, cap: IdCaps, scope: IdScopes, expires: Nat]

Grants == {e \in IdEvents : e.kind = "granted"}
Cards == {e \in IdEvents : e.kind = "card"}

ASSUME IdAssumption ==
  /\ IdEvents \subseteq IdEvent
  /\ \A e, f \in IdEvents : e.id = f.id => e = f
  /\ IdMalformed \subseteq IdEvents
  /\ NoKey \notin IdKeys
  /\ MaxIdNow \in Nat

VARIABLES
  idLog,     \* the control events in signedEvents
  idRow,     \* identityControlProjections
  idProofs,  \* capabilityProofRecords: the state of the record of each grant
  idPending, \* grants that are stored and not yet registered
  idHeld,    \* what each host has read: a grant, its record, the log
  idCleared, \* cards that the gate has let through and that are not yet emitted
  idNow      \* wall clock

idVars == <<idLog, idRow, idProofs, idPending, idHeld, idCleared, idNow>>

Device == [status: {"none", "active", "revoked"}, key: IdKeys \cup {NoKey}]

Capability == [status: {"none", "granted", "withdrawn"}, grant: SUBSET Grants]

IdState ==
  [controller: IdKeys \cup {NoKey}, epoch: Nat, devices: [IdDevices -> Device],
   caps: [IdCaps -> Capability], card: SUBSET Cards]

EmptyIdState ==
  [controller |-> NoKey, epoch |-> 0,
   devices |-> [d \in IdDevices |-> [status |-> "none", key |-> NoKey]],
   caps |-> [c \in IdCaps |-> [status |-> "none", grant |-> {}]],
   card |-> {}]

NothingHeld == [of |-> {}, state |-> "none", log |-> {}]

IdInit ==
  /\ idLog = {}
  /\ idRow = EmptyIdState
  /\ idProofs = [g \in Grants |-> "none"]
  /\ idPending = {}
  /\ idHeld = [h \in IdHosts |-> NothingHeld]
  /\ idCleared = {}
  /\ idNow = 0

-----------------------------------------------------------------------------
(* applyIdentityControlEvent.                                              *)

\* requireMonotonicEpoch; faulty variant: the current epoch may come again.
SameEpochIsBehind(state, e) == e.epoch < state.epoch

Behind(state, e) == e.epoch <= state.epoch

\* The cases in which it throws.
Throws(state, e) ==
  LET device == state.devices[e.device]
      cap    == state.caps[e.cap]
  IN  \/ e \in IdMalformed
      \/ e.kind = "created" /\ (state.controller # NoKey \/ e.by # e.key)
      \/ e.kind # "created" /\ e.by # state.controller
      \/ e.kind = "authorized" /\ Behind(state, e)
      \/ e.kind = "revoked" /\ device.status = "none"
      \/ e.kind = "revoked" /\ device.status = "active" /\ Behind(state, e)
      \/ /\ e.kind = "rotated"
         /\ device.status # "active" \/ device.key # e.was \/ e.key = e.was \/ Behind(state, e)
      \/ e.kind = "withdrawn" /\ \A g \in cap.grant : g.device # e.device

Active(key) == [status |-> "active", key |-> key]

\* A device or a capability that is revoked already stays as it is.
AppliedTo(state, e) ==
  CASE e.kind = "created" ->
         [state EXCEPT !.controller = e.key, !.devices[e.device] = Active(e.key)]
    [] e.kind \in {"authorized", "rotated"} ->
         [state EXCEPT !.epoch = e.epoch, !.devices[e.device] = Active(e.key)]
    [] e.kind = "revoked" ->
         IF state.devices[e.device].status = "revoked" THEN state
         ELSE [state EXCEPT !.epoch = e.epoch, !.devices[e.device].status = "revoked"]
    [] e.kind = "granted" ->
         [state EXCEPT !.caps[e.cap] = [status |-> "granted", grant |-> {e}]]
    [] e.kind = "withdrawn" -> [state EXCEPT !.caps[e.cap].status = "withdrawn"]
    [] e.kind = "card" -> [state EXCEPT !.card = {e}]

-----------------------------------------------------------------------------
(* seedIdentityControlProjection.                                          *)

\* The clock of the events is always 0, so that their dates decide.
IdBefore(e, f) == e.at < f.at \/ (e.at = f.at /\ e.id < f.id)

SeededLast(S) == CHOOSE e \in S : \A f \in S \ {e} : IdBefore(f, e)

Empty == [ok |-> TRUE, state |-> EmptyIdState]

\* Not ok once one event throws.
Seeded(S) ==
  MapThenFoldSet(
    LAMBDA e, seed : IF seed.ok /\ ~Throws(seed.state, e)
                     THEN [seed EXCEPT !.state = AppliedTo(@, e)]
                     ELSE [seed EXCEPT !.ok = FALSE],
    Empty, LAMBDA e : e, SeededLast, S)

-----------------------------------------------------------------------------
(* The log and the projection.                                             *)

Take(e) ==
  /\ ~Throws(idRow, e)
  /\ idLog' = idLog \cup {e}
  /\ idRow' = AppliedTo(idRow, e)

\* appendLocalIdentityEvent: an event that is stored changes nothing.
AppendLocalIdentity(e) ==
  /\ e \notin idLog
  /\ Take(e)
  /\ UNCHANGED <<idProofs, idPending, idHeld, idCleared, idNow>>

\* putSignedEventWithSyncCheckpoint: an event that the bridge delivers under a
\* new sequence is folded in again.
TakeInbound(e) ==
  /\ Take(e)
  /\ idPending' = idPending \cup ({e} \cap Grants)
  /\ UNCHANGED <<idProofs, idHeld, idCleared, idNow>>

-----------------------------------------------------------------------------
(* The proof registry.                                                     *)

PutRecord(g, state) == idProofs' = [idProofs EXCEPT ![g] = state]

\* registerIdentityCapabilityProof writes over what is there.
RegisterProof(g) ==
  /\ g \in idPending
  /\ idPending' = idPending \ {g}
  /\ PutRecord(g, "unverified")
  /\ UNCHANGED <<idLog, idRow, idHeld, idCleared, idNow>>

\* The tab closes before the grant is registered.
MissProof(g) ==
  /\ g \in idPending
  /\ idPending' = idPending \ {g}
  /\ UNCHANGED <<idLog, idRow, idProofs, idHeld, idCleared, idNow>>

\* Faulty variant: a device that is revoked goes on with its grants.
StillGrantsRevoked(state, g, clock) ==
  LET cap == state.caps[g.cap]
  IN  /\ cap.status = "granted"
      /\ \A given \in cap.grant : given.device = g.device /\ given.expires = g.expires
      /\ clock < g.expires

\* projectionStillGrants.
StillGrants(state, g, clock) ==
  LET cap == state.caps[g.cap]
  IN  /\ cap.status = "granted"
      /\ \A given \in cap.grant : given.device = g.device /\ given.expires = g.expires
      /\ clock < g.expires
      /\ state.devices[g.device].status = "active"

\* verifyIdentityControlLog, on a record that was derived from g.
Verdict(S, g, clock) ==
  IF g \in S /\ Seeded(S).ok /\ StillGrants(Seeded(S).state, g, clock)
  THEN "verified" ELSE "invalid"

\* computeVerificationState.
Verified(held, g, clock) ==
  IF held.state = "revoked" THEN "revoked"
  ELSE IF clock >= g.expires THEN "expired"
  ELSE Verdict(held.log, g, clock)

\* loadProofRegistry, with the log that the verifier will resolve.
LoadProof(h, g) ==
  /\ idHeld[h] = NothingHeld
  /\ idProofs[g] # "none"
  /\ idHeld' = [idHeld EXCEPT ![h] = [of |-> {g}, state |-> idProofs[g], log |-> idLog]]
  /\ UNCHANGED <<idLog, idRow, idProofs, idPending, idCleared, idNow>>

\* A record is put back, judged or revoked as it was read.
PutProof(h, g) ==
  /\ g \in idHeld[h].of
  /\ \E state \in {Verified(idHeld[h], g, idNow), "revoked"} : PutRecord(g, state)
  /\ idHeld' = [idHeld EXCEPT ![h] = NothingHeld]
  /\ UNCHANGED <<idLog, idRow, idPending, idCleared, idNow>>

DeleteProof(g) ==
  /\ idProofs[g] # "none"
  /\ PutRecord(g, "none")
  /\ UNCHANGED <<idLog, idRow, idPending, idHeld, idCleared, idNow>>

-----------------------------------------------------------------------------
(* The gate of gatedEmitContactCardPublished, without which it appends.    *)

\* Records of the device that are not past their expiry and whose events grant
\* the scope.
Refs(device, scope) ==
  {g \in Grants : /\ idProofs[g] # "none"
                  /\ g.device = device
                  /\ idNow < g.expires
                  /\ g \in idLog
                  /\ g.scope = scope}

\* summarizeProofStates: the worst of the records decides.
GateAllows(device, scope) ==
  /\ Refs(device, scope) # {}
  /\ \A g \in Refs(device, scope) : idProofs[g] = "verified"

ClearCard(e) ==
  /\ GateAllows(e.device, PublishScope)
  /\ idCleared' = idCleared \cup {e}
  /\ UNCHANGED <<idLog, idRow, idProofs, idPending, idHeld, idNow>>

EmitCard(e) ==
  /\ e \in idCleared
  /\ idCleared' = idCleared \ {e}
  /\ e \notin idLog
  /\ Take(e)
  /\ UNCHANGED <<idProofs, idPending, idHeld, idNow>>

IdTick ==
  /\ idNow < MaxIdNow
  /\ idNow' = idNow + 1
  /\ UNCHANGED <<idLog, idRow, idProofs, idPending, idHeld, idCleared>>

IdNext ==
  \/ \E e \in IdEvents \ Cards : AppendLocalIdentity(e)
  \/ \E e \in IdEvents : TakeInbound(e)
  \/ \E g \in Grants : RegisterProof(g) \/ MissProof(g) \/ DeleteProof(g)
  \/ \E h \in IdHosts, g \in Grants : LoadProof(h, g) \/ PutProof(h, g)
  \/ \E e \in Cards : ClearCard(e) \/ EmitCard(e)
  \/ IdTick

IdSpec == IdInit /\ [][IdNext]_idVars

-----------------------------------------------------------------------------
(* Properties.                                                             *)

\* The state of the log, the projection and the registry.
IdTypeOK ==
  /\ idLog \subseteq IdEvents \ IdMalformed
  /\ idRow \in IdState
  /\ idProofs \in [Grants -> {"none", "unverified", "verified", "expired", "revoked", "invalid"}]
  /\ idPending \subseteq idLog \cap Grants
  /\ idHeld \in [IdHosts -> [of: SUBSET Grants,
                             state: {"none", "unverified", "verified", "expired", "revoked",
                                     "invalid"},
                             log: SUBSET idLog]]
  /\ idCleared \subseteq Cards
  /\ idNow \in 0..MaxIdNow

\* No device is revoked by two events of S.
RevokedOnce(S) ==
  \A e, f \in S : e.kind = "revoked" /\ f.kind = "revoked" /\ e.device = f.device => e = f

\* The projection folds the events as they arrive, as often as they arrive; the
\* verifier folds them by date.  Where both get through, they agree on which
\* devices are active and on their keys, unless a device was revoked twice: a
\* revocation that finds its device revoked leaves the epoch as it is, so that an
\* authorization that it comes before by arrival or by date has its way there alone.
DevicesAreRebuilt ==
  RevokedOnce(idLog) /\ Seeded(idLog).ok => Seeded(idLog).state.devices = idRow.devices

NewestOf(S) == {e \in S : \A f \in S \ {e} : IdBefore(f, e)}

\* The last words of a log about a capability and about a device.
LastGrant(S, cap) == NewestOf({e \in S : e.kind \in {"granted", "withdrawn"} /\ e.cap = cap})

LastOfDevice(S, device) ==
  NewestOf({e \in S : /\ e.kind \in {"created", "authorized", "rotated", "revoked"}
                      /\ e.device = device})

\* A grant is verified if, and only if, the log can be folded, its last word on
\* the capability is a grant to the same device until the same time, and its last
\* word on the device is not that it is revoked.
VerdictFollowsLastWord ==
  \A g \in Grants \cap idLog :
    Verdict(idLog, g, idNow) = "verified" <=>
      /\ Seeded(idLog).ok
      /\ idNow < g.expires
      /\ \E e \in LastGrant(idLog, g.cap) :
           e.kind = "granted" /\ e.device = g.device /\ e.expires = g.expires
      /\ \E e \in LastOfDevice(idLog, g.device) : e.kind # "revoked"


\* The gate lets a card out only for a device that some state of the log, with
\* events that are still there, has granted the scope: in spite of stops between
\* the log and the registry, verdicts put back late, and records that are
\* deleted or registered again.
ClearedWasGranted ==
  \A e \in idCleared :
    \E g \in Grants, S \in SUBSET idLog :
      /\ g.device = e.device
      /\ g.scope = PublishScope
      /\ Verdict(S, g, 0) = "verified"

\* A card goes out on a verdict, and a verdict is the last word of the log.
VerdictsAreKept == VerdictFollowsLastWord /\ ClearedWasGranted
=============================================================================
