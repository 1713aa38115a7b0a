--------------------------- MODULE DeviceIdentity ----------------------------
(***************************************************************************)
(* The identity of this device: DeviceIdentityManager of                   *)
(* packages/identity/src/index.ts in several tabs over one store, and the  *)
(* control events that apps/pwa emits for it: the publication of its wrap  *)
(* key (pwa-identity-emit.ts) and the rotation of another device           *)
(* (pwa-identity-audit-state.ts).                                          *)
(*                                                                         *)
(* Keys are made outside of any transaction and named for the tab that has *)
(* made them.  An emission is built from a projection that was read before,*)
(* while events of other devices arrive.                                   *)
(***************************************************************************)
EXTENDS Naturals

CONSTANTS
  DiTabs,    \* tabs; also the names of the keys that they make
  Legacy,    \* the name of the keys of a record from before wrap keys
  NoName,    \* no key
  Peer,      \* another device of the identity
  Self,      \* this device
  MaxDiEpoch \* bound: the last epoch

ASSUME DiAssumption ==
  /\ Legacy \notin DiTabs
  /\ NoName \notin DiTabs \cup {Legacy}
  /\ Self # Peer
  /\ MaxDiEpoch \in Nat

VARIABLES
  diRow,     \* the active record of deviceIdentities
  diKeys,    \* localProtectionKeys
  diTab,     \* where each tab is in getOrCreatePrimaryDeviceSession
  diSession, \* the session it has read or opened
  diEpoch,   \* identityControlProjections: the epoch
  diDevice,  \* and its devices
  diView     \* the projection that each tab has read for an emission

diVars == <<diRow, diKeys, diTab, diSession, diEpoch, diDevice, diView>>

Names == DiTabs \cup {Legacy}

DeviceRecord == [key: Names \cup {NoName}, wrap: Names \cup {NoName}]

NoRecord == [key |-> NoName, wrap |-> NoName]

\* key counts the rotations of a device.
Published == [status: {"active", "revoked"}, key: Nat, wrap: Names \cup {NoName}]

RegistryView == [epoch: 0..MaxDiEpoch, device: [{Self, Peer} -> Published]]

NoView == {}

DiInit ==
  /\ \/ diRow = NoRecord /\ diKeys = {}
     \/ diRow = [key |-> Legacy, wrap |-> NoName] /\ diKeys = {Legacy}
  /\ diTab = [t \in DiTabs |-> "closed"]
  /\ diSession = [t \in DiTabs |-> NoRecord]
  /\ diEpoch = 0
  /\ diDevice = [d \in {Self, Peer} |-> [status |-> "active", key |-> 0, wrap |-> NoName]]
  /\ diView = [t \in DiTabs |-> NoView]

-----------------------------------------------------------------------------
(* getOrCreatePrimaryDeviceSession.  The calls of one tab share a promise. *)

Moves(t, to) == diTab' = [diTab EXCEPT ![t] = to]

Has(t, record) == diSession' = [diSession EXCEPT ![t] = record]

\* getActiveDeviceIdentity, and the keys that a tab without one makes.
FindIdentity(t) ==
  /\ diTab[t] = "closed"
  /\ Moves(t, IF diRow = NoRecord THEN "prepared" ELSE "restoring")
  /\ Has(t, IF diRow = NoRecord THEN [key |-> t, wrap |-> t] ELSE diRow)
  /\ UNCHANGED <<diRow, diKeys, diEpoch, diDevice, diView>>

\* The record is written if there still is none, and with it its protection key.
CommitIdentity(t) ==
  /\ diTab[t] = "prepared"
  /\ diRow = NoRecord
  /\ diRow' = diSession[t]
  /\ diKeys' = diKeys \cup {t}
  /\ Moves(t, "open")
  /\ UNCHANGED <<diSession, diEpoch, diDevice, diView>>

AdoptIdentity(t) ==
  /\ diTab[t] = "prepared"
  /\ diRow # NoRecord
  /\ Moves(t, "restoring")
  /\ Has(t, diRow)
  /\ UNCHANGED <<diRow, diKeys, diEpoch, diDevice, diView>>

\* restoreSession of a record that has a wrap key.
RestoreSession(t) ==
  /\ diTab[t] = "restoring"
  /\ diSession[t].key \in diKeys
  /\ Moves(t, IF diSession[t].wrap = NoName THEN "healing" ELSE "open")
  /\ UNCHANGED <<diRow, diKeys, diSession, diEpoch, diDevice, diView>>

\* Faulty variant: the wrap key that this tab has made is always written.
HealedOver(t) == [diRow EXCEPT !.wrap = t]

\* restoreOrHealWrap: the first wrap key that is written is everyone's.
Healed(t) == IF diRow.wrap = NoName THEN [diRow EXCEPT !.wrap = t] ELSE diRow

HealWrap(t) ==
  /\ diTab[t] = "healing"
  /\ diRow.key = diSession[t].key
  /\ diRow' = Healed(t)
  /\ Has(t, Healed(t))
  /\ Moves(t, "open")
  /\ UNCHANGED <<diKeys, diEpoch, diDevice, diView>>

CloseTab(t) ==
  /\ diTab[t] # "closed"
  /\ Moves(t, "closed")
  /\ Has(t, NoRecord)
  /\ diView' = [diView EXCEPT ![t] = NoView]
  /\ UNCHANGED <<diRow, diKeys, diEpoch, diDevice>>

-----------------------------------------------------------------------------
(* Emissions.  The projection takes one that carries a later epoch.        *)

\* getIdentityControlProjection, and buildIdentityAuditViewModel.
ReadProjection(t) ==
  /\ diTab[t] = "open"
  /\ diView[t] = NoView
  /\ diView' = [diView EXCEPT ![t] = {[epoch |-> diEpoch, device |-> diDevice]}]
  /\ UNCHANGED <<diRow, diKeys, diTab, diSession, diEpoch, diDevice>>

EmissionEnds(t) ==
  /\ diView' = [diView EXCEPT ![t] = NoView]
  /\ UNCHANGED <<diRow, diKeys, diTab, diSession>>

\* Faulty variant: an epoch that has been reached is taken again.
TakenAgain(epoch) == epoch >= diEpoch

\* requireMonotonicEpoch.
IsTaken(epoch) == epoch > diEpoch

\* ensureLocalDeviceWrapMetadataPublished.
PublishWrap(t) ==
  /\ \E view \in diView[t] :
       /\ view.device[Self].status = "active"
       /\ view.device[Self].wrap # diSession[t].wrap
       /\ view.epoch < MaxDiEpoch
       /\ IsTaken(view.epoch + 1)
       /\ diEpoch' = view.epoch + 1
       /\ diDevice' = [diDevice EXCEPT ![Self] = [@ EXCEPT !.status = "active",
                                                          !.wrap = diSession[t].wrap]]
  /\ EmissionEnds(t)

\* prepareRotationIntent and emitDeviceRotatedEvent.  The key of the controller
\* is not rotated.
RotatePeer(t) ==
  /\ \E view \in diView[t] :
       /\ view.device[Peer].status = "active"
       /\ view.epoch < MaxDiEpoch
       /\ IsTaken(view.epoch + 1)
       /\ diDevice[Peer].status = "active"
       /\ diDevice[Peer].key = view.device[Peer].key
       /\ diEpoch' = view.epoch + 1
       /\ diDevice' = [diDevice EXCEPT ![Peer].key = @ + 1]
  /\ EmissionEnds(t)

\* Nothing to publish or to rotate, or the store refuses the event.
EmitNothing(t) ==
  /\ diView[t] # NoView
  /\ EmissionEnds(t)
  /\ UNCHANGED <<diEpoch, diDevice>>

AuthorityMoves(d, device) ==
  /\ diEpoch < MaxDiEpoch
  /\ diEpoch' = diEpoch + 1
  /\ diDevice' = [diDevice EXCEPT ![d] = device]
  /\ UNCHANGED <<diRow, diKeys, diTab, diSession, diView>>

\* An event that the controller has signed elsewhere arrives; an authorization
\* need not carry the wrap key.
AuthorizedElsewhere(d) ==
  \E wrap \in {diDevice[d].wrap, NoName} :
    AuthorityMoves(d, [diDevice[d] EXCEPT !.status = "active", !.wrap = wrap])

RevokedElsewhere(d) ==
  /\ diDevice[d].status = "active"
  /\ AuthorityMoves(d, [diDevice[d] EXCEPT !.status = "revoked"])

DiNext ==
  \/ \E t \in DiTabs :
       \/ FindIdentity(t) \/ CommitIdentity(t) \/ AdoptIdentity(t) \/ RestoreSession(t)
       \/ HealWrap(t) \/ CloseTab(t)
       \/ ReadProjection(t) \/ PublishWrap(t) \/ RotatePeer(t) \/ EmitNothing(t)
  \/ \E d \in {Self, Peer} : AuthorizedElsewhere(d) \/ RevokedElsewhere(d)

DiSpec == DiInit /\ [][DiNext]_diVars

-----------------------------------------------------------------------------
(* Properties.                                                             *)

\* The state of the store and of the tabs.
DiTypeOK ==
  /\ diRow \in DeviceRecord
  /\ diKeys \subseteq Names
  /\ diTab \in [DiTabs -> {"closed", "prepared", "restoring", "healing", "open"}]
  /\ diSession \in [DiTabs -> DeviceRecord]
  /\ diEpoch \in 0..MaxDiEpoch
  /\ diDevice \in [{Self, Peer} -> Published]
  /\ \A t \in DiTabs : diView[t] \subseteq RegistryView

\* However the tabs interleave, all that have a session have the same signing
\* and wrap keys, those of the record, whose private halves the one stored
\* protection key opens; and what is published is the wrap key of the record.
OneIdentity ==
  /\ \A t \in DiTabs : diTab[t] = "open" => diSession[t] = diRow
  /\ diRow # NoRecord => diKeys = {diRow.key}
  /\ diDevice[Self].wrap \in {NoName, diRow.wrap}

\* An emission that was built from what has changed since neither brings back a
\* device that was revoked meanwhile nor rotates one that was rotated meanwhile.
NothingIsUndone ==
  [][\A d \in {Self, Peer} :
       /\ diDevice[d].status = "revoked" /\ diDevice'[d].status = "active" =>
            AuthorizedElsewhere(d)
       /\ \A t \in DiTabs : \A view \in diView[t] :
            RotatePeer(t) => diDevice'[Peer].key = view.device[Peer].key + 1]_diVars
=============================================================================
