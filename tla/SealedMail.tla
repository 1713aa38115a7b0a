----------------------------- MODULE SealedMail ------------------------------
(***************************************************************************)
(* An event for the devices of other identities: the recipients that its   *)
(* sender resolves from its projections of their control logs              *)
(* (apps/pwa/src/pwa-recipient-resolution.ts), the key of its payload that *)
(* is wrapped for each of them (packages/envelope, private-payload, crypto;*)
(* apps/pwa/src/pwa-mailbox-envelope-sender.ts), and what a device makes of*)
(* what it receives (apps/pwa/src/pwa-envelope-keys.ts).                   *)
(*                                                                         *)
(* The projections lag behind the logs, and move on while an event is made.*)
(* A log may name a device that is another identity's.                     *)
(***************************************************************************)
EXTENDS Naturals, FiniteSets

CONSTANTS
  MailDevices,    \* devices
  Identities,     \* identities that are written to
  HomeOf,         \* the identity of each device
  HeldRef,        \* the name of the wrap key that each device holds
  LostRef,        \* the name of a key that no device holds any more
  Anyone,         \* an envelope that is not sealed to one device
  MaxMoves,       \* bound: the changes of the logs
  MaxMails        \* bound: the events

NoRef == "none"

ASSUME MailAssumption ==
  /\ HomeOf \in [MailDevices -> Identities]
  /\ \A d \in MailDevices : HeldRef[d] \notin {LostRef, NoRef}
  /\ Anyone \notin MailDevices
  /\ MaxMoves \in Nat /\ MaxMails \in Nat

VARIABLES
  smLog,      \* the control log of each identity
  smView,     \* the sender's projection of it
  smMoves,    \* the changes of the logs
  smDraft,    \* the event that is being made
  smSent,     \* those that were appended, and are delivered
  smStored,   \* those that each device has stored
  smOpened    \* and those that it has opened

smVars == <<smLog, smView, smMoves, smDraft, smSent, smStored, smOpened>>

KeyRefs == {HeldRef[d] : d \in MailDevices} \cup {LostRef}

\* wrapPublicKey and wrapKeyRef go together.
RecipientDevice == [status: {"absent", "active", "revoked"}, ref: KeyRefs \cup {NoRef}]

IdentityLog == [known: BOOLEAN, device: [MailDevices -> RecipientDevice]]

PayloadKeyRecipientWrap == [identity: Identities, device: MailDevices, ref: KeyRefs]

NoDraft == {}

MailInit ==
  /\ smLog = [i \in Identities |->
                [known |-> FALSE,
                 device |-> [d \in MailDevices |-> [status |-> "absent", ref |-> NoRef]]]]
  /\ smView = smLog
  /\ smMoves = 0
  /\ smDraft = NoDraft
  /\ smSent = {}
  /\ smStored = [d \in MailDevices |-> {}]
  /\ smOpened = [d \in MailDevices |-> {}]

-----------------------------------------------------------------------------
(* The logs of the recipients, and what the sender has pulled of them.     *)

LogMoves(i, log) ==
  /\ smMoves < MaxMoves
  /\ smMoves' = smMoves + 1
  /\ smLog' = [smLog EXCEPT ![i] = log]
  /\ UNCHANGED <<smView, smDraft, smSent, smStored, smOpened>>

CreateController(i) == ~smLog[i].known /\ LogMoves(i, [smLog[i] EXCEPT !.known = TRUE])

\* An authorization replaces the row of its device.  It names a key that the
\* device holds, or held, or none.
AuthorizeRecipient(i, d) ==
  \E ref \in {HeldRef[d], LostRef, NoRef} :
    LogMoves(i, [smLog[i] EXCEPT !.device[d] = [status |-> "active", ref |-> ref]])

RevokeRecipient(i, d) ==
  /\ smLog[i].device[d].status = "active"
  /\ LogMoves(i, [smLog[i] EXCEPT !.device[d].status = "revoked"])

PullLog(i) ==
  /\ smView[i] # smLog[i]
  /\ smView' = [smView EXCEPT ![i] = smLog[i]]
  /\ UNCHANGED <<smLog, smMoves, smDraft, smSent, smStored, smOpened>>

-----------------------------------------------------------------------------
(* The sender.                                                             *)

\* Faulty variant: a device that was revoked is an addressee as long as its key
\* is known.
AddressedRevoked(log) == {d \in MailDevices : log.known /\ log.device[d].ref # NoRef}

\* resolveEnvelopeRecipientsFromIdentityProjections.
Addressed(log) ==
  {d \in MailDevices :
     log.known /\ log.device[d].status = "active" /\ log.device[d].ref # NoRef}

resolveRecipients(to) ==
  UNION {{[identity |-> i, device |-> d, ref |-> smView[i].device[d].ref] :
            d \in Addressed(smView[i])} : i \in to}

\* Two identities may name the same device: there is one wrap for a device, or none.
NamesDevicesOnce(rs) == \A r, s \in rs : r.device = s.device => r = s

normalizeMailboxRecipients(rs, sealed) == {r \in rs : sealed \in {Anyone, r.device}}

\* The key of the payload is wrapped for each recipient; encryption, and the transaction that
\* appends the event, follow.  Without a recipient there is none, nor with a
\* device that two of them name.  An envelope of the mailbox is for one identity,
\* an event of a conversation (createEnvelopeEvent) is sealed to no one device.
SealEvent(to, sealed) ==
  /\ smDraft = NoDraft
  /\ Cardinality(smSent) < MaxMails
  /\ sealed # Anyone => Cardinality(to) = 1
  /\ LET resolved == resolveRecipients(to)
         chosen == normalizeMailboxRecipients(resolved, sealed)
     IN  /\ NamesDevicesOnce(resolved)
         /\ chosen # {}
         /\ smDraft' = {[id |-> Cardinality(smSent), to |-> to, sealed |-> sealed,
                         wraps |-> chosen, read |-> smView]}
  /\ UNCHANGED <<smLog, smView, smMoves, smSent, smStored, smOpened>>

\* appendMailboxEvent; the sender does not keep the key of the payload.
AppendEvent ==
  /\ smDraft # NoDraft
  /\ smSent' = smSent \cup smDraft
  /\ smDraft' = NoDraft
  /\ UNCHANGED <<smLog, smView, smMoves, smStored, smOpened>>

\* The sender stops before it has appended.
ForgetDraft ==
  /\ smDraft # NoDraft
  /\ smDraft' = NoDraft
  /\ UNCHANGED <<smLog, smView, smMoves, smSent, smStored, smOpened>>

-----------------------------------------------------------------------------
(* The devices.                                                            *)

\* The wraps that are addressed to this device as one of its own identity.
WrapsFor(m, d) == {w \in m.wraps : w.device = d /\ w.identity = HomeOf[d]}

\* unwrapPayloadKeyWithX25519 opens what was wrapped for the key it is given.
Unwraps(w, d) == w.ref = HeldRef[d]

\* resolvePayloadKeyForDevice.
KeyOutcome(m, d) ==
  CASE WrapsFor(m, d) = {} -> "no-wrap"
    [] \E w \in WrapsFor(m, d) : Unwraps(w, d) -> "resolved"
    [] OTHER -> "no-key"

\* Whether or not the keys of the device are at hand, what is received is stored.
ReceiveEvent(m, d) ==
  /\ m \notin smStored[d]
  /\ smStored' = [smStored EXCEPT ![d] = @ \cup {m}]
  /\ \E opened \in {{}, {m}} :
       /\ opened # {} => KeyOutcome(m, d) = "resolved"
       /\ smOpened' = [smOpened EXCEPT ![d] = @ \cup opened]
  /\ UNCHANGED <<smLog, smView, smMoves, smDraft, smSent>>

\* loadMailboxInboxState folds the log again; no row is deleted.
ReloadEvents(d) ==
  /\ smOpened' = [smOpened EXCEPT ![d] =
                    @ \cup {m \in smStored[d] : KeyOutcome(m, d) = "resolved"}]
  /\ UNCHANGED <<smLog, smView, smMoves, smDraft, smSent, smStored>>

MailNext ==
  \/ \E i \in Identities :
       \/ CreateController(i) \/ PullLog(i)
       \/ \E d \in MailDevices : AuthorizeRecipient(i, d) \/ RevokeRecipient(i, d)
  \/ \E to \in SUBSET Identities, sealed \in MailDevices \cup {Anyone} : SealEvent(to, sealed)
  \/ AppendEvent \/ ForgetDraft
  \/ \E d \in MailDevices : ReloadEvents(d) \/ \E m \in smSent : ReceiveEvent(m, d)

MailSpec == MailInit /\ [][MailNext]_smVars

-----------------------------------------------------------------------------
(* Properties.                                                             *)

MailTypeOK ==
  /\ smLog \in [Identities -> IdentityLog] /\ smView \in [Identities -> IdentityLog]
  /\ smMoves \in 0..MaxMoves
  /\ \A m \in smSent \cup smDraft : m.wraps \subseteq PayloadKeyRecipientWrap
  /\ \A d \in MailDevices : smOpened[d] \subseteq smStored[d] /\ smStored[d] \subseteq smSent

\* The devices that an event is for: those of the identities it is addressed to
\* that were active, and under a key that they hold, in the logs as the sender
\* had read them, and of these the one it is sealed to.
Parties(m) ==
  {d \in MailDevices :
     LET row == m.read[HomeOf[d]].device[d] IN
     /\ HomeOf[d] \in m.to /\ m.read[HomeOf[d]].known
     /\ row.status = "active" /\ row.ref = HeldRef[d]
     /\ m.sealed \in {Anyone, d}}

\* Whatever the logs become while an event is made and delivered, the devices
\* that can open it are those that it is for: no revoked one, none whose identity
\* is another, though a log names it, none that it is not sealed to; and each of
\* them can, at once or on a later reload.
OpenedByItsParties ==
  \A d \in MailDevices :
    /\ \A m \in smStored[d] : KeyOutcome(m, d) = "resolved" <=> d \in Parties(m)
    /\ \A m \in smOpened[d] : d \in Parties(m)
=============================================================================
