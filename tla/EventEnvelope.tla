---------------------------- MODULE EventEnvelope ----------------------------
(***************************************************************************)
(* What packages/protocol/src/index.ts takes for an event: the scope that  *)
(* each kind may have, and the payload that each kind and each scope ask   *)
(* for.  An event is checked when it is made, and again by everyone who    *)
(* verifies its signature (packages/crypto/src/index.ts).                  *)
(*                                                                         *)
(* A payload is its version, the groups of fields it has, the devices its  *)
(* key is wrapped for, and whether what is left to check of it holds: the  *)
(* encoding of its fields, the length of its nonce, its epoch, its dates,  *)
(* and that what it repeats of its envelope is what the envelope says.     *)
(***************************************************************************)
EXTENDS Naturals, Sequences, FiniteSets

CONSTANTS EvDevices   \* devices that a key may be wrapped for

VARIABLES
  evEvent,   \* an event
  evStage    \* how far it has come: drafted, created, accepted or refused

evVars == <<evEvent, evStage>>

-----------------------------------------------------------------------------
(* Kinds and scopes.                                                       *)

PRIVACY_SCOPES == {"device-local", "self", "dm", "group", "public"}

Sealing == {"self", "dm", "group"}

\* The kinds that are checked alike, by the scopes that they may have; a kind
\* that is "plain", and the two identity kinds that are not checked, may have any.
KindScopes ==
  [authority |-> {"self"}, device |-> PRIVACY_SCOPES, plain |-> PRIVACY_SCOPES,
   control |-> PRIVACY_SCOPES,
   aggregated |-> {"public"}, observed |-> {"device-local", "self"},
   chat |-> {"dm", "group"}, root |-> {"self"},
   delivery |-> {"dm", "group"}, lifecycle |-> {"self"}, ack |-> {"dm"}]

EVENT_KINDS == DOMAIN KindScopes

Identity == {"authority", "device"}
Reputations == {"aggregated", "observed"}
Decrypted == {"chat", "root", "delivery", "lifecycle", "ack"}

-----------------------------------------------------------------------------
(* Payloads.                                                               *)

Versions == {"private", "message", "control", "reputation", "other"}

\* "box" is the algorithm, the nonce and the key's id of a private payload.
FieldGroups == {"ciphertext", "box", "message", "control", "text"}

NoWraps == <<>>

Payload ==
  [version: Versions, fields: SUBSET FieldGroups, sound: BOOLEAN,
   wraps: {NoWraps} \cup [1..1 -> EvDevices] \cup [1..2 -> EvDevices]]

\* Its header is of the one version there is, and well-formed.
UnsignedEvent == [kind: EVENT_KINDS, privacy: PRIVACY_SCOPES, payload: Payload]

looksLikePrivatePayloadEnvelope(p) == {"ciphertext", "box"} \subseteq p.fields

looksLikeMlsApplicationMessageEnvelope(p) == p.version = "message"

NamesEachOnce(wraps) == \A i, j \in DOMAIN wraps : wraps[i] = wraps[j] => i = j

\* A list of wraps may be missing, but neither empty nor name a device twice.
IsPrivatePayload(p) ==
  /\ p.version = "private"
  /\ p.fields = {"ciphertext", "box"}
  /\ NamesEachOnce(p.wraps)
  /\ p.sound

IsMlsMessage(p) ==
  /\ looksLikeMlsApplicationMessageEnvelope(p)
  /\ p.fields = {"ciphertext", "message"}
  /\ p.wraps = NoWraps
  /\ p.sound

IsMlsControl(p) ==
  /\ p.version = "control"
  /\ p.fields = {"control"}
  /\ p.wraps = NoWraps
  /\ p.sound

\* Faulty variant: a message of a group will do wherever ciphertext is asked for.
FitsKindUndecoded(kind, p) ==
  /\ kind \in {"authority"} \cup Reputations => "text" \in p.fields /\ p.sound
  /\ kind \in Reputations => p.version = "reputation"
  /\ kind = "control" => IsMlsControl(p)
  /\ kind \in Decrypted =>
       looksLikePrivatePayloadEnvelope(p) \/ looksLikeMlsApplicationMessageEnvelope(p)

\* validatePayloadForKind, and what a reputation event repeats.
FitsKind(kind, p) ==
  /\ kind \in {"authority"} \cup Reputations => "text" \in p.fields /\ p.sound
  /\ kind \in Reputations => p.version = "reputation"
  /\ kind = "control" => IsMlsControl(p)
  /\ kind \in Decrypted => looksLikePrivatePayloadEnvelope(p)

FitsScope(privacy, kind, p) ==
  CASE privacy \notin Sealing ->
         ~looksLikePrivatePayloadEnvelope(p) /\ ~looksLikeMlsApplicationMessageEnvelope(p)
    [] privacy = "self" -> kind \in Identity \/ IsPrivatePayload(p)
    [] privacy = "dm" -> IsPrivatePayload(p)
    [] OTHER ->
         IF looksLikeMlsApplicationMessageEnvelope(p) THEN IsMlsMessage(p) ELSE IsPrivatePayload(p)

validateUnsignedEvent(e) ==
  /\ e.privacy \in KindScopes[e.kind]
  /\ FitsKind(e.kind, e.payload)
  /\ FitsScope(e.privacy, e.kind, e.payload)

-----------------------------------------------------------------------------
(* The way of an event.                                                    *)

EvInit == evEvent \in UnsignedEvent /\ evStage = "drafted"

Passes(to) ==
  /\ evStage' = IF validateUnsignedEvent(evEvent) THEN to ELSE "refused"
  /\ UNCHANGED evEvent

CreateEvent == evStage = "drafted" /\ Passes("created")

\* verifySignedEventEnvelope, each time that someone receives the event, which may
\* also come from a client that has signed it without having checked it.
AcceptEvent == Passes("accepted")

EvNext == CreateEvent \/ AcceptEvent

-----------------------------------------------------------------------------
(* Properties.                                                             *)

EvTypeOK ==
  /\ evEvent \in UnsignedEvent
  /\ evStage \in {"drafted", "created", "accepted", "refused"}

\* Whatever its author has put together, an event that is accepted keeps its
\* scope: nothing of a sealed scope can be read, identities apart, which are kept
\* in the clear, and nothing of an open one is sealed; the kinds that are opened
\* on arrival have a payload of the one form that their projections can open; and
\* the controls of a group are never sealed.
ScopesAreKept ==
  evStage = "accepted" =>
    LET p == evEvent.payload IN
    /\ evEvent.privacy \in Sealing /\ evEvent.kind \notin Identity =>
         "ciphertext" \in p.fields /\ p.fields \cap {"text", "control"} = {}
    /\ evEvent.privacy \notin Sealing => ~looksLikePrivatePayloadEnvelope(p)
    /\ evEvent.kind \in Decrypted => IsPrivatePayload(p)
    /\ evEvent.kind \in Reputations \cup {"control"} => evEvent.privacy \notin Sealing
=============================================================================
