---------------------------- MODULE ProofRegistry ---------------------------
(***************************************************************************)
(* The registry of capability proofs (packages/capabilities), the rows     *)
(* that keep it, the verifiers that are composed for it, and what relies   *)
(* on it: the evaluation of an invocation, the reliance gate and the       *)
(* bindings of credentials.  One host has the registry; it may stop at any *)
(* time, and seeds it again from the rows.                                 *)
(***************************************************************************)
EXTENDS Naturals, Sequences, FiniteSets

CONSTANTS
  Registrations,  \* inputs of registerProof
  Invocations,    \* what is asked of a capability
  RevocationDates, \* dates at which proofs are revoked, past or present
  VcBindings,     \* credentials that are bound to it as evidence
  VcWindow,       \* [from, until]: when the credentials themselves are valid
  MaxPrNow        \* bound: the last tick of the clock

Schemes ==
  {"native-signed-event", "identity-control-log", "ucan", "zcap-ld", "vc", "bearcap",
   "manual-local-policy"}

States == {"unverified", "possession-confirmed", "verified", "expired", "revoked", "invalid"}

\* The time of the revocation, if there is one, is the only member of revoked.
RegisterProofInput ==
  [id: STRING, scheme: Schemes, subject: STRING, issued: Nat, expires: Nat, revoked: SUBSET Nat]

\* A caveat of a grant: about a time or a number, or about who, what and where, which the
\* invocation fits or not.
Caveat ==
  [kind: {"expires-before", "not-before", "max-uses", "requires-freshness-check",
          "requires-human-review", "is"},
   value: Nat, fits: BOOLEAN]

\* Whether the action is one that a bearer token may never carry; the ways in which the
\* invocation does not fit the grant, if any, and the times of the two together.  A
\* reference to a proof says of which scheme the proof is, truly or not.
Invocation ==
  [reserved: BOOLEAN, misfits: SUBSET {"resource", "audience", "action", "scope", "issuer"},
   surface: {"mutation", "display"}, notBefore: Nat, expires: Nat, caveats: SUBSET Caveat,
   refs: SUBSET [id: STRING, scheme: Schemes]]

VcBinding == [proof: STRING, subject: STRING]

ASSUME RegistryAssumption ==
  /\ Registrations \subseteq RegisterProofInput
  /\ Invocations \subseteq Invocation
  /\ VcBindings \subseteq VcBinding
  /\ RevocationDates \subseteq Nat
  /\ VcWindow \in [from: Nat, until: Nat]
  /\ MaxPrNow \in Nat

ProofIds == {r.id : r \in Registrations}

IdsOf(refs) == {ref.id : ref \in refs}

VARIABLES
  prNow,       \* wall clock
  prRegistry,  \* ProofRegistry.proofs: the record of each id, {} if none
  prRows,      \* capabilityProofRecords
  prBytes,     \* what the resolvers hold: {} or [good, at]
  prWithdrawn, \* the capability's revocation is known
  prUsed,      \* the invocation ids that the caller has seen
  prVerdicts,  \* what a caller has folded of the proofs of each invocation and keeps:
               \* [state, sound], {} if nothing; sound is history
  prStored     \* history: the ids whose revocation was stored and is still readable

registryVars == <<prNow, prRegistry, prRows, prBytes, prWithdrawn, prUsed, prVerdicts,
                  prStored>>

RegistryInit ==
  /\ prNow = 0
  /\ prRegistry = [i \in ProofIds |-> {}]
  /\ prRows = [i \in ProofIds |-> {}]
  /\ prBytes = [i \in ProofIds |-> {}]
  /\ prWithdrawn = FALSE
  /\ prUsed = {}
  /\ prVerdicts = [inv \in Invocations |-> {}]
  /\ prStored = {}

-----------------------------------------------------------------------------
(* The verifiers, in the order in which they are composed: the first that  *)
(* has an opinion has the last word.                                       *)

BytesAreGood(i) == \E b \in prBytes[i] : b.good

Refuses(fails) == IF fails THEN "invalid" ELSE "verified"

\* verifyNativeProof: without bytes it abstains, and the others refuse.
NativeVerdict(i) == IF prBytes[i] = {} THEN "abstain" ELSE Refuses(~BytesAreGood(i))

\* The credential's own dates, whatever the registry's.
checkValidityWindow == VcWindow.from <= prNow /\ prNow < VcWindow.until

verifyVc(i) == Refuses(~BytesAreGood(i) \/ ~checkValidityWindow)

\* The chains of these two are in ProofChain.
ChainVerdict(i) == Refuses(~BytesAreGood(i))

\* The bytes have the digest that was registered, and no one is bound to them.
verifyBearcap(i) == IF BytesAreGood(i) THEN "possession-confirmed" ELSE "invalid"

\* composeVerifiers.
CryptoVerdict(r) ==
  CASE r.scheme = "native-signed-event" -> NativeVerdict(r.id)
    [] r.scheme = "vc" -> verifyVc(r.id)
    [] r.scheme \in {"ucan", "zcap-ld"} -> ChainVerdict(r.id)
    [] r.scheme = "bearcap" -> verifyBearcap(r.id)
    [] OTHER -> "abstain"

\* Faulty variant: the verifiers are asked before the dates.
VerdictBeforeDates(r, installed) ==
  IF installed /\ CryptoVerdict(r) # "abstain" THEN CryptoVerdict(r)
  ELSE IF r.revoked # {} THEN "revoked"
  ELSE IF prNow >= r.expires THEN "expired"
  ELSE "unverified"

\* computeVerificationState: installed says whether the caller passes the verifiers.
ComputedState(r, installed) ==
  IF r.revoked # {} THEN "revoked"
  ELSE IF prNow >= r.expires THEN "expired"
  ELSE IF installed /\ CryptoVerdict(r) # "abstain" THEN CryptoVerdict(r)
  ELSE "unverified"

-----------------------------------------------------------------------------
(* The registry and its rows.                                              *)

Dated(r) == r.issued < r.expires /\ \A t \in r.revoked : t >= r.issued

RegisterProof(input) ==
  /\ prRegistry[input.id] = {}
  /\ Dated(input)
  /\ prRegistry' =
       [prRegistry EXCEPT ![input.id] =
          {[id |-> input.id, scheme |-> input.scheme, subject |-> input.subject,
            issued |-> input.issued, expires |-> input.expires, revoked |-> input.revoked,
            state |-> IF input.revoked = {} THEN "unverified" ELSE "revoked"]}]
  /\ UNCHANGED <<prNow, prRows, prBytes, prWithdrawn, prUsed, prVerdicts, prStored>>

VerifyProof(i, installed) ==
  /\ prRegistry[i] # {}
  /\ prRegistry' = [prRegistry EXCEPT ![i] = {[r EXCEPT !.state = ComputedState(r, installed)] : r \in @}]
  /\ UNCHANGED <<prNow, prRows, prBytes, prWithdrawn, prUsed, prVerdicts, prStored>>

\* The first revocation wins.  Its date may be any.
RevokeProof(i, at) ==
  /\ prRegistry[i] # {}
  /\ prRegistry' =
       [prRegistry EXCEPT ![i] =
          {IF r.revoked # {} THEN r ELSE [r EXCEPT !.revoked = {at}, !.state = "revoked"] : r \in @}]
  /\ UNCHANGED <<prNow, prRows, prBytes, prWithdrawn, prUsed, prVerdicts, prStored>>

\* validateStoredProofRecord.
StorableRecord(r) == Dated(r) /\ (r.state = "revoked" <=> r.revoked # {})

\* putCapabilityProofRecord.
PutProofRecord(i) ==
  /\ \E r \in prRegistry[i] : StorableRecord(r)
  /\ prRows' = [prRows EXCEPT ![i] = prRegistry[i]]
  /\ prStored' = IF \E r \in prRegistry[i] : r.revoked # {} THEN prStored \cup {i} ELSE prStored
  /\ UNCHANGED <<prNow, prRegistry, prBytes, prWithdrawn, prUsed, prVerdicts>>

DeleteProofRecord(i) ==
  /\ prRows[i] # {}
  /\ prRows' = [prRows EXCEPT ![i] = {}]
  /\ prStored' = prStored \ {i}
  /\ UNCHANGED <<prNow, prRegistry, prBytes, prWithdrawn, prUsed, prVerdicts>>

\* A row at rest becomes one that no writer of the store leaves.
CorruptRow(i) ==
  /\ \E r \in prRows[i] : r.revoked # {} /\ r.state = "revoked"
  /\ prRows' = [prRows EXCEPT ![i] = {[r EXCEPT !.state = "verified"] : r \in @}]
  /\ UNCHANGED <<prNow, prRegistry, prBytes, prWithdrawn, prUsed, prVerdicts, prStored>>

\* loadProofRegistry and seedProofRegistry: rows that are corrupt are passed over, and
\* what they said is lost.
Seed ==
  /\ prRegistry' = [i \in ProofIds |-> {r \in prRows[i] : StorableRecord(r)}]
  /\ prUsed' = {}
  /\ prStored' = {i \in prStored : prRegistry'[i] # {}}
  /\ UNCHANGED <<prNow, prRows, prBytes, prWithdrawn, prVerdicts>>

-----------------------------------------------------------------------------
(* What relies on the registry.                                            *)

Severity(state) ==
  CASE state = "revoked" -> 0 [] state = "invalid" -> 1 [] state = "expired" -> 2
    [] state = "unverified" -> 3 [] state = "possession-confirmed" -> 4 [] state = "verified" -> 5

StateOf(i) ==
  IF i \in ProofIds /\ prRegistry[i] # {} THEN (CHOOSE r \in prRegistry[i] : TRUE).state
  ELSE "unverified"

\* summarizeProofStates: the worst of them.
Summary(refs) ==
  IF refs = {} THEN "unverified"
  ELSE StateOf(CHOOSE i \in refs : \A j \in refs : Severity(StateOf(i)) <= Severity(StateOf(j)))

\* evaluateCaveat.  The uses of a capability are not counted, and a caveat that asks for
\* a check which is not made here never holds.
evaluateCaveat(c, inv) ==
  CASE c.kind = "expires-before" -> prNow < c.value
    [] c.kind = "not-before" -> c.value <= prNow
    [] c.kind = "max-uses" -> c.value > 0
    [] c.kind = "requires-freshness-check" -> FALSE
    [] c.kind = "requires-human-review" -> inv.surface = "display"
    [] c.kind = "is" -> c.fits

\* evaluateCapabilityInvocation, to which the caller passes the proofs that the registry
\* has as verified and the invocations that it has seen.
InvocationAllowed(inv) ==
  /\ inv.misfits = {} /\ ~prWithdrawn
  /\ prNow < inv.expires /\ inv.notBefore <= prNow
  /\ inv \notin prUsed
  /\ \A c \in inv.caveats : evaluateCaveat(c, inv)
  /\ \A i \in IdsOf(inv.refs) : StateOf(i) = "verified"

\* resolveProofsState: a verdict that the caller brings wins, however old; a caller that
\* names proofs and brings no registry has none.  The proofs are {} if it names none, and
\* {refs} if it names those, which may be none as well.
ProofsState(proofs, registryGiven, verdict) ==
  IF verdict # {} THEN CHOOSE state \in verdict : TRUE
  ELSE IF proofs = {} THEN "none"
  ELSE IF registryGiven THEN Summary(IdsOf(UNION proofs))
  ELSE IF UNION proofs # {} THEN "unverified" ELSE "none"

HasBearcap(refs) == \E ref \in refs : ref.scheme = "bearcap"

\* evaluateCapabilityReliance: the decision stands, unless its proofs do not.
ReliedOn(decision, inv, proofs, registryGiven, verdict) ==
  /\ decision
  /\ ~(inv.reserved /\ HasBearcap(UNION proofs))
  /\ ProofsState(proofs, registryGiven, verdict) \in {"none", "verified"}

\* The proof could have been verified at some time since its bytes have come.
Provable(r) ==
  /\ r.scheme \in {"native-signed-event", "ucan", "zcap-ld", "vc"}
  /\ \E b \in prBytes[r.id] :
       /\ b.good
       /\ \E t \in b.at..prNow :
            /\ t < r.expires
            /\ r.scheme = "vc" => VcWindow.from <= t /\ t < VcWindow.until

\* It is registered, binds an identity, was held in good order at a time before it
\* expired, and is not revoked as far as the registry and the rows can know.
Sound(i) ==
  /\ i \in ProofIds \ prStored
  /\ \E r \in prRegistry[i] : r.revoked = {} /\ Provable(r)

\* A caller folds the states of the proofs and keeps the verdict, in a row perhaps.
KeepVerdict(inv) ==
  /\ prVerdicts' =
       [prVerdicts EXCEPT ![inv] =
          {[state |-> Summary(IdsOf(inv.refs)), sound |-> \A i \in IdsOf(inv.refs) : Sound(i)]}]
  /\ UNCHANGED <<prNow, prRegistry, prRows, prBytes, prWithdrawn, prUsed, prStored>>

\* The verdict that a caller can bring, none or the one that it keeps.
Brought(inv) == {{}, {v.state : v \in prVerdicts[inv]}}

\* The caller takes note of an invocation that was allowed.
InvokeCapability(inv) ==
  /\ InvocationAllowed(inv)
  /\ \E verdict \in Brought(inv) : ReliedOn(TRUE, inv, {inv.refs}, TRUE, verdict)
  /\ prUsed' = prUsed \cup {inv}
  /\ UNCHANGED <<prNow, prRegistry, prRows, prBytes, prWithdrawn, prVerdicts, prStored>>

\* resolveVcBindings: one whose proof is of another scheme or subject is left out.
ResolvedState(b) ==
  IF b.proof \notin ProofIds \/ prRegistry[b.proof] = {} THEN {"unverified"}
  ELSE {r.state : r \in {s \in prRegistry[b.proof] : s.scheme = "vc" /\ s.subject = b.subject}}

-----------------------------------------------------------------------------
\* The bytes of a proof arrive, and are what was registered or something else.
BytesArrive(i, good) ==
  /\ prBytes[i] = {}
  /\ prBytes' = [prBytes EXCEPT ![i] = {[good |-> good, at |-> prNow]}]
  /\ UNCHANGED <<prNow, prRegistry, prRows, prWithdrawn, prUsed, prVerdicts, prStored>>

WithdrawCapability ==
  /\ ~prWithdrawn
  /\ prWithdrawn' = TRUE
  /\ UNCHANGED <<prNow, prRegistry, prRows, prBytes, prUsed, prVerdicts, prStored>>

RegistryTick ==
  /\ prNow < MaxPrNow
  /\ prNow' = prNow + 1
  /\ UNCHANGED <<prRegistry, prRows, prBytes, prWithdrawn, prUsed, prVerdicts, prStored>>

RegistryNext ==
  \/ \E input \in Registrations : RegisterProof(input)
  \/ \E i \in ProofIds :
       \/ \E installed \in BOOLEAN : VerifyProof(i, installed)
       \/ \E at \in RevocationDates : RevokeProof(i, at)
       \/ PutProofRecord(i) \/ DeleteProofRecord(i) \/ CorruptRow(i)
       \/ \E good \in BOOLEAN : BytesArrive(i, good)
  \/ \E inv \in Invocations : InvokeCapability(inv) \/ KeepVerdict(inv)
  \/ Seed \/ WithdrawCapability \/ RegistryTick

RegistrySpec == RegistryInit /\ [][RegistryNext]_registryVars

-----------------------------------------------------------------------------
(* Properties.                                                             *)

RegistryTypeOK ==
  /\ \A i \in ProofIds :
       /\ \A r \in prRegistry[i] \cup prRows[i] : r.id = i /\ r.state \in States
       /\ Cardinality(prRegistry[i]) <= 1 /\ Cardinality(prRows[i]) <= 1
  /\ prUsed \subseteq Invocations /\ prStored \subseteq ProofIds
  /\ \A inv \in Invocations :
       /\ Cardinality(prVerdicts[inv]) <= 1
       /\ \A v \in prVerdicts[inv] : v.state \in States /\ v.sound \in BOOLEAN

\* Nothing is passed off as verified.  When the proofs of a capability count as verified,
\* or one is shown as its evidence, each of them is sound; and when it is relied upon,
\* each of the proofs that are named is, or else the caller brought a verdict and each
\* was when that was folded: a verdict that is kept does not see what became of the
\* proofs since.  A revocation that was stored survives every restart; a row that was
\* tampered with proves nothing.
NothingIsLaundered ==
  /\ \A refs \in SUBSET ProofIds : Summary(refs) = "verified" => \A i \in refs : Sound(i)
  /\ \A inv \in Invocations, given \in BOOLEAN : \A verdict \in Brought(inv) :
       ReliedOn(TRUE, inv, {inv.refs}, given, verdict) =>
         \/ \A i \in IdsOf(inv.refs) : Sound(i)
         \/ verdict # {} /\ \A v \in prVerdicts[inv] : v.sound
  /\ \A b \in VcBindings :
       "verified" \in ResolvedState(b) =>
         /\ Sound(b.proof)
         /\ \E r \in prRegistry[b.proof] : r.subject = b.subject
=============================================================================
