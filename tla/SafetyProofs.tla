----------------------------- MODULE SafetyProofs ----------------------------
(***************************************************************************)
(* What is decided about what others send: the registry of capability      *)
(* proofs, the cases that reports make, the walk along a chain of          *)
(* delegations, the admission of transport and the delegation of           *)
(* capabilities, for every set of proofs, invocations, reports, appeals,   *)
(* items, policies, rules, links, peers, handlers, grants and revocations. *)
(*                                                                         *)
(* A record of the registry counts as verified only if it is not revoked   *)
(* and its proof could be verified, and a row says so only of such a       *)
(* record or was tampered with and is passed over. Of cases, items and     *)
(* policies, the indexes list what the records say, and what is closed     *)
(* stays closed. Of a chain, what is left to walk has been granted by what *)
(* was walked.                                                             *)
(*                                                                         *)
(* OneAtATimeIsSafe and QuarantineHolds of Admission. As long as no        *)
(* handling overlaps another, the gateway's state knows what it admitted,  *)
(* the snapshot has the same cache, and the one handling in progress was   *)
(* decided from that state and alone writes the temporary file. A handling *)
(* or an action of the operator that ends the condition sets the flag that *)
(* the properties except.                                                  *)
(*                                                                         *)
(* DelegationIsBounded of Capabilities. The projection and the graph keep  *)
(* one grant of each id at most, marked with the revocations that have     *)
(* come. Along a path the actions narrow from each grant to the next, so   *)
(* that they do from its root to its end: of the grants of which that is   *)
(* not so there would be a first, and the one before it contradicts it.    *)
(*                                                                         *)
(* EndorsedIsCurrent of Reputation, for any registry, entries and clock.   *)
(* A score that the view takes from a labeler is in the fold of the rows   *)
(* as the last that labeler has said, and who is muted is passed over      *)
(* when the labelers are read.                                             *)
(*                                                                         *)
(* CliquesAreFound of CliqueSearch, for any graph. The search is Tarjan's: *)
(* the frames under way are a path, what is on the stack reaches what came *)
(* after it, the low link of a node is reached from it, and what has left  *)
(* the stack leads only to what has left it (SearchInv).                   *)
(*                                                                         *)
(* ShownByTheLog, for any events, apps, snapshots and subscriptions. What  *)
(* a log is folded into is exhibited as a function of its prefixes: the    *)
(* visibility is the highest rank that is in force, and the labels and the *)
(* subscriptions that stand are the first of their kind that nothing       *)
(* behind them has ended. Each event changes what a prefix says just as    *)
(* the fold does.                                                          *)
(***************************************************************************)
EXTENDS MCSafety, FiniteSetTheorems, SequenceTheorems, WellFoundedInduction, TLAPS

(***************************************************************************)
(* The registry of proofs.                                                 *)
(***************************************************************************)

\* What registerProof makes of its input.
ProofRecord ==
  [id: STRING, scheme: Schemes, subject: STRING, issued: Nat, expires: Nat, revoked: SUBSET Nat,
   state: States]

\* A record or a row of the id.
RecordsOf(i) == {r \in ProofRecord : r.id = i}

\* What is kept of each proof, once at most; and the time at which bytes came.
RegistryShape ==
  /\ prNow \in Nat
  /\ prRegistry \in [ProofIds -> SUBSET ProofRecord]
  /\ prRows \in [ProofIds -> SUBSET ProofRecord]
  /\ prBytes \in [ProofIds -> SUBSET [good: BOOLEAN, at: Nat]]
  /\ prUsed \subseteq Invocations
  /\ prStored \subseteq ProofIds
  /\ \A i \in ProofIds :
       /\ prRegistry[i] \subseteq RecordsOf(i) /\ prRows[i] \subseteq RecordsOf(i)
       /\ \A r, s \in prRegistry[i] : r = s
       /\ \A r, s \in prRows[i] : r = s
       /\ \A b \in prBytes[i] : b.at <= prNow

\* A record counts as verified only if it is not revoked and could be verified.
Earned(r) == r.state = "verified" => r.revoked = {} /\ Provable(r)

\* A row that says so is sound too, unless it was tampered with and is passed over.  An
\* id whose revocation is stored is revoked in the registry and in its row.
RegistryIsSound ==
  /\ \A i \in ProofIds :
       /\ \A r \in prRegistry[i] : Earned(r)
       /\ \A r \in prRows[i] : StorableRecord(r) => Earned(r)
  /\ \A i \in prStored :
       /\ prRegistry[i] # {}
       /\ \A r \in prRegistry[i] \cup prRows[i] : r.revoked # {}

RegistryInv == RegistryShape /\ RegistryIsSound

\* The registry starts well: it is empty.
LEMMA RegistryStarts == ASSUME RegistryInit PROVE RegistryInv
  BY DEF RegistryInit, RegistryInv, RegistryShape, RegistryIsSound

\* A proof that could be verified stays so: the clock only grows and the bytes that came
\* stay.
LEMMA ProvableStays ==
  ASSUME RegistryShape, NEW i \in ProofIds, NEW r \in RecordsOf(i),
         prNow' \in Nat, prNow <= prNow',
         prBytes[i] \subseteq prBytes'[i]
  PROVE  Provable(r) => Provable(r)'
  <1> SUFFICES ASSUME Provable(r) PROVE Provable(r)' OBVIOUS
  <1>1. r.id = i /\ r.expires \in Nat BY DEF RecordsOf, ProofRecord
  <1>2. PICK b \in prBytes[i] :
          /\ b.good
          /\ \E t \in b.at..prNow :
               t < r.expires /\ (r.scheme = "vc" => VcWindow.from <= t /\ t < VcWindow.until)
    BY <1>1 DEF Provable
  <1>3. PICK t \in b.at..prNow :
          t < r.expires /\ (r.scheme = "vc" => VcWindow.from <= t /\ t < VcWindow.until)
    BY <1>2
  <1>4. b.at \in Nat /\ prNow \in Nat BY DEF RegistryShape
  <1>5. t \in b.at..(prNow') BY <1>3, <1>4
  <1>6. b \in prBytes'[r.id] BY <1>1
  <1> QED BY <1>2, <1>3, <1>5, <1>6, Zenon DEF Provable

\* What the verifiers and the dates make of a record is a state, and "verified" only of
\* one that is not revoked and could be verified now.
LEMMA VerdictIsEarned ==
  ASSUME RegistryShape, NEW i \in ProofIds, NEW r \in RecordsOf(i), NEW installed \in BOOLEAN
  PROVE  /\ ComputedState(r, installed) \in States
         /\ ComputedState(r, installed) = "verified" => r.revoked = {} /\ Provable(r)
  <1>1. r.id = i /\ r.expires \in Nat /\ r.scheme \in Schemes BY DEF RecordsOf, ProofRecord
  <1>2. CryptoVerdict(r) \in {"abstain", "invalid", "verified", "possession-confirmed"}
    BY <1>1 DEF CryptoVerdict, NativeVerdict, verifyVc, ChainVerdict, verifyBearcap, Refuses, Schemes
  <1>3. ComputedState(r, installed) \in States BY <1>2 DEF ComputedState, States
  <1>4. ASSUME ComputedState(r, installed) = "verified" PROVE r.revoked = {} /\ Provable(r)
    <2>1. r.revoked = {} /\ ~(prNow >= r.expires) /\ CryptoVerdict(r) = "verified"
      BY <1>4 DEF ComputedState
    <2>2. prNow \in Nat /\ prNow < r.expires BY <2>1, <1>1 DEF RegistryShape
    <2>3. /\ r.scheme \in {"native-signed-event", "ucan", "zcap-ld", "vc"}
          /\ BytesAreGood(i)
          /\ r.scheme = "vc" => checkValidityWindow
      BY <2>1, <1>1
         DEF CryptoVerdict, NativeVerdict, verifyVc, ChainVerdict, verifyBearcap, Refuses, Schemes
    <2>4. PICK b \in prBytes[i] : b.good BY <2>3 DEF BytesAreGood
    <2>5. b.at \in Nat /\ b.at <= prNow BY DEF RegistryShape
    <2>6. prNow \in b.at..prNow BY <2>2, <2>5
    <2> QED BY <2>1, <2>2, <2>3, <2>4, <2>6, <1>1 DEF Provable, checkValidityWindow
  <1> QED BY <1>3, <1>4

\* Registering a proof keeps the registry sound.
LEMMA RegisterKeeps ==
  ASSUME RegistryAssumption, RegistryInv, NEW input \in Registrations, RegisterProof(input)
  PROVE  RegistryInv'
  <1> DEFINE rec ==
        [id |-> input.id, scheme |-> input.scheme, subject |-> input.subject,
         issued |-> input.issued, expires |-> input.expires, revoked |-> input.revoked,
         state |-> IF input.revoked = {} THEN "unverified" ELSE "revoked"]
  <1>1. input \in RegisterProofInput BY DEF RegistryAssumption
  <1>2. rec \in RecordsOf(input.id)
    BY <1>1 DEF RecordsOf, ProofRecord, RegisterProofInput, States
  <1>3. rec.state # "verified" OBVIOUS
  <1>4. input.id \in ProofIds BY DEF ProofIds
  <1>5. PICK x \in RecordsOf(input.id) :
          /\ x.state # "verified"
          /\ prRegistry' = [prRegistry EXCEPT ![input.id] = {x}]
    BY <1>2, <1>3 DEF RegisterProof
  <1>6. /\ UNCHANGED <<prNow, prRows, prBytes, prUsed, prStored>>
        /\ prRegistry[input.id] = {}
    BY DEF RegisterProof
  <1>7. input.id \notin prStored BY <1>6 DEF RegistryInv, RegistryIsSound
  <1>8. RegistryShape'
    BY <1>4, <1>5, <1>6 DEF RegistryInv, RegistryShape, RecordsOf
  <1>9. RegistryIsSound'
    BY <1>4, <1>5, <1>6, <1>7
       DEF RegistryInv, RegistryShape, RegistryIsSound, Earned, Provable, StorableRecord, Dated
  <1> QED BY <1>8, <1>9 DEF RegistryInv

\* A verification keeps it: the verdict is earned.
LEMMA VerifyKeeps ==
  ASSUME RegistryInv, NEW i \in ProofIds, NEW installed \in BOOLEAN, VerifyProof(i, installed)
  PROVE  RegistryInv'
  <1> USE DEF RegistryInv
  <1>1. PICK r \in RecordsOf(i) : prRegistry[i] = {r}
    BY DEF VerifyProof, RegistryShape
  <1>a. PICK w, x : w = ComputedState(r, installed) /\ x = [r EXCEPT !.state = w] OBVIOUS
  <1>2. prRegistry' = [prRegistry EXCEPT ![i] = {[q EXCEPT !.state = ComputedState(q, installed)] : q \in @}]
    BY DEF VerifyProof
  <1>3. prRegistry' = [prRegistry EXCEPT ![i] = {x}] BY <1>1, <1>2, <1>a
  <1>4. UNCHANGED <<prNow, prRows, prBytes, prUsed, prStored>> BY DEF VerifyProof
  <1>5. w \in States /\ (w = "verified" => r.revoked = {} /\ Provable(r)) BY <1>a, VerdictIsEarned
  <1>6. /\ x \in RecordsOf(i) /\ x.state = w /\ x.revoked = r.revoked
        /\ x.id = r.id /\ x.scheme = r.scheme /\ x.expires = r.expires
    BY <1>5, <1>a DEF RecordsOf, ProofRecord
  <1>7. RegistryShape' BY <1>3, <1>4, <1>6 DEF RegistryShape, RecordsOf
  <1>8. Earned(x)' BY <1>4, <1>5, <1>6 DEF Earned, Provable
  <1>9. i \in prStored => x.revoked # {} BY <1>1, <1>6 DEF RegistryIsSound
  <1>10. /\ \A j \in ProofIds : prRegistry'[j] = IF j = i THEN {x} ELSE prRegistry[j]
         /\ \A q : Earned(q)' <=> Earned(q)
         /\ \A q : StorableRecord(q)' <=> StorableRecord(q)
    BY <1>3, <1>4 DEF RegistryShape, Earned, Provable, StorableRecord, Dated
  <1>11. RegistryIsSound' BY <1>4, <1>8, <1>9, <1>10 DEF RegistryIsSound, RegistryShape
  <1> QED BY <1>7, <1>11

\* A revocation keeps it.
LEMMA RevokeKeeps ==
  ASSUME RegistryAssumption, RegistryInv, NEW i \in ProofIds, NEW at \in RevocationDates,
         RevokeProof(i, at)
  PROVE  RegistryInv'
  <1> USE DEF RegistryInv
  <1>a. prRegistry[i] # {} BY DEF RevokeProof
  <1>1. PICK r \in RecordsOf(i) : prRegistry[i] = {r}
    BY <1>a DEF RegistryShape
  <1> DEFINE x == IF r.revoked # {} THEN r ELSE [r EXCEPT !.revoked = {at}, !.state = "revoked"]
  <1>2. prRegistry' = [prRegistry EXCEPT ![i] =
          {IF q.revoked # {} THEN q ELSE [q EXCEPT !.revoked = {at}, !.state = "revoked"] : q \in @}]
    BY DEF RevokeProof
  <1>3. prRegistry' = [prRegistry EXCEPT ![i] = {x}] BY <1>1, <1>2
  <1>4. UNCHANGED <<prNow, prRows, prBytes, prUsed, prStored>> BY DEF RevokeProof
  <1>5. at \in Nat BY DEF RegistryAssumption
  <1>6. x \in RecordsOf(i) /\ x.revoked # {} /\ (x.state = "verified" => x = r)
    BY <1>5 DEF RecordsOf, ProofRecord, States
  <1>7. Earned(x) BY <1>1, <1>6 DEF RegistryIsSound, Earned
  <1> HIDE DEF x
  <1>8. RegistryShape' BY <1>3, <1>4, <1>6 DEF RegistryShape, RecordsOf
  <1>9. /\ \A j \in ProofIds : prRegistry'[j] = IF j = i THEN {x} ELSE prRegistry[j]
        /\ \A q : Earned(q)' <=> Earned(q)
        /\ \A q : StorableRecord(q)' <=> StorableRecord(q)
    BY <1>3, <1>4 DEF RegistryShape, Earned, Provable, StorableRecord, Dated
  <1>10. RegistryIsSound' BY <1>4, <1>6, <1>7, <1>9 DEF RegistryIsSound, RegistryShape
  <1> QED BY <1>8, <1>10

\* The steps of the store keep it: a row that is written, deleted or tampered with.
LEMMA RowsKeep ==
  ASSUME RegistryInv, NEW i \in ProofIds,
         PutProofRecord(i) \/ DeleteProofRecord(i) \/ CorruptRow(i)
  PROVE  RegistryInv'
  <1> USE DEF RegistryInv
  <1>1. UNCHANGED <<prNow, prRegistry, prBytes, prUsed>>
    BY DEF PutProofRecord, DeleteProofRecord, CorruptRow
  <1>2. /\ \A q : Earned(q)' <=> Earned(q)
        /\ \A q : StorableRecord(q)' <=> StorableRecord(q)
    BY <1>1 DEF Earned, Provable, StorableRecord, Dated
  <1>3. CASE PutProofRecord(i)
    <2>1. PICK r \in RecordsOf(i) : prRegistry[i] = {r} /\ StorableRecord(r)
      BY <1>3 DEF PutProofRecord, RegistryShape
    <2>2. /\ prRows' = [prRows EXCEPT ![i] = {r}]
          /\ prStored' = IF r.revoked # {} THEN prStored \cup {i} ELSE prStored
      BY <1>3, <2>1 DEF PutProofRecord
    <2>3. RegistryShape' BY <1>1, <2>1, <2>2 DEF RegistryShape, RecordsOf
    <2>4. \A j \in ProofIds : prRows'[j] = IF j = i THEN {r} ELSE prRows[j]
      BY <2>2 DEF RegistryShape
    <2>5. i \in prStored => r.revoked # {} BY <2>1 DEF RegistryIsSound
    <2>6. prStored \subseteq ProofIds BY DEF RegistryShape
    <2>7. RegistryIsSound' BY <1>1, <1>2, <2>1, <2>2, <2>4, <2>5, <2>6 DEF RegistryIsSound
    <2> QED BY <2>3, <2>7
  <1>4. CASE DeleteProofRecord(i)
    <2>1. prRows' = [prRows EXCEPT ![i] = {}] /\ prStored' = prStored \ {i}
      BY <1>4 DEF DeleteProofRecord
    <2>2. RegistryShape' BY <1>1, <2>1 DEF RegistryShape, RecordsOf
    <2>3. \A j \in ProofIds : prRows'[j] = IF j = i THEN {} ELSE prRows[j]
      BY <2>1 DEF RegistryShape
    <2>4. prStored \subseteq ProofIds BY DEF RegistryShape
    <2>5. RegistryIsSound' BY <1>1, <1>2, <2>1, <2>3, <2>4 DEF RegistryIsSound
    <2> QED BY <2>2, <2>5
  <1>5. CASE CorruptRow(i)
    <2>1. PICK r \in RecordsOf(i) : prRows[i] = {r} /\ r.revoked # {}
      BY <1>5 DEF CorruptRow, RegistryShape
    <2> DEFINE x == [r EXCEPT !.state = "verified"]
    <2>2. prRows' = [prRows EXCEPT ![i] = {[q EXCEPT !.state = "verified"] : q \in @}]
          /\ prStored' = prStored
      BY <1>5 DEF CorruptRow
    <2>3. prRows' = [prRows EXCEPT ![i] = {x}] BY <2>1, <2>2
    <2>4. x \in RecordsOf(i) /\ x.revoked = r.revoked /\ x.state = "verified"
      BY DEF RecordsOf, ProofRecord, States
    <2> HIDE DEF x
    <2>5. RegistryShape' BY <1>1, <2>2, <2>3, <2>4 DEF RegistryShape, RecordsOf
    <2>6. \A j \in ProofIds : prRows'[j] = IF j = i THEN {x} ELSE prRows[j]
      BY <2>3 DEF RegistryShape
    <2>7. ~StorableRecord(x) /\ x.revoked # {} BY <2>1, <2>4 DEF StorableRecord
    <2>8. prStored \subseteq ProofIds BY DEF RegistryShape
    <2>9. \A j \in ProofIds : \A q \in prRows'[j] : StorableRecord(q) => Earned(q)
      BY <2>6, <2>7 DEF RegistryIsSound
    <2>10. \A j \in prStored :
             /\ prRegistry[j] # {}
             /\ \A q \in prRegistry[j] \cup prRows'[j] : q.revoked # {}
      BY <2>6, <2>7, <2>8 DEF RegistryIsSound
    <2>11. RegistryIsSound' BY <1>1, <1>2, <2>2, <2>9, <2>10 DEF RegistryIsSound
    <2> QED BY <2>5, <2>11
  <1> QED BY <1>3, <1>4, <1>5

\* A restart keeps it: what is seeded is in order, and what was stored as revoked comes
\* back as revoked or not at all.
LEMMA SeedKeeps ==
  ASSUME RegistryInv, Seed
  PROVE  RegistryInv'
  <1> USE DEF RegistryInv
  <1>1. /\ UNCHANGED <<prNow, prRows, prBytes>>
        /\ prUsed' = {}
        /\ prRegistry' = [i \in ProofIds |-> {r \in prRows[i] : StorableRecord(r)}]
        /\ prStored' = {i \in prStored : prRegistry'[i] # {}}
    BY DEF Seed
  <1>2. /\ \A q : Earned(q)' <=> Earned(q)
        /\ \A q : StorableRecord(q)' <=> StorableRecord(q)
    BY <1>1 DEF Earned, Provable, StorableRecord, Dated
  <1>3. \A i \in ProofIds :
          \A r : r \in prRegistry'[i] <=> r \in prRows[i] /\ StorableRecord(r)
    BY <1>1
  <1>4. prRegistry' \in [ProofIds -> SUBSET ProofRecord]
    BY <1>1 DEF RegistryShape
  <1>5. RegistryShape' BY <1>1, <1>3, <1>4 DEF RegistryShape
  <1>6. RegistryIsSound' BY <1>1, <1>2, <1>3 DEF RegistryIsSound, RegistryShape
  <1> QED BY <1>5, <1>6

\* So do the bytes that arrive and the clock.
LEMMA BytesAndClockKeep ==
  ASSUME RegistryInv,
         \/ \E i \in ProofIds, good \in BOOLEAN : BytesArrive(i, good)
         \/ RegistryTick
  PROVE  RegistryInv'
  <1> USE DEF RegistryInv
  <1>1. UNCHANGED <<prRegistry, prRows, prUsed, prStored>>
    BY DEF BytesArrive, RegistryTick
  <1>2. prNow' \in Nat /\ prNow <= prNow'
    BY DEF BytesArrive, RegistryTick, RegistryShape
  <1>3. /\ prBytes' \in [ProofIds -> SUBSET [good: BOOLEAN, at: Nat]]
        /\ \A i \in ProofIds : prBytes[i] \subseteq prBytes'[i]
        /\ \A i \in ProofIds : \A b \in prBytes'[i] : b.at <= prNow'
    <2>1. CASE RegistryTick BY <2>1, <1>2 DEF RegistryTick, RegistryShape
    <2>2. ASSUME NEW i \in ProofIds, NEW good \in BOOLEAN, BytesArrive(i, good)
          PROVE  <1>3!1 /\ <1>3!2 /\ <1>3!3
      BY <2>2 DEF BytesArrive, RegistryShape
    <2> QED BY <2>1, <2>2
  <1>4. RegistryShape' BY <1>1, <1>2, <1>3 DEF RegistryShape
  <1>5. \A i \in ProofIds : \A r \in RecordsOf(i) : Provable(r) => Provable(r)'
    BY <1>2, <1>3, ProvableStays
  <1>6. \A i \in ProofIds : \A r \in RecordsOf(i) : Earned(r) => Earned(r)'
    BY <1>5 DEF Earned
  <1>7. \A q : StorableRecord(q)' <=> StorableRecord(q) BY DEF StorableRecord, Dated
  <1>8. RegistryIsSound' BY <1>1, <1>6, <1>7 DEF RegistryIsSound, RegistryShape
  <1> QED BY <1>4, <1>8

\* A state of the registry is one of the states, and "verified" only of one whose record
\* says so.
LEMMA StateIsARecords ==
  ASSUME RegistryInv, NEW i
  PROVE  /\ StateOf(i) \in States
         /\ StateOf(i) = "verified" =>
              i \in ProofIds /\ \E r \in prRegistry[i] : r.state = "verified"
  <1>1. CASE i \in ProofIds /\ prRegistry[i] # {}
    <2>1. PICK r \in RecordsOf(i) : prRegistry[i] = {r}
      BY <1>1 DEF RegistryInv, RegistryShape
    <2>2. (CHOOSE q \in prRegistry[i] : TRUE) = r BY <2>1
    <2>3. StateOf(i) = r.state BY <1>1, <2>2 DEF StateOf
    <2> QED BY <1>1, <2>1, <2>3 DEF RecordsOf, ProofRecord
  <1>2. CASE ~(i \in ProofIds /\ prRegistry[i] # {}) BY <1>2 DEF StateOf, States
  <1> QED BY <1>1, <1>2

\* The gravity of a state is a number of which "verified" has the greatest, alone.
LEMMA SeverityOrders ==
  ASSUME NEW v \in States
  PROVE  Severity(v) \in 0..5 /\ (Severity(v) = 5 => v = "verified")
  BY DEF Severity, States

\* So is a summary: of some proofs it is the state of one.
LEMMA SummaryIsAState ==
  ASSUME RegistryInv, NEW refs
  PROVE  Summary(refs) \in States
  BY StateIsARecords DEF Summary, States

\* The summary of several proofs is "verified" only if each of them is.
LEMMA SummaryIsTheWorst ==
  ASSUME RegistryInv, NEW refs, Summary(refs) = "verified", NEW j \in refs
  PROVE  StateOf(j) = "verified"
  <1> DEFINE g(i) == Severity(StateOf(i))
             Worst(i) == \A k \in refs : g(i) <= g(k)
  <1>1. \A i : g(i) \in 0..5 /\ (g(i) = 5 => StateOf(i) = "verified")
    BY StateIsARecords, SeverityOrders
  <1>2. Summary(refs) = StateOf(CHOOSE i \in refs : Worst(i)) BY DEF Summary
  <1>3. \E i \in refs : Worst(i)
    <2> HIDE DEF g
    <2>1. CASE \E i \in refs : g(i) = 0 BY <1>1, <2>1
    <2>2. CASE (\E i \in refs : g(i) = 1) /\ \A i \in refs : g(i) >= 1 BY <2>2
    <2>3. CASE (\E i \in refs : g(i) = 2) /\ \A i \in refs : g(i) >= 2 BY <2>3
    <2>4. CASE (\E i \in refs : g(i) = 3) /\ \A i \in refs : g(i) >= 3 BY <2>4
    <2>5. CASE (\E i \in refs : g(i) = 4) /\ \A i \in refs : g(i) >= 4 BY <2>5
    <2>6. CASE \A i \in refs : g(i) >= 5 BY <1>1, <2>6
    <2> QED BY <1>1, <2>1, <2>2, <2>3, <2>4, <2>5, <2>6
  <1>4. PICK w \in refs : Worst(w) /\ StateOf(w) = "verified"
    <2>1. (CHOOSE i \in refs : Worst(i)) \in refs /\ Worst(CHOOSE i \in refs : Worst(i))
      BY <1>3, Zenon
    <2> QED BY <1>2, <2>1, Zenon
  <1>5. g(w) = 5 BY <1>4 DEF Severity
  <1>6. g(j) >= 5
    <2> HIDE DEF g
    <2> QED BY <1>4, <1>5
  <1> QED BY <1>1, <1>6

\* A proof whose record says "verified" is sound.
LEMMA VerifiedIsSound ==
  ASSUME RegistryInv, NEW i \in ProofIds, NEW r \in prRegistry[i], r.state = "verified"
  PROVE  Sound(i) /\ r.revoked = {}
  BY DEF RegistryInv, RegistryIsSound, Earned, Sound

\* So proofs are sound whose summary is "verified".
LEMMA VerifiedSummaryIsSound ==
  ASSUME RegistryInv, NEW refs, Summary(refs) = "verified", NEW i \in refs
  PROVE  Sound(i)
  <1>1. StateOf(i) = "verified" BY SummaryIsTheWorst
  <1>2. i \in ProofIds /\ \E r \in prRegistry[i] : r.state = "verified"
    BY <1>1, StateIsARecords
  <1> QED BY <1>2, VerifiedIsSound

\* Every step keeps it.
LEMMA RegistryStep ==
  ASSUME RegistryAssumption, RegistryInv, [RegistryNext]_registryVars
  PROVE  RegistryInv'
  <1>1. CASE \E inv \in Invocations : InvokeCapability(inv)
    BY <1>1 DEF InvokeCapability, RegistryInv, RegistryShape, RegistryIsSound, Earned, Provable,
       StorableRecord, Dated
  <1>2. CASE WithdrawCapability \/ \E inv \in Invocations : KeepVerdict(inv)
    BY <1>2 DEF WithdrawCapability, KeepVerdict, RegistryInv, RegistryShape, RegistryIsSound, Earned, Provable,
       StorableRecord, Dated
  <1>3. CASE UNCHANGED registryVars
    BY <1>3 DEF registryVars, RegistryInv, RegistryShape, RegistryIsSound, Earned, Provable,
       StorableRecord, Dated
  <1> QED
    BY <1>1, <1>2, <1>3, RegisterKeeps, VerifyKeeps, RevokeKeeps, RowsKeep, SeedKeeps,
       BytesAndClockKeep
       DEF RegistryNext

\* A verdict that a caller keeps is of sound proofs, as they were, if it is "verified".
VerdictsAreSound ==
  /\ prVerdicts \in [Invocations -> SUBSET [state: States, sound: BOOLEAN]]
  /\ \A inv \in Invocations :
       /\ \A v, w \in prVerdicts[inv] : v = w
       /\ \A v \in prVerdicts[inv] : v.state = "verified" => v.sound

\* No step makes another of it, and a verdict that is folded is sound.
LEMMA VerdictStep ==
  ASSUME RegistryInv, VerdictsAreSound, [RegistryNext]_registryVars
  PROVE  VerdictsAreSound'
  <1>1. ASSUME NEW inv \in Invocations, KeepVerdict(inv)
        PROVE  VerdictsAreSound'
    <2>1. PICK worst \in States : worst = Summary(IdsOf(inv.refs)) BY SummaryIsAState
    <2>2. PICK ok \in BOOLEAN : ok = \A i \in IdsOf(inv.refs) : Sound(i) BY Zenon
    <2>3. worst = "verified" => ok BY <2>1, <2>2, VerifiedSummaryIsSound
    <2>4. PICK v \in [state: States, sound: BOOLEAN] : v = [state |-> worst, sound |-> ok] OBVIOUS
    <2>5. prVerdicts' = [prVerdicts EXCEPT ![inv] = {v}]
      BY <1>1, <2>1, <2>2, <2>4 DEF KeepVerdict
    <2> QED BY <2>3, <2>4, <2>5 DEF VerdictsAreSound
  <1>2. prVerdicts' = prVerdicts \/ \E inv \in Invocations : KeepVerdict(inv)
    BY DEF RegistryNext, registryVars, RegisterProof, VerifyProof, RevokeProof, PutProofRecord,
       DeleteProofRecord, CorruptRow, BytesArrive, InvokeCapability, Seed, WithdrawCapability,
       RegistryTick
  <1> QED BY <1>1, <1>2 DEF VerdictsAreSound

\* What the invariants are for.
LEMMA InvLaundersNothing ==
  ASSUME RegistryInv, VerdictsAreSound
  PROVE  NothingIsLaundered
  <1>1. ASSUME NEW refs, Summary(refs) = "verified", NEW i \in refs
        PROVE  Sound(i)
    BY <1>1, VerifiedSummaryIsSound
  <1>2. ASSUME NEW inv \in Invocations, NEW registryGiven \in BOOLEAN, NEW verdict \in Brought(inv),
               ReliedOn(TRUE, inv, {inv.refs}, registryGiven, verdict)
        PROVE  \/ \A i \in IdsOf(inv.refs) : Sound(i)
               \/ verdict # {} /\ \A v \in prVerdicts[inv] : v.sound
    <2>1. ProofsState({inv.refs}, registryGiven, verdict) \in {"none", "verified"}
      BY <1>2 DEF ReliedOn
    <2>2. CASE verdict # {}
      <3>1. PICK v \in prVerdicts[inv] : verdict = {v.state} /\ prVerdicts[inv] = {v}
        BY <2>2 DEF Brought, VerdictsAreSound
      <3>2. ProofsState({inv.refs}, registryGiven, verdict) = v.state
        BY <3>1 DEF ProofsState
      <3>3. v.state \in States /\ (v.state = "verified" => v.sound)
        BY <3>1 DEF VerdictsAreSound
      <3>4. v.state = "verified" BY <2>1, <3>2, <3>3 DEF States
      <3> QED BY <2>2, <3>1, <3>3, <3>4
    <2>3. CASE verdict = {}
      <3> SUFFICES ASSUME NEW i \in IdsOf(inv.refs) PROVE Sound(i) OBVIOUS
      <3>1. UNION {inv.refs} = inv.refs /\ inv.refs # {} BY DEF IdsOf
      <3>2. CASE registryGiven
        <4>1. ProofsState({inv.refs}, registryGiven, verdict) = Summary(IdsOf(inv.refs))
          BY <2>3, <3>1, <3>2 DEF ProofsState
        <4>2. Summary(IdsOf(inv.refs)) # "none" BY SummaryIsAState DEF States
        <4> QED BY <1>1, <2>1, <4>1, <4>2
      <3>3. CASE ~registryGiven BY <2>1, <2>3, <3>1, <3>3 DEF ProofsState
      <3> QED BY <3>2, <3>3
    <2> QED BY <2>2, <2>3
  <1>3. ASSUME NEW b, "verified" \in ResolvedState(b)
        PROVE  Sound(b.proof) /\ \E r \in prRegistry[b.proof] : r.subject = b.subject
    <2>1. b.proof \in ProofIds BY <1>3 DEF ResolvedState
    <2>2. PICK r \in prRegistry[b.proof] : r.state = "verified" /\ r.subject = b.subject
      BY <1>3, <2>1 DEF ResolvedState
    <2> QED BY <2>1, <2>2, VerifiedIsSound
  <1> QED BY <1>1, <1>2, <1>3 DEF NothingIsLaundered

\* The registry is sound at all times.
LEMMA RegistryHolds == RegistrySpec => []RegistryInv
  <1>1. RegistryInit => RegistryInv BY RegistryStarts
  <1>2. RegistryInv /\ [RegistryNext]_registryVars => RegistryInv'
    BY RegistryStep, RegistryAssumption
  <1> QED BY <1>1, <1>2, PTL DEF RegistrySpec

\* So are the verdicts that are kept.
LEMMA VerdictsHold == RegistrySpec => []VerdictsAreSound
  <1>1. RegistryInit => VerdictsAreSound BY DEF RegistryInit, VerdictsAreSound
  <1>2. RegistryInv /\ VerdictsAreSound /\ [RegistryNext]_registryVars => VerdictsAreSound'
    BY VerdictStep
  <1> QED BY <1>1, <1>2, RegistryHolds, PTL DEF RegistrySpec

\* Type correctness of the registry and its rows (capabilities' proof-registry.ts): each id
\* has one record and one row at most, of that id and in a state that there is, and each
\* invocation one verdict at most.
THEOREM RegistryTypeCorrect == RegistrySpec => []RegistryTypeOK
  <1>1. ASSUME NEW S, \A r, s \in S : r = s PROVE Cardinality(S) <= 1
    <2>1. CASE S = {} BY <2>1, FS_EmptySet
    <2>2. CASE S # {}
      <3>1. PICK r : S = {r} BY <1>1, <2>2
      <3> QED BY <3>1, FS_Singleton
    <2> QED BY <2>1, <2>2
  <1>2. RegistryInv /\ VerdictsAreSound => RegistryTypeOK
    <2> SUFFICES ASSUME RegistryInv, VerdictsAreSound PROVE RegistryTypeOK OBVIOUS
    <2>1. \A i \in ProofIds : Cardinality(prRegistry[i]) <= 1 /\ Cardinality(prRows[i]) <= 1
      BY <1>1 DEF RegistryInv, RegistryShape
    <2>2. \A inv \in Invocations :
            /\ Cardinality(prVerdicts[inv]) <= 1
            /\ \A v \in prVerdicts[inv] : v.state \in States /\ v.sound \in BOOLEAN
      BY <1>1 DEF VerdictsAreSound
    <2> QED BY <2>1, <2>2 DEF RegistryInv, RegistryShape, RegistryTypeOK, RecordsOf, ProofRecord
  <1> QED BY <1>2, RegistryHolds, VerdictsHold, PTL

\* Nothing is passed off as verified (capabilities' proof-registry.ts and reliance.ts,
\* trust-safety's cap-adapter.ts and the binding of credentials): when the proofs of a
\* capability count as verified, or one is shown as its evidence, each of them is sound,
\* and so is each proof that is named when the capability is relied upon, or was so when
\* the verdict was folded that the caller brings; a revocation that was stored survives
\* every restart, and a row that was tampered with proves nothing.  It holds for any set
\* of proofs, whatever their schemes and dates, and any invocation.
THEOREM RegistryLaundersNothing == RegistrySpec => []NothingIsLaundered
  BY RegistryHolds, VerdictsHold, InvLaundersNothing, PTL

(***************************************************************************)
(* Reports and appeals.                                                    *)
(***************************************************************************)

ReportRecord ==
  [report: Reports, status: {"submitted", "acknowledged", "resolved"},
   outcome: {"none", "escalated", "closed"}]

AppealRecord ==
  [appeal: Appeals, status: {"submitted", "resolved"}, outcome: {"none", "overturned", "closed"}]

\* An id has one report or appeal at most.  Nothing private is in the open, and the
\* indexes list what there is, and of appeals what there was under a key that is known.
Contested(d, i) ==
  \E a \in Appeals : a.id = i /\ a.decision = d /\ a.key \in appealKeys

ReportInv ==
  /\ reports \in [ReportIds -> SUBSET ReportRecord]
  /\ appeals \in [AppealIds -> SUBSET AppealRecord]
  /\ \A i \in ReportIds :
       /\ \A g, h \in reports[i] : g = h
       /\ \A h \in reports[i] :
            /\ h.report.id = i
            /\ h.report.private => ~h.report.wide /\ ~h.report.open
  /\ \A i \in AppealIds :
       /\ \A g, h \in appeals[i] : g = h
       /\ \A h \in appeals[i] : h.appeal.id = i
  /\ inbox = {i \in ReportIds : reports[i] # {}}
  /\ filed = inbox
  /\ \A i \in AppealIds : \A h \in appeals[i] : <<h.appeal.decision, i>> \in contested
  /\ \A i \in AppealIds : \A d : <<d, i>> \in contested => appeals[i] # {} /\ Contested(d, i)

\* What is resolved stays as it is, unless another is taken in its place.
ReportsStayClosed ==
  /\ \A i \in ReportIds :
       StatusOf(reports[i]) = "resolved" => reports'[i] = reports[i] \/ ReportTakenAnew(i)
  /\ \A i \in AppealIds :
       StatusOf(appeals[i]) = "resolved" => appeals'[i] = appeals[i] \/ AppealTakenAnew(i)

\* Taking a report keeps it.
LEMMA CreateReportKeeps ==
  ASSUME ReportInv, NEW r \in Reports, CreateReport(r)
  PROVE  ReportInv' /\ ReportsStayClosed
  <1>1. PICK x : x = [report |-> r, status |-> "submitted", outcome |-> "none"] OBVIOUS
  <1>2. /\ ValidReport(r) /\ r.key \notin reportKeys /\ EvidenceIsSealed(r)
        /\ reports' = [reports EXCEPT ![r.id] = {x}]
        /\ inbox' = inbox \cup {r.id}
        /\ filed' = filed \cup {r.id}
        /\ reportKeys' = reportKeys \cup {r.key}
        /\ UNCHANGED <<appeals, appealKeys, contested>>
    BY <1>1 DEF CreateReport, IsRetry
  <1>3. r.id \in ReportIds BY DEF ReportIds
  <1>6. /\ x \in ReportRecord /\ x.report = r /\ x.status = "submitted"
        /\ r.private => ~r.wide /\ ~r.open
    BY <1>1, <1>2 DEF ReportRecord, ValidReport, EvidenceIsSealed
  <1>7. \A i \in ReportIds : reports'[i] = IF i = r.id THEN {x} ELSE reports[i]
    BY <1>2 DEF ReportInv
  <1>8. reports' \in [ReportIds -> SUBSET ReportRecord] BY <1>2, <1>3, <1>6 DEF ReportInv
  <1>9. ReportInv'
    <2>1. \A i \in ReportIds :
            /\ \A g, h \in reports'[i] : g = h
            /\ \A h \in reports'[i] :
                 /\ h.report.id = i
                 /\ h.report.private => ~h.report.wide /\ ~h.report.open
      BY <1>2, <1>6, <1>7 DEF ReportInv
    <2>2. inbox' = {i \in ReportIds : reports'[i] # {}} /\ filed' = inbox'
      BY <1>2, <1>3, <1>7 DEF ReportInv
    <2>3. /\ appeals' \in [AppealIds -> SUBSET AppealRecord]
          /\ \A i \in AppealIds :
               /\ \A g, h \in appeals'[i] : g = h
               /\ \A h \in appeals'[i] : h.appeal.id = i
          /\ \A i \in AppealIds : \A h \in appeals'[i] : <<h.appeal.decision, i>> \in contested'
      BY <1>2 DEF ReportInv
    <2>4. \A i \in AppealIds : \A d :
            <<d, i>> \in contested' => appeals'[i] # {} /\ Contested(d, i)'
      BY <1>2 DEF ReportInv, Contested
    <2> QED BY <1>8, <2>1, <2>2, <2>3, <2>4 DEF ReportInv
  <1>10. ReportTakenAnew(r.id)
    <2>1. r.key \in reportKeys' \ reportKeys BY <1>2
    <2>2. x \in reports'[r.id] BY <1>3, <1>7
    <2> QED BY <1>6, <2>1, <2>2 DEF ReportTakenAnew
  <1>11. ReportsStayClosed BY <1>2, <1>7, <1>10 DEF ReportsStayClosed
  <1> QED BY <1>9, <1>11

\* So do acknowledging and resolving one: the record is of the same report.
LEMMA ReportMoves ==
  ASSUME ReportInv, NEW i \in ReportIds,
         AcknowledgeReport(i) \/ \E e \in Resolution : ResolveReport(i, e)
  PROVE  ReportInv' /\ ReportsStayClosed
  <1>1. UNCHANGED <<inbox, filed, reportKeys, appeals, appealKeys, contested>>
    BY DEF AcknowledgeReport, ResolveReport
  <1>2. StatusOf(reports[i]) \in {"submitted", "acknowledged"}
    BY DEF AcknowledgeReport, ResolveReport
  <1>3. PICK h \in ReportRecord : reports[i] = {h}
    <2>1. reports[i] # {} BY <1>2 DEF StatusOf
    <2> QED BY <2>1 DEF ReportInv
  <1>4. \E x : x \in ReportRecord /\ x.report = h.report /\ reports' = [reports EXCEPT ![i] = {x}]
    <2>1. CASE AcknowledgeReport(i)
      <3>1. reports' = [reports EXCEPT ![i] = {[g EXCEPT !.status = "acknowledged"] : g \in @}]
        BY <2>1 DEF AcknowledgeReport
      <3>2. reports' = [reports EXCEPT ![i] = {[h EXCEPT !.status = "acknowledged"]}] BY <1>3, <3>1
      <3>3. [h EXCEPT !.status = "acknowledged"] \in ReportRecord
            /\ [h EXCEPT !.status = "acknowledged"].report = h.report
        BY DEF ReportRecord
      <3> QED BY <3>2, <3>3
    <2>2. ASSUME NEW e \in Resolution, ResolveReport(i, e)
          PROVE  \E x : x \in ReportRecord /\ x.report = h.report /\ reports' = [reports EXCEPT ![i] = {x}]
      <3>1. reports' = [reports EXCEPT ![i] =
                          {[g EXCEPT !.status = "resolved", !.outcome = e.outcome] : g \in @}]
        BY <2>2 DEF ResolveReport
      <3>2. reports' = [reports EXCEPT ![i] = {[h EXCEPT !.status = "resolved", !.outcome = e.outcome]}]
        BY <1>3, <3>1
      <3>3. e.outcome \in {"escalated", "closed"} BY <2>2 DEF ResolveReport, ValidResolution
      <3>4. [h EXCEPT !.status = "resolved", !.outcome = e.outcome] \in ReportRecord
            /\ [h EXCEPT !.status = "resolved", !.outcome = e.outcome].report = h.report
        BY <3>3 DEF ReportRecord
      <3> QED BY <3>2, <3>4
    <2> QED BY <2>1, <2>2
  <1>a. PICK x : x \in ReportRecord /\ x.report = h.report /\ reports' = [reports EXCEPT ![i] = {x}]
    BY <1>4
  <1>5. \A j \in ReportIds : reports'[j] = IF j = i THEN {x} ELSE reports[j]
    BY <1>a DEF ReportInv
  <1>6. reports' \in [ReportIds -> SUBSET ReportRecord] BY <1>a DEF ReportInv
  <1>7. ReportInv'
    <2>1. \A j \in ReportIds :
            /\ \A g, k \in reports'[j] : g = k
            /\ \A k \in reports'[j] :
                 /\ k.report.id = j
                 /\ k.report.private => ~k.report.wide /\ ~k.report.open
      BY <1>1, <1>3, <1>a, <1>5 DEF ReportInv
    <2>2. inbox' = {j \in ReportIds : reports'[j] # {}} /\ filed' = inbox'
      BY <1>1, <1>3, <1>5 DEF ReportInv
    <2> QED BY <1>1, <1>6, <2>1, <2>2 DEF ReportInv, Contested
  <1>8. ReportsStayClosed BY <1>1, <1>2, <1>5 DEF ReportsStayClosed
  <1> QED BY <1>7, <1>8

\* An appeal that is taken is listed under the decision it is about.
LEMMA CreateAppealKeeps ==
  ASSUME ReportInv, NEW a \in Appeals, CreateAppeal(a)
  PROVE  ReportInv' /\ ReportsStayClosed
  <1>1. PICK x : x = [appeal |-> a, status |-> "submitted", outcome |-> "none"] OBVIOUS
  <1>2. /\ a.key \notin appealKeys
        /\ appeals' = [appeals EXCEPT ![a.id] = {x}]
        /\ contested' = contested \cup {<<a.decision, a.id>>}
        /\ appealKeys' = appealKeys \cup {a.key}
        /\ UNCHANGED <<reports, inbox, filed, reportKeys>>
    BY <1>1 DEF CreateAppeal
  <1>3. a.id \in AppealIds BY DEF AppealIds
  <1>6. x \in AppealRecord /\ x.appeal = a /\ x.status = "submitted" BY <1>1 DEF AppealRecord
  <1>7. \A i \in AppealIds : appeals'[i] = IF i = a.id THEN {x} ELSE appeals[i]
    BY <1>2 DEF ReportInv
  <1>8. appeals' \in [AppealIds -> SUBSET AppealRecord] BY <1>2, <1>3, <1>6 DEF ReportInv
  <1>9. ReportInv'
    <2>1. \A i \in AppealIds :
            /\ \A g, h \in appeals'[i] : g = h
            /\ \A h \in appeals'[i] : h.appeal.id = i
      BY <1>2, <1>6, <1>7 DEF ReportInv
    <2>2. ASSUME NEW i \in AppealIds, NEW h \in appeals'[i]
          PROVE  <<h.appeal.decision, i>> \in contested'
      <3>1. CASE i = a.id
        <4>1. h.appeal = a BY <1>6, <1>7, <3>1
        <4> QED BY <1>2, <3>1, <4>1
      <3>2. CASE i # a.id
        <4>1. h \in appeals[i] BY <1>7, <3>2
        <4>2. <<h.appeal.decision, i>> \in contested BY <4>1 DEF ReportInv
        <4> QED BY <1>2, <4>2
      <3> QED BY <3>1, <3>2
    <2>4. \A i \in AppealIds : \A d :
            <<d, i>> \in contested' => appeals'[i] # {} /\ Contested(d, i)'
      <3> SUFFICES ASSUME NEW i \in AppealIds, NEW d, <<d, i>> \in contested'
                   PROVE  appeals'[i] # {} /\ Contested(d, i)'
        OBVIOUS
      <3>1. <<d, i>> \in contested \/ (d = a.decision /\ i = a.id) BY <1>2
      <3>2. CASE <<d, i>> \in contested
        <4>1. appeals[i] # {} /\ Contested(d, i) BY <3>2 DEF ReportInv
        <4> QED BY <4>1, <1>2, <1>7 DEF Contested
      <3>3. CASE d = a.decision /\ i = a.id BY <1>2, <1>7, <3>3 DEF Contested
      <3> QED BY <3>1, <3>2, <3>3
    <2>3. \A i \in ReportIds :
            /\ \A g, h \in reports'[i] : g = h
            /\ \A h \in reports'[i] :
                 /\ h.report.id = i
                 /\ h.report.private => ~h.report.wide /\ ~h.report.open
      BY <1>2 DEF ReportInv
    <2> QED BY <1>2, <1>8, <2>1, <2>2, <2>3, <2>4 DEF ReportInv
  <1>10. AppealTakenAnew(a.id)
    <2>1. a.key \in appealKeys' \ appealKeys BY <1>2
    <2>2. x \in appeals'[a.id] BY <1>3, <1>7
    <2> QED BY <1>6, <2>1, <2>2 DEF AppealTakenAnew
  <1>11. ReportsStayClosed BY <1>2, <1>7, <1>10 DEF ReportsStayClosed
  <1> QED BY <1>9, <1>11

\* Resolving an appeal keeps it.
LEMMA AppealMoves ==
  ASSUME ReportInv, NEW i \in AppealIds, NEW e \in Resolution, ResolveAppeal(i, e)
  PROVE  ReportInv' /\ ReportsStayClosed
  <1>a. UNCHANGED <<reports, inbox, filed, reportKeys, appealKeys, contested>> BY DEF ResolveAppeal
  <1>1. /\ StatusOf(appeals[i]) = "submitted"
        /\ appeals' = [appeals EXCEPT ![i] =
                         {[g EXCEPT !.status = "resolved", !.outcome = e.outcome] : g \in @}]
        /\ e.outcome \in {"overturned", "closed"}
    BY DEF ResolveAppeal, ValidResolution
  <1>2. PICK h \in AppealRecord : appeals[i] = {h}
    <2>1. appeals[i] # {} BY <1>1 DEF StatusOf
    <2> QED BY <2>1 DEF ReportInv
  <1>3. PICK x : x = [h EXCEPT !.status = "resolved", !.outcome = e.outcome] OBVIOUS
  <1>4. x \in AppealRecord /\ x.appeal = h.appeal /\ appeals' = [appeals EXCEPT ![i] = {x}]
    BY <1>1, <1>2, <1>3 DEF AppealRecord
  <1>5. \A j \in AppealIds : appeals'[j] = IF j = i THEN {x} ELSE appeals[j]
    BY <1>4 DEF ReportInv
  <1>6. appeals' \in [AppealIds -> SUBSET AppealRecord] BY <1>4 DEF ReportInv
  <1>7. ReportInv'
    <2>1. \A j \in AppealIds :
            /\ \A g, k \in appeals'[j] : g = k
            /\ \A k \in appeals'[j] : k.appeal.id = j
      BY <1>a, <1>2, <1>4, <1>5 DEF ReportInv
    <2>2. ASSUME NEW j \in AppealIds, NEW k \in appeals'[j]
          PROVE  <<k.appeal.decision, j>> \in contested'
      <3>1. PICK g \in appeals[j] : k.appeal = g.appeal BY <1>2, <1>4, <1>5
      <3>2. <<g.appeal.decision, j>> \in contested BY DEF ReportInv
      <3> QED BY <1>a, <3>1, <3>2
    <2>3. ASSUME NEW j \in AppealIds, NEW d, <<d, j>> \in contested'
          PROVE  appeals'[j] # {} /\ Contested(d, j)'
      <3>1. appeals[j] # {} /\ Contested(d, j) BY <1>a, <2>3 DEF ReportInv
      <3>2. appeals'[j] # {} BY <1>5, <3>1
      <3>3. Contested(d, j)' BY <1>a, <3>1 DEF Contested
      <3> QED BY <3>2, <3>3
    <2> QED BY <1>a, <1>6, <2>1, <2>2, <2>3 DEF ReportInv
  <1>8. ReportsStayClosed BY <1>a, <1>1, <1>5 DEF ReportsStayClosed
  <1> QED BY <1>7, <1>8

(***************************************************************************)
(* The queue of the moderators.                                            *)
(***************************************************************************)

\* The two indexes of the queue hold what the items say.
QueueInv ==
  /\ items \in [QueueItems -> [status: ItemStatus \cup {"none"}, to: SUBSET Assignees]]
  /\ byStatus \in [ItemStatus -> SUBSET QueueItems]
  /\ byAssignee \in [Assignees -> SUBSET QueueItems]
  /\ \A s \in ItemStatus : \A q \in QueueItems : q \in byStatus[s] <=> items[q].status = s
  /\ \A a \in Assignees : \A q \in QueueItems :
       q \in byAssignee[a] <=> a \in items[q].to /\ items[q].status = "assigned"

ItemsStayClosed ==
  \A q \in QueueItems : items[q].status = "resolved" => items'[q].status = "resolved"

\* Every step of the queue keeps them.
LEMMA QueueKeeps ==
  ASSUME QueueInv, NEW q \in QueueItems,
         CreateItem(q) \/ (\E a \in Assignees : AssignItem(q, a)) \/ ResolveItem(q)
  PROVE  QueueInv' /\ ItemsStayClosed
  <1>a. \A s \in ItemStatus : \A p \in QueueItems : p \in byStatus[s] <=> items[p].status = s
    BY DEF QueueInv
  <1>b. \A a \in Assignees : \A p \in QueueItems :
          p \in byAssignee[a] <=> a \in items[p].to /\ items[p].status = "assigned"
    BY DEF QueueInv
  <1>c. items \in [QueueItems -> [status: ItemStatus \cup {"none"}, to: SUBSET Assignees]]
    BY DEF QueueInv
  <1>1. CASE CreateItem(q)
    <2>1. \A p \in QueueItems :
            items'[p] = IF p = q THEN [status |-> "open", to |-> {}] ELSE items[p]
      BY <1>1 DEF CreateItem, QueueInv
    <2>2. \A s \in ItemStatus : byStatus'[s] = IF s = "open" THEN byStatus[s] \cup {q} ELSE byStatus[s]
      BY <1>1 DEF CreateItem, QueueInv
    <2>3. items[q].status = "none" /\ byAssignee' = byAssignee BY <1>1 DEF CreateItem
    <2>4. /\ items' \in [QueueItems -> [status: ItemStatus \cup {"none"}, to: SUBSET Assignees]]
          /\ byStatus' \in [ItemStatus -> SUBSET QueueItems]
      BY <1>1 DEF CreateItem, QueueInv, ItemStatus
    <2>5. \A s \in ItemStatus : s # "none" BY DEF ItemStatus
    <2>6. QueueInv' BY SMTT(30), <2>1, <2>2, <2>3, <2>4, <2>5 DEF QueueInv
    <2> QED BY <2>1, <2>3, <2>6 DEF ItemsStayClosed
  <1>2. ASSUME NEW a \in Assignees, AssignItem(q, a) PROVE QueueInv' /\ ItemsStayClosed
    <2>1. \A p \in QueueItems :
            /\ items'[p].status = IF p = q THEN "assigned" ELSE items[p].status
            /\ items'[p].to = IF p = q THEN {a} ELSE items[p].to
      BY <1>2 DEF AssignItem, QueueInv
    <2>2. \A s \in ItemStatus :
            byStatus'[s] = IF s = "open" THEN byStatus[s] \ {q}
                           ELSE IF s = "assigned" THEN byStatus[s] \cup {q} ELSE byStatus[s]
      BY <1>2 DEF AssignItem, QueueInv, ItemStatus
    <2>3. \A b \in Assignees : byAssignee'[b] = IF b = a THEN byAssignee[b] \cup {q} ELSE byAssignee[b]
      BY <1>2 DEF AssignItem, QueueInv
    <2>4. items[q].status = "open" BY <1>2 DEF AssignItem
    <2>5. /\ items' \in [QueueItems -> [status: ItemStatus \cup {"none"}, to: SUBSET Assignees]]
          /\ byStatus' \in [ItemStatus -> SUBSET QueueItems]
          /\ byAssignee' \in [Assignees -> SUBSET QueueItems]
      BY <1>2 DEF AssignItem, QueueInv, ItemStatus
    <2>6. \A s \in ItemStatus : \A p \in QueueItems : p \in byStatus'[s] <=> items'[p].status = s
      <3> SUFFICES ASSUME NEW s \in ItemStatus, NEW p \in QueueItems PROVE p \in byStatus'[s] <=> items'[p].status = s
        OBVIOUS
      <3>1. CASE p = q BY <3>1, <2>1, <2>2, <2>4, <1>a DEF ItemStatus
      <3>2. CASE p # q BY <3>2, <2>1, <2>2, <2>4, <1>a DEF ItemStatus
      <3> QED BY <3>1, <3>2
    <2>7. \A b \in Assignees : \A p \in QueueItems : p \in byAssignee'[b] <=> b \in items'[p].to /\ items'[p].status = "assigned"
      <3> SUFFICES ASSUME NEW b \in Assignees, NEW p \in QueueItems PROVE p \in byAssignee'[b] <=> b \in items'[p].to /\ items'[p].status = "assigned"
        OBVIOUS
      <3>1. p \in byAssignee'[b] <=> p \in byAssignee[b] \/ (p = q /\ b = a) BY <2>3
      <3>2. b \in items'[p].to <=> (p = q /\ b = a) \/ (p # q /\ b \in items[p].to) BY <2>1
      <3>3. items'[p].status = "assigned" <=> p = q \/ items[p].status = "assigned" BY <2>1
      <3>4. p \in byAssignee[b] <=> b \in items[p].to /\ items[p].status = "assigned" BY <1>b
      <3>5. p = q => items[p].status # "assigned" BY <2>4
      <3> QED BY <3>1, <3>2, <3>3, <3>4, <3>5, Zenon
    <2>8. QueueInv' BY <2>5, <2>6, <2>7 DEF QueueInv
    <2> QED BY <2>1, <2>4, <2>8 DEF ItemsStayClosed
  <1>3. CASE ResolveItem(q)
    <2>1. \A p \in QueueItems :
            /\ items'[p].status = IF p = q THEN "resolved" ELSE items[p].status
            /\ items'[p].to = items[p].to
      BY <1>3 DEF ResolveItem, QueueInv
    <2>2. \A s \in ItemStatus :
            byStatus'[s] = IF s = "resolved" THEN byStatus[s] \cup {q} ELSE byStatus[s] \ {q}
      BY <1>3 DEF ResolveItem
    <2>3. \A a \in Assignees :
            byAssignee'[a] = IF a \in items[q].to THEN byAssignee[a] \ {q} ELSE byAssignee[a]
      BY <1>3 DEF ResolveItem, TakenFromInbox
    <2>4. items[q].status \in {"open", "assigned"} BY <1>3 DEF ResolveItem
    <2>5. items' \in [QueueItems -> [status: ItemStatus \cup {"none"}, to: SUBSET Assignees]]
      BY <1>3 DEF ResolveItem, QueueInv, ItemStatus
    <2>6. /\ byStatus' \in [ItemStatus -> SUBSET QueueItems]
          /\ byAssignee' \in [Assignees -> SUBSET QueueItems]
      BY <1>3 DEF ResolveItem, TakenFromInbox, QueueInv
    <2>7. \A s \in ItemStatus : \A p \in QueueItems : p \in byStatus'[s] <=> items'[p].status = s
      <3> SUFFICES ASSUME NEW s \in ItemStatus, NEW p \in QueueItems PROVE p \in byStatus'[s] <=> items'[p].status = s
        OBVIOUS
      <3>1. CASE p = q BY <3>1, <2>1, <2>2, <1>a DEF ItemStatus
      <3>2. CASE p # q BY <3>2, <2>1, <2>2, <1>a DEF ItemStatus
      <3> QED BY <3>1, <3>2
    <2>8. \A a \in Assignees : \A p \in QueueItems : p \in byAssignee'[a] <=> a \in items'[p].to /\ items'[p].status = "assigned"
      <3> SUFFICES ASSUME NEW a \in Assignees, NEW p \in QueueItems PROVE p \in byAssignee'[a] <=> a \in items'[p].to /\ items'[p].status = "assigned"
        OBVIOUS
      <3>1. p \in byAssignee'[a] <=> p \in byAssignee[a] /\ ~(p = q /\ a \in items[q].to) BY <2>3
      <3>2. a \in items'[p].to <=> a \in items[p].to BY <2>1
      <3>3. items'[p].status = "assigned" <=> p # q /\ items[p].status = "assigned" BY <2>1
      <3>4. p \in byAssignee[a] <=> a \in items[p].to /\ items[p].status = "assigned" BY <1>b
      <3> QED BY <3>1, <3>2, <3>3, <3>4, Zenon
    <2>9. QueueInv' BY <2>5, <2>6, <2>7, <2>8 DEF QueueInv
    <2> QED BY <2>1, <2>9 DEF ItemsStayClosed
  <1> QED BY <1>1, <1>2, <1>3

(***************************************************************************)
(* Policies and the decisions under them.                                  *)
(***************************************************************************)

\* A policy is in force with all its versions so far active; or it is not, and then it
\* never was or had a first version that keeps it from being made again.  Decisions are
\* in order and listed under the version that each refers to.
PolicyInv ==
  /\ versions \in [Policies -> [1..MaxVersion -> {"none", "active", "deprecated"}]]
  /\ latest \in [Policies -> 0..MaxVersion]
  /\ \A p \in Policies :
       /\ latest[p] # 0 => \A v \in 1..MaxVersion :
                             versions[p][v] = IF v <= latest[p] THEN "active" ELSE "none"
       /\ latest[p] = 0 => \/ versions[p][1] # "none"
                           \/ \A v \in 1..MaxVersion : versions[p][v] = "none"
  /\ decided \in [DecisionIds -> SUBSET Decisions]
  /\ \A i \in DecisionIds : \A d \in decided[i] : ValidDecision(d)
  /\ \A t : t \in underPolicy <=>
       \E i \in DecisionIds : \E d \in decided[i] : t = <<d.policy, d.version, i>>

PoliciesStayClosed ==
  /\ \A p \in Policies :
       (\E v \in 1..MaxVersion : versions[p][v] = "deprecated") => versions'[p] = versions[p]
  /\ \A i \in DecisionIds : decided[i] # {} => decided'[i] = decided[i]
  /\ \A p \in Policies, v \in 1..MaxVersion : versions[p][v] # "none" => versions'[p][v] # "none"

\* A policy that is made or updated is in force from then on, with one version more.
LEMMA NextVersionKeeps ==
  ASSUME PolicyInv, NEW p \in Policies, NEW v \in 1..MaxVersion,
         v = latest[p] + 1,
         latest[p] = 0 => versions[p][1] = "none",
         versions' = [versions EXCEPT ![p][v] = "active"],
         latest' = [latest EXCEPT ![p] = v],
         UNCHANGED <<decided, underPolicy>>
  PROVE  PolicyInv' /\ PoliciesStayClosed
  <1>a. /\ versions \in [Policies -> [1..MaxVersion -> {"none", "active", "deprecated"}]]
        /\ latest \in [Policies -> 0..MaxVersion]
        /\ MaxVersion \in Nat
    BY CaseAssumption DEF PolicyInv
  <1>1. \A w \in 1..MaxVersion : versions[p][w] = IF w <= latest[p] THEN "active" ELSE "none"
    BY <1>a DEF PolicyInv
  <1>2. \A q \in Policies : latest'[q] = IF q = p THEN v ELSE latest[q] BY <1>a
  <1>3. \A q \in Policies : q # p => versions'[q] = versions[q] BY <1>a
  <1>4. \A w \in 1..MaxVersion : versions'[p][w] = IF w = v THEN "active" ELSE versions[p][w]
    BY <1>a
  <1>5. /\ versions' \in [Policies -> [1..MaxVersion -> {"none", "active", "deprecated"}]]
        /\ latest' \in [Policies -> 0..MaxVersion]
    BY <1>a
  <1>6. \A w \in 1..MaxVersion : versions'[p][w] = IF w <= v THEN "active" ELSE "none"
    BY <1>1, <1>4, <1>a
  <1>7. \A q \in Policies :
          /\ latest'[q] # 0 => \A w \in 1..MaxVersion :
                                 versions'[q][w] = IF w <= latest'[q] THEN "active" ELSE "none"
          /\ latest'[q] = 0 => \/ versions'[q][1] # "none"
                               \/ \A w \in 1..MaxVersion : versions'[q][w] = "none"
    <2> SUFFICES ASSUME NEW q \in Policies
                 PROVE  /\ latest'[q] # 0 => \A w \in 1..MaxVersion :
                             versions'[q][w] = IF w <= latest'[q] THEN "active" ELSE "none"
                        /\ latest'[q] = 0 => \/ versions'[q][1] # "none"
                                             \/ \A w \in 1..MaxVersion : versions'[q][w] = "none"
      OBVIOUS
    <2>1. CASE q = p BY <2>1, <1>2, <1>6
    <2>2. CASE q # p BY <2>2, <1>2, <1>3 DEF PolicyInv
    <2> QED BY <2>1, <2>2
  <1>8. PolicyInv' BY <1>5, <1>7 DEF PolicyInv, ValidDecision
  <1>9. PoliciesStayClosed
    <2>1. \A w \in 1..MaxVersion : versions[p][w] # "deprecated" BY <1>1
    <2>2. \A q \in Policies, w \in 1..MaxVersion : versions[q][w] # "none" => versions'[q][w] # "none"
      <3> SUFFICES ASSUME NEW q \in Policies, NEW w \in 1..MaxVersion, versions[q][w] # "none"
                   PROVE  versions'[q][w] # "none"
        OBVIOUS
      <3>1. CASE q = p BY <3>1, <1>4
      <3>2. CASE q # p BY <3>2, <1>3
      <3> QED BY <3>1, <3>2
    <2> QED BY <1>3, <2>1, <2>2 DEF PoliciesStayClosed
  <1> QED BY <1>8, <1>9

\* A policy that is deprecated is not in force and keeps its first version.
LEMMA DeprecateKeeps ==
  ASSUME PolicyInv, NEW p \in Policies, DeprecatePolicy(p)
  PROVE  PolicyInv' /\ PoliciesStayClosed
  <1>a. /\ versions \in [Policies -> [1..MaxVersion -> {"none", "active", "deprecated"}]]
        /\ latest \in [Policies -> 0..MaxVersion]
        /\ MaxVersion \in Nat \ {0}
    BY CaseAssumption DEF PolicyInv
  <1>b. PICK n \in 1..MaxVersion : n = latest[p] BY <1>a DEF DeprecatePolicy
  <1>c. /\ versions' = [versions EXCEPT ![p][n] = "deprecated"]
        /\ latest' = [latest EXCEPT ![p] = 0]
        /\ UNCHANGED <<decided, underPolicy>>
    BY <1>b DEF DeprecatePolicy
  <1>1. \A w \in 1..MaxVersion : versions[p][w] = IF w <= n THEN "active" ELSE "none"
    BY <1>a, <1>b DEF PolicyInv
  <1>2. \A q \in Policies : latest'[q] = IF q = p THEN 0 ELSE latest[q] BY <1>a, <1>c
  <1>3. \A q \in Policies : q # p => versions'[q] = versions[q] BY <1>a, <1>c
  <1>4. \A w \in 1..MaxVersion : versions'[p][w] = IF w = n THEN "deprecated" ELSE versions[p][w]
    BY <1>a, <1>c
  <1>5. /\ versions' \in [Policies -> [1..MaxVersion -> {"none", "active", "deprecated"}]]
        /\ latest' \in [Policies -> 0..MaxVersion]
    BY <1>a, <1>c
  <1>6. versions'[p][1] # "none" BY <1>1, <1>4, <1>a
  <1>7. \A q \in Policies :
          /\ latest'[q] # 0 => \A w \in 1..MaxVersion :
                                 versions'[q][w] = IF w <= latest'[q] THEN "active" ELSE "none"
          /\ latest'[q] = 0 => \/ versions'[q][1] # "none"
                               \/ \A w \in 1..MaxVersion : versions'[q][w] = "none"
    BY <1>2, <1>3, <1>6 DEF PolicyInv
  <1>8. PolicyInv' BY <1>5, <1>7, <1>c DEF PolicyInv, ValidDecision
  <1>9. PoliciesStayClosed
    <2>1. \A w \in 1..MaxVersion : versions[p][w] # "deprecated" BY <1>1
    <2>2. \A q \in Policies, w \in 1..MaxVersion : versions[q][w] # "none" => versions'[q][w] # "none"
      <3> SUFFICES ASSUME NEW q \in Policies, NEW w \in 1..MaxVersion, versions[q][w] # "none"
                   PROVE  versions'[q][w] # "none"
        OBVIOUS
      <3>1. CASE q = p BY <3>1, <1>4
      <3>2. CASE q # p BY <3>2, <1>3
      <3> QED BY <3>1, <3>2
    <2> QED BY <1>3, <1>c, <2>1, <2>2 DEF PoliciesStayClosed
  <1> QED BY <1>8, <1>9

\* The first decision of an id is recorded and listed under its version, and stays.
LEMMA RecordKeeps ==
  ASSUME PolicyInv, NEW d \in Decisions, RecordDecision(d)
  PROVE  PolicyInv' /\ PoliciesStayClosed
  <1>1. d.id \in DecisionIds BY DEF DecisionIds
  <1>2. /\ ValidDecision(d) /\ decided[d.id] = {}
        /\ decided' = [decided EXCEPT ![d.id] = {d}]
        /\ underPolicy' = underPolicy \cup {<<d.policy, d.version, d.id>>}
        /\ UNCHANGED <<versions, latest>>
    BY DEF RecordDecision
  <1>3. decided' \in [DecisionIds -> SUBSET Decisions] BY <1>1, <1>2 DEF PolicyInv
  <1>4. \A i \in DecisionIds : decided'[i] = IF i = d.id THEN {d} ELSE decided[i]
    BY <1>2 DEF PolicyInv
  <1>5. \A i \in DecisionIds : \A e \in decided'[i] : ValidDecision(e)
    BY <1>2, <1>4 DEF PolicyInv
  <1>6. \A t : t \in underPolicy' <=>
          \E i \in DecisionIds : \E e \in decided'[i] : t = <<e.policy, e.version, i>>
    <2> SUFFICES ASSUME NEW t
                 PROVE  t \in underPolicy' <=>
                          \E i \in DecisionIds : \E e \in decided'[i] : t = <<e.policy, e.version, i>>
      OBVIOUS
    <2>1. t \in underPolicy <=>
            \E i \in DecisionIds : \E e \in decided[i] : t = <<e.policy, e.version, i>>
      BY DEF PolicyInv
    <2>2. t \in underPolicy' <=> t \in underPolicy \/ t = <<d.policy, d.version, d.id>> BY <1>2
    <2>3. ASSUME NEW i \in DecisionIds, NEW e \in decided[i], t = <<e.policy, e.version, i>>
          PROVE  \E j \in DecisionIds : \E f \in decided'[j] : t = <<f.policy, f.version, j>>
      BY <2>3, <1>2, <1>4
    <2>4. ASSUME t = <<d.policy, d.version, d.id>>
          PROVE  \E j \in DecisionIds : \E f \in decided'[j] : t = <<f.policy, f.version, j>>
      BY <2>4, <1>1, <1>4
    <2>5. ASSUME NEW i \in DecisionIds, NEW e \in decided'[i], t = <<e.policy, e.version, i>>
          PROVE  t \in underPolicy'
      <3>1. CASE i = d.id BY <3>1, <2>5, <2>2, <1>4
      <3>2. CASE i # d.id BY <3>2, <2>5, <2>1, <2>2, <1>4
      <3> QED BY <3>1, <3>2
    <2> QED BY <2>1, <2>2, <2>3, <2>4, <2>5
  <1>7. /\ versions' \in [Policies -> [1..MaxVersion -> {"none", "active", "deprecated"}]]
        /\ latest' \in [Policies -> 0..MaxVersion]
        /\ \A p \in Policies :
             /\ latest'[p] # 0 => \A v \in 1..MaxVersion :
                                   versions'[p][v] = IF v <= latest'[p] THEN "active" ELSE "none"
             /\ latest'[p] = 0 => \/ versions'[p][1] # "none"
                                  \/ \A v \in 1..MaxVersion : versions'[p][v] = "none"
    BY <1>2 DEF PolicyInv
  <1>8. PolicyInv' BY <1>3, <1>5, <1>6, <1>7 DEF PolicyInv, ValidDecision
  <1>9. PoliciesStayClosed BY <1>2, <1>4 DEF PoliciesStayClosed
  <1> QED BY <1>8, <1>9

(***************************************************************************)
(* Curation.                                                               *)
(***************************************************************************)

CurationInv ==
  /\ rules \in [Rules -> {"none", "active", "disabled"}]
  /\ given \in [Rules -> -MaxDelta..MaxDelta]
  /\ net \in Int

RankingIsSettled ==
  \A r \in Rules :
    /\ rules[r] = "disabled" /\ given'[r] # given[r] => Ranking' = Ranking
    /\ rules[r] = "disabled" /\ (\E s \in ExcludeFrom : <<r, s>> \in exclusions' \ exclusions) =>
         Excluded' = Excluded

\* What a rule gives goes into the ranking only while it is active.
LEMMA ScoreKeeps ==
  ASSUME CurationInv, NEW r \in Rules, NEW delta \in {-1, 1}, ScoreItem(r, delta)
  PROVE  CurationInv' /\ RankingIsSettled
  <1>1. /\ given[r] + delta \in -MaxDelta..MaxDelta
        /\ given' = [given EXCEPT ![r] = given[r] + delta]
        /\ net' = net + delta
        /\ UNCHANGED <<rules, exclusions>>
    BY DEF ScoreItem
  <1>2. CurationInv' BY <1>1 DEF CurationInv
  <1>3. ASSUME NEW q \in Rules, rules[q] = "disabled", given'[q] # given[q]
        PROVE  Ranking' = Ranking
    <2>1. q = r BY <1>1, <1>3 DEF CurationInv
    <2>2. [p \in {t \in Rules : rules'[t] = "active"} |-> given'[p]]
            = [p \in {t \in Rules : rules[t] = "active"} |-> given[p]]
      BY <1>1, <1>3, <2>1 DEF CurationInv
    <2> QED BY <2>2 DEF Ranking
  <1>4. \A q, s : <<q, s>> \notin exclusions' \ exclusions BY <1>1
  <1> QED BY <1>2, <1>3, <1>4 DEF RankingIsSettled

\* What it leaves out is left out only then.
LEMMA ExcludeKeeps ==
  ASSUME CurationInv, NEW r \in Rules, NEW from \in ExcludeFrom, ExcludeItem(r, from)
  PROVE  CurationInv' /\ RankingIsSettled
  <1>1. /\ exclusions' = exclusions \cup {<<r, from>>}
        /\ UNCHANGED <<rules, given, net>>
    BY DEF ExcludeItem
  <1>2. CurationInv' BY <1>1 DEF CurationInv
  <1>3. ASSUME NEW q \in Rules, rules[q] = "disabled",
               NEW s \in ExcludeFrom, <<q, s>> \in exclusions' \ exclusions
        PROVE  Excluded' = Excluded
    <2>1. q = r BY <1>1, <1>3
    <2>2. rules[r] # "active" BY <2>1, <1>3
    <2>3. {y \in exclusions' : rules'[y[1]] = "active"} = {y \in exclusions : rules[y[1]] = "active"}
      BY <1>1, <2>2
    <2> QED BY <2>3 DEF Excluded
  <1>4. given' = given BY <1>1
  <1> QED BY <1>2, <1>3, <1>4 DEF RankingIsSettled

\* Rules that are made and disabled are so for themselves.
LEMMA RuleKeeps ==
  ASSUME CurationInv, NEW r \in Rules, CreateRule(r) \/ DisableRule(r)
  PROVE  CurationInv' /\ RankingIsSettled
  <1>1. /\ UNCHANGED <<given, net, exclusions>>
        /\ rules' \in [Rules -> {"none", "active", "disabled"}]
    BY DEF CreateRule, DisableRule, CurationInv
  <1>2. CurationInv' BY <1>1 DEF CurationInv
  <1>3. \A q, s : <<q, s>> \notin exclusions' \ exclusions BY <1>1
  <1> QED BY <1>1, <1>2, <1>3 DEF RankingIsSettled

(***************************************************************************)
(* The cases together.                                                     *)
(***************************************************************************)

CaseInv == ReportInv /\ QueueInv /\ PolicyInv /\ CurationInv

\* What one step may not do.
CasesStayClosed ==
  ReportsStayClosed /\ ItemsStayClosed /\ PoliciesStayClosed /\ RankingIsSettled

\* Before any event there is nothing, and nothing is listed.
LEMMA CasesStart == ASSUME CaseInit PROVE CaseInv
  <1>1. ReportInv BY DEF CaseInit, ReportInv
  <1>2. QueueInv BY DEF CaseInit, QueueInv, ItemStatus
  <1>3. PolicyInv BY CaseAssumption DEF CaseInit, PolicyInv
  <1>4. CurationInv BY CaseAssumption DEF CaseInit, CurationInv
  <1> QED BY <1>1, <1>2, <1>3, <1>4 DEF CaseInv

\* What another projection does leaves the records of this one as they are.
LEMMA ReportsIdle ==
  ASSUME ReportInv, UNCHANGED reportVars PROVE ReportInv' /\ ReportsStayClosed
  BY DEF reportVars, ReportInv, Contested, ReportsStayClosed

\* The same of the queue.
LEMMA QueueIdle ==
  ASSUME QueueInv, UNCHANGED queueVars PROVE QueueInv' /\ ItemsStayClosed
  BY DEF queueVars, QueueInv, ItemsStayClosed

\* The same of the policies.
LEMMA PoliciesIdle ==
  ASSUME PolicyInv, UNCHANGED policyVars PROVE PolicyInv' /\ PoliciesStayClosed
  BY DEF policyVars, PolicyInv, PoliciesStayClosed, ValidDecision

\* The same of the ranking.
LEMMA CurationIdles ==
  ASSUME CurationInv, UNCHANGED curationVars PROVE CurationInv' /\ RankingIsSettled
  <1>1. UNCHANGED <<rules, given, net, exclusions>> BY DEF curationVars
  <1>2. CurationInv' BY <1>1 DEF CurationInv
  <1>3. \A q, s : <<q, s>> \notin exclusions' \ exclusions BY <1>1
  <1> QED BY <1>1, <1>2, <1>3 DEF RankingIsSettled

\* Every step keeps the records and the indexes in agreement, and what is closed closed.
LEMMA CaseStep ==
  ASSUME CaseInv, [CaseNext]_caseVars
  PROVE  CaseInv' /\ CasesStayClosed
  <1> USE DEF CaseInv, CasesStayClosed
  <1>1. CASE ReportNext
    <2>1. ReportInv' /\ ReportsStayClosed
      <3>1. ASSUME NEW r \in Reports, CreateReport(r) PROVE ReportInv' /\ ReportsStayClosed
        BY <3>1, CreateReportKeeps
      <3>2. ASSUME NEW i \in ReportIds,
                   AcknowledgeReport(i) \/ \E e \in Resolution : ResolveReport(i, e)
            PROVE  ReportInv' /\ ReportsStayClosed
        BY <3>2, ReportMoves
      <3>3. ASSUME NEW a \in Appeals, CreateAppeal(a) PROVE ReportInv' /\ ReportsStayClosed
        BY <3>3, CreateAppealKeeps
      <3>4. ASSUME NEW i \in AppealIds, NEW e \in Resolution, ResolveAppeal(i, e)
            PROVE  ReportInv' /\ ReportsStayClosed
        BY <3>4, AppealMoves
      <3> QED BY <1>1, <3>1, <3>2, <3>3, <3>4 DEF ReportNext
    <2>2. UNCHANGED <<queueVars, policyVars, curationVars>> BY <1>1 DEF ReportNext
    <2> QED BY <2>1, <2>2, QueueIdle, PoliciesIdle, CurationIdles
  <1>2. CASE QueueNext
    <2>1. QueueInv' /\ ItemsStayClosed BY <1>2, QueueKeeps DEF QueueNext
    <2>2. UNCHANGED <<reportVars, policyVars, curationVars>> BY <1>2 DEF QueueNext
    <2> QED BY <2>1, <2>2, ReportsIdle, PoliciesIdle, CurationIdles
  <1>3. CASE PolicyNext
    <2>1. PolicyInv' /\ PoliciesStayClosed
      <3>1. ASSUME NEW p \in Policies, CreatePolicy(p) PROVE PolicyInv' /\ PoliciesStayClosed
        <4>1. 1 \in 1..MaxVersion BY CaseAssumption
        <4>2. /\ 1 = latest[p] + 1
              /\ latest[p] = 0 => versions[p][1] = "none"
              /\ versions' = [versions EXCEPT ![p][1] = "active"]
              /\ latest' = [latest EXCEPT ![p] = 1]
              /\ UNCHANGED <<decided, underPolicy>>
          BY <3>1 DEF CreatePolicy
        <4> QED BY <4>1, <4>2, NextVersionKeeps
      <3>2. ASSUME NEW p \in Policies, NEW v \in 1..MaxVersion, NEW s \in 0..MaxVersion,
                   UpdatePolicy(p, v, s)
            PROVE  PolicyInv' /\ PoliciesStayClosed
        <4>1. /\ v = latest[p] + 1
              /\ latest[p] = 0 => versions[p][1] = "none"
              /\ versions' = [versions EXCEPT ![p][v] = "active"]
              /\ latest' = [latest EXCEPT ![p] = v]
              /\ UNCHANGED <<decided, underPolicy>>
          BY <3>2 DEF UpdatePolicy
        <4> QED BY <4>1, NextVersionKeeps
      <3>3. ASSUME NEW p \in Policies, DeprecatePolicy(p) PROVE PolicyInv' /\ PoliciesStayClosed
        BY <3>3, DeprecateKeeps
      <3>4. ASSUME NEW d \in Decisions, RecordDecision(d) PROVE PolicyInv' /\ PoliciesStayClosed
        BY <3>4, RecordKeeps
      <3> QED BY <1>3, <3>1, <3>2, <3>3, <3>4 DEF PolicyNext
    <2>2. UNCHANGED <<reportVars, queueVars, curationVars>> BY <1>3 DEF PolicyNext
    <2> QED BY <2>1, <2>2, ReportsIdle, QueueIdle, CurationIdles
  <1>4. CASE CurationNext
    <2>1. CurationInv' /\ RankingIsSettled
      BY <1>4, ScoreKeeps, ExcludeKeeps, RuleKeeps DEF CurationNext
    <2>2. UNCHANGED <<reportVars, queueVars, policyVars>> BY <1>4 DEF CurationNext
    <2> QED BY <2>1, <2>2, ReportsIdle, QueueIdle, PoliciesIdle
  <1>5. CASE UNCHANGED caseVars
    <2>1. UNCHANGED <<reportVars, queueVars, policyVars, curationVars>> BY <1>5 DEF caseVars
    <2> QED BY <2>1, ReportsIdle, QueueIdle, PoliciesIdle, CurationIdles
  <1> QED BY <1>1, <1>2, <1>3, <1>4, <1>5 DEF CaseNext

\* The invariant holds throughout.
LEMMA CasesHold == CaseSpec => []CaseInv
  <1>1. CaseInit => CaseInv BY CasesStart
  <1>2. CaseInv /\ [CaseNext]_caseVars => CaseInv' BY CaseStep
  <1> QED BY <1>1, <1>2, PTL DEF CaseSpec

\* Type correctness of the projections (trust-safety's reports-appeals,
\* moderation-runtime and curation-runtime).
THEOREM CaseTypeCorrect == CaseSpec => []CaseTypeOK
  <1>1. CaseInv => CaseTypeOK
    <2> SUFFICES ASSUME CaseInv PROVE CaseTypeOK OBVIOUS
    <2>1. /\ \A i \in ReportIds : \A h \in reports[i] :
               h.report \in Reports /\ h.report.id = i
                 /\ h.status \in {"submitted", "acknowledged", "resolved"}
          /\ inbox \subseteq ReportIds /\ filed \subseteq ReportIds
          /\ \A i \in AppealIds : \A h \in appeals[i] :
               h.appeal \in Appeals /\ h.appeal.id = i /\ h.status \in {"submitted", "resolved"}
      BY DEF CaseInv, ReportInv, ReportRecord, AppealRecord
    <2>2. /\ items \in [QueueItems -> [status: ItemStatus \cup {"none"}, to: SUBSET Assignees]]
          /\ byStatus \in [ItemStatus -> SUBSET QueueItems]
          /\ byAssignee \in [Assignees -> SUBSET QueueItems]
      BY DEF CaseInv, QueueInv
    <2>3. /\ versions \in [Policies -> [1..MaxVersion -> {"none", "active", "deprecated"}]]
          /\ latest \in [Policies -> 0..MaxVersion]
          /\ \A i \in DecisionIds : decided[i] \subseteq Decisions
      BY DEF CaseInv, PolicyInv
    <2>4. /\ rules \in [Rules -> {"none", "active", "disabled"}]
          /\ given \in [Rules -> -MaxDelta..MaxDelta]
          /\ net \in Int
      BY DEF CaseInv, CurationInv
    <2> QED BY <2>1, <2>2, <2>3, <2>4 DEF CaseTypeOK
  <1> QED BY <1>1, CasesHold, PTL

\* The records say what the indexes list.
LEMMA InvIndexesAgree == ASSUME CaseInv PROVE IndexesAgree
  <1>1. /\ inbox = {i \in ReportIds : reports[i] # {}} /\ filed = inbox
        /\ \A i \in AppealIds : \A h \in appeals[i] : <<h.appeal.decision, i>> \in contested
        /\ \A i \in AppealIds, d \in DecisionIds :
             <<d, i>> \in contested =>
               appeals[i] # {} /\ \E a \in Appeals : a.id = i /\ a.decision = d /\ a.key \in appealKeys
    BY DEF CaseInv, ReportInv, Contested
  <1>2. \A s \in ItemStatus : byStatus[s] = {q \in QueueItems : items[q].status = s}
    <2> SUFFICES ASSUME NEW s \in ItemStatus
                 PROVE  byStatus[s] = {q \in QueueItems : items[q].status = s}
      OBVIOUS
    <2>1. byStatus[s] \subseteq QueueItems BY DEF CaseInv, QueueInv
    <2>2. \A q \in QueueItems : q \in byStatus[s] <=> items[q].status = s BY DEF CaseInv, QueueInv
    <2> QED BY <2>1, <2>2, Zenon
  <1>3. \A a \in Assignees :
          byAssignee[a] = {q \in QueueItems : a \in items[q].to /\ items[q].status = "assigned"}
    <2> SUFFICES ASSUME NEW a \in Assignees
                 PROVE  byAssignee[a] = {q \in QueueItems : a \in items[q].to /\ items[q].status = "assigned"}
      OBVIOUS
    <2>1. byAssignee[a] \subseteq QueueItems BY DEF CaseInv, QueueInv
    <2>2. \A q \in QueueItems :
            q \in byAssignee[a] <=> a \in items[q].to /\ items[q].status = "assigned"
      BY DEF CaseInv, QueueInv
    <2> QED BY <2>1, <2>2, Zenon
  <1>4. \A p \in Policies :
          latest[p] # 0 => \A v \in 1..MaxVersion : versions[p][v] = "active" <=> v <= latest[p]
    BY DEF CaseInv, PolicyInv
  <1>5. underPolicy = UNION {{<<d.policy, d.version, i>> : d \in decided[i]} : i \in DecisionIds}
    <2>1. \A t : t \in underPolicy <=>
            \E i \in DecisionIds : \E d \in decided[i] : t = <<d.policy, d.version, i>>
      BY DEF CaseInv, PolicyInv
    <2> QED BY <2>1
  <1> QED BY <1>1, <1>2, <1>3, <1>4, <1>5 DEF IndexesAgree

\* What is private is not in the open.
LEMMA InvPrivateStaysPrivate == ASSUME CaseInv PROVE PrivateStaysPrivate
  <1>1. \A i \in ReportIds : \A h \in reports[i] :
          h.report.private =>
            /\ ~h.report.wide /\ ~h.report.open
            /\ \A s \in PublicSurfaces, public \in BOOLEAN :
                 ~IsCurationSignal(h.report, s) /\ ~IsIngested(s, public, h.report.private)
    BY DEF CaseInv, ReportInv, IsCurationSignal, IsIngested
  <1>2. \A i \in DecisionIds : \A d \in decided[i] :
          d.private => d.scope \in {"community-local", "bridge-local", "app-surface-local"}
    <2> SUFFICES ASSUME NEW i \in DecisionIds, NEW d \in decided[i], d.private
                 PROVE  d.scope \in {"community-local", "bridge-local", "app-surface-local"}
      OBVIOUS
    <2>1. d \in Decisions /\ ValidDecision(d) BY DEF CaseInv, PolicyInv
    <2>2. d.scope \in EnforcementScope BY <2>1, CaseAssumption DEF CaseAssumption, Decision
    <2> QED BY <2>1, <2>2 DEF ValidDecision, EnforcementScope
  <1> QED BY <1>1, <1>2 DEF PrivateStaysPrivate

\* The cases that reports make are kept (trust-safety's reports-appeals,
\* moderation-runtime and curation-runtime): in whatever order and however often their
\* events come, the indexes list what the records say, what is private by nature stays
\* off the open, and what was closed, deprecated, decided or disabled stays so, but that
\* a report or an appeal under a key not seen before takes the place of one of its id.  It
\* holds for any reports and appeals, whatever ids and keys they have, and for any items,
\* policies, decisions and rules.
THEOREM CasesKept == CaseSpec => CasesAreKept
  <1>1. CaseInv => IndexesAgree /\ PrivateStaysPrivate
    BY InvIndexesAgree, InvPrivateStaysPrivate
  <1>2. CaseInv /\ [CaseNext]_caseVars =>
          [/\ \A i \in ReportIds :
                StatusOf(reports[i]) = "resolved" => reports'[i] = reports[i] \/ ReportTakenAnew(i)
           /\ \A i \in AppealIds :
                StatusOf(appeals[i]) = "resolved" => appeals'[i] = appeals[i] \/ AppealTakenAnew(i)
           /\ \A q \in QueueItems : items[q].status = "resolved" => items'[q].status = "resolved"
           /\ \A p \in Policies :
                (\E v \in 1..MaxVersion : versions[p][v] = "deprecated") => versions'[p] = versions[p]
           /\ \A i \in DecisionIds : decided[i] # {} => decided'[i] = decided[i]
           /\ \A p \in Policies, v \in 1..MaxVersion : versions[p][v] # "none" => versions'[p][v] # "none"
           /\ \A r \in Rules :
                /\ rules[r] = "disabled" /\ given'[r] # given[r] => Ranking' = Ranking
                /\ rules[r] = "disabled" /\ (\E s \in ExcludeFrom : <<r, s>> \in exclusions' \ exclusions) =>
                     Excluded' = Excluded]_caseVars
    BY CaseStep
       DEF CasesStayClosed, ReportsStayClosed, ItemsStayClosed, PoliciesStayClosed, RankingIsSettled
  <1> QED BY <1>1, <1>2, CasesHold, PTL DEF CaseSpec, CasesAreKept, ClosedIsClosed

(***************************************************************************)
(* The chain of a delegation.                                              *)
(***************************************************************************)

LinksOf(scheme) == IF scheme = "ucan" THEN UcanLink ELSE ZcapLink

\* The links that passed, each walked from one before it, and what waits to be walked.
ChainShape ==
  /\ pcScheme \in {"zcap-ld", "ucan"}
  /\ pcVerdict \in {"open", "verified", "invalid"}
  /\ pcTrail \in Seq([link: LinksOf(pcScheme), below: Nat])
  /\ \A i \in 1..Len(pcTrail) : pcTrail[i].below \in 0..(i - 1)
  /\ pcAgenda \in Seq(ChainContext)
  /\ \A k \in 1..Len(pcAgenda) : pcAgenda[k].below \in 0..Len(pcTrail)

\* The links below each: a function of the trail.
DescentOf(trail, from) ==
  from = [j \in 0..Len(trail) |->
            IF j = 0 \/ trail[j].below = 0 THEN {}
            ELSE {trail[j].below} \cup from[trail[j].below]]

\* What one link of the trail says against the one below it.
LinkHolds(trail, scheme, i) ==
  LET link == trail[i].link
      below == trail[i].below
  IN  /\ Unexpired(link)
      /\ below # 0 => trail[below].link.signer = link.holder
      /\ scheme = "ucan" =>
           /\ below = 0 => link.signer = RecordIssuer
           /\ below # 0 => trail[below].link.deeds \subseteq link.deeds
      /\ scheme = "zcap-ld" =>
           /\ below = 0 => link.holder = RecordSubject
           /\ link.above = 0 => link.holder = RecordIssuer /\ link.signer = link.holder

\* What it says against any link that is below it, however far.
PassesOn(scheme, above, link) ==
  /\ scheme = "ucan" => link.deeds \subseteq above.deeds
  /\ scheme = "zcap-ld" =>
       /\ IsPrefix(above.target, link.target)
       /\ above.deeds = {} \/ AnyDeed \in above.deeds \/ link.deeds \subseteq above.deeds
       /\ NotOutlived(above.expires, link.expires)

\* What is carried along claims all that a link below has claimed.
Claims(ctx, link) ==
  /\ AnyDeed \in ctx.deeds \/ link.deeds \subseteq ctx.deeds
  /\ link.expires # NoExpiry => ctx.expires # NoExpiry /\ link.expires <= ctx.expires

\* The links below the i-th are fewer than are walked, and it covers them.
TrailGrants(trail, scheme, from, i) ==
  /\ from[i] \subseteq 1..(i - 1)
  /\ IsFiniteSet(from[i])
  /\ Cardinality(from[i]) <= MaxChainDepth
  /\ \A j \in from[i] : PassesOn(scheme, trail[i].link, trail[j].link)

\* What waits has as many levels left as the walk has not used, and carries the claims
\* of all the links below.
AgendaClaims(trail, scheme, from, ctx) ==
  /\ ctx.below = 0 => ctx.left <= MaxChainDepth
  /\ ctx.below # 0 =>
       /\ ctx.left + Cardinality(from[ctx.below]) + 1 <= MaxChainDepth
       /\ scheme = "zcap-ld" =>
            \A j \in {ctx.below} \cup from[ctx.below] : Claims(ctx, trail[j].link)

ChainInv ==
  /\ ChainShape
  /\ \A i \in 1..Len(pcTrail) : LinkHolds(pcTrail, pcScheme, i)
  /\ \E from : DescentOf(pcTrail, from)
  /\ \A from : DescentOf(pcTrail, from) =>
       /\ \A i \in 1..Len(pcTrail) : TrailGrants(pcTrail, pcScheme, from, i)
       /\ \A k \in 1..Len(pcAgenda) : AgendaClaims(pcTrail, pcScheme, from, pcAgenda[k])

\* A place is the beginning of itself, and the beginning of a beginning is one.
LEMMA PrefixOrders ==
  ASSUME NEW s \in Seq(STRING), NEW t \in Seq(STRING), NEW u \in Seq(STRING)
  PROVE  /\ IsPrefix(s, s)
         /\ IsPrefix(s, t) /\ IsPrefix(t, u) => IsPrefix(s, u)
  <1>1. \A v, w \in Seq(STRING) :
          IsPrefix(v, w) <=> Len(v) <= Len(w) /\ \A i \in 1..Len(v) : v[i] = w[i]
    <2> SUFFICES ASSUME NEW v \in Seq(STRING), NEW w \in Seq(STRING), Len(v) <= Len(w)
                 PROVE  SubSeq(v, 1, Len(v)) = SubSeq(w, 1, Len(v)) <=> \A i \in 1..Len(v) : v[i] = w[i]
      BY DEF IsPrefix
    <2>1. PICK a, b : a = SubSeq(v, 1, Len(v)) /\ b = SubSeq(w, 1, Len(v)) OBVIOUS
    <2>2. /\ a \in Seq(STRING) /\ Len(a) = Len(v) /\ \A i \in 1..Len(v) : a[i] = v[i]
          /\ b \in Seq(STRING) /\ Len(b) = Len(v) /\ \A i \in 1..Len(v) : b[i] = w[i]
      BY <2>1
    <2>3. a = b <=> \A i \in 1..Len(v) : v[i] = w[i]
      <3>1. a = b => \A i \in 1..Len(v) : v[i] = w[i] BY <2>2
      <3>2. (\A i \in 1..Len(v) : v[i] = w[i]) => a = b
        <4> SUFFICES ASSUME \A i \in 1..Len(v) : v[i] = w[i] PROVE a = b OBVIOUS
        <4>1. \A i \in 1..Len(v) : a[i] = b[i] BY <2>2
        <4> QED BY <2>2, <4>1, SeqEqual
      <3> QED BY <3>1, <3>2
    <2> QED BY <2>1, <2>3
  <1>2. IsPrefix(s, s) BY <1>1
  <1>3. ASSUME IsPrefix(s, t), IsPrefix(t, u) PROVE IsPrefix(s, u)
    <2>1. Len(s) <= Len(t) /\ \A i \in 1..Len(s) : s[i] = t[i] BY <1>1, <1>3
    <2>2. Len(t) <= Len(u) /\ \A i \in 1..Len(t) : t[i] = u[i] BY <1>1, <1>3
    <2> QED BY <1>1, <2>1, <2>2
  <1> QED BY <1>2, <1>3

\* Before the walk there are no links, and the whole depth is left.
LEMMA ChainStarts == ASSUME ChainInit PROVE ChainInv
  <1>1. ChainShape
    <2>1. PICK c : c = [below |-> 0, left |-> MaxChainDepth, deeds |-> {}, expires |-> NoExpiry] OBVIOUS
    <2>2. c \in ChainContext /\ c.below = 0 BY <2>1, ChainAssumption DEF ChainContext, NoExpiry
    <2>3. pcTrail = <<>> /\ pcAgenda = <<c>> /\ pcVerdict = "open" /\ pcScheme \in {"zcap-ld", "ucan"}
      BY <2>1 DEF ChainInit
    <2>4. pcAgenda \in Seq(ChainContext) /\ Len(pcAgenda) = 1 /\ pcAgenda[1] = c BY <2>2, <2>3
    <2>5. pcTrail \in Seq([link: LinksOf(pcScheme), below: Nat]) /\ Len(pcTrail) = 0 BY <2>3
    <2> QED BY <2>2, <2>3, <2>4, <2>5 DEF ChainShape
  <1>2. pcTrail = <<>> /\ Len(pcTrail) = 0 BY DEF ChainInit
  <1>3. \E from : DescentOf(pcTrail, from)
    <2>1. PICK from : from = [j \in 0..0 |-> {}] OBVIOUS
    <2>2. from = [j \in 0..Len(pcTrail) |->
                    IF j = 0 \/ pcTrail[j].below = 0 THEN {}
                    ELSE {pcTrail[j].below} \cup from[pcTrail[j].below]]
      BY <1>2, <2>1
    <2> QED BY <2>2 DEF DescentOf
  <1>4. Len(pcAgenda) = 1 /\ pcAgenda[1].below = 0 /\ pcAgenda[1].left = MaxChainDepth
    BY DEF ChainInit
  <1>5. \A k \in 1..Len(pcAgenda) : \A from : AgendaClaims(pcTrail, pcScheme, from, pcAgenda[k])
    BY <1>4, ChainAssumption DEF AgendaClaims, ChainAssumption
  <1> QED BY <1>1, <1>2, <1>3, <1>5 DEF ChainInv

\* What a function of the trail says of each of its links.
LEMMA DescentAt ==
  ASSUME NEW trail, NEW from, DescentOf(trail, from), NEW j \in 0..Len(trail)
  PROVE  from[j] = IF j = 0 \/ trail[j].below = 0 THEN {}
                   ELSE {trail[j].below} \cup from[trail[j].below]
  BY DEF DescentOf

\* When a link is added to the trail, the function of the longer trail is that of the
\* trail as far as it goes, and there is one.
LEMMA DescentGrows ==
  ASSUME NEW S, NEW trail \in Seq([link: S, below: Nat]), NEW e \in [link: S, below: Nat],
         \A i \in 1..Len(trail) : trail[i].below \in 0..(i - 1),
         e.below \in 0..Len(trail)
  PROVE  LET longer == Append(trail, e)
         IN  /\ \A g : DescentOf(longer, g) =>
                  \E f : /\ DescentOf(trail, f)
                         /\ \A j \in 0..Len(trail) : g[j] = f[j]
                         /\ g[Len(trail) + 1] = IF e.below = 0 THEN {} ELSE {e.below} \cup f[e.below]
             /\ (\E f : DescentOf(trail, f)) => \E g : DescentOf(longer, g)
  <1>1. PICK longer, n : longer = Append(trail, e) /\ n = Len(trail) OBVIOUS
  <1>2. /\ n \in Nat /\ Len(longer) = n + 1
        /\ \A i \in 1..n : longer[i] = trail[i]
        /\ longer[n + 1] = e
    BY <1>1
  <1>3. \A i \in 1..n : trail[i].below \in 0..(i - 1) BY <1>1
  <1>4. ASSUME NEW g, DescentOf(longer, g)
        PROVE  \E f : /\ DescentOf(trail, f)
                      /\ \A j \in 0..n : g[j] = f[j]
                      /\ g[n + 1] = IF e.below = 0 THEN {} ELSE {e.below} \cup f[e.below]
    <2>a. \A j \in 0..Len(longer) :
            g[j] = IF j = 0 \/ longer[j].below = 0 THEN {}
                   ELSE {longer[j].below} \cup g[longer[j].below]
      BY ZenonT(40), <1>4, DescentAt
    <2>1. PICK f : f = [j \in 0..n |-> g[j]] OBVIOUS
    <2>2. \A j \in 0..n : g[j] = f[j] BY <2>1
    <2>3. \A j \in 0..n :
            g[j] = IF j = 0 \/ trail[j].below = 0 THEN {} ELSE {trail[j].below} \cup f[trail[j].below]
      <3> SUFFICES ASSUME NEW j \in 0..n
                   PROVE  g[j] = IF j = 0 \/ trail[j].below = 0 THEN {}
                                 ELSE {trail[j].below} \cup f[trail[j].below]
        OBVIOUS
      <3>0. j \in 0..Len(longer) BY <1>2
      <3>1. g[j] = IF j = 0 \/ longer[j].below = 0 THEN {}
                   ELSE {longer[j].below} \cup g[longer[j].below]
        BY <3>0, <2>a, Zenon
      <3>2. CASE j = 0 BY <3>1, <3>2
      <3>3. CASE j # 0
        <4>1. longer[j] = trail[j] /\ trail[j].below \in 0..n BY <1>2, <1>3, <3>3
        <4> QED BY <3>1, <3>3, <4>1, <2>2
      <3> QED BY <3>2, <3>3
    <2>4. f = [j \in 0..n |-> IF j = 0 \/ trail[j].below = 0 THEN {}
                             ELSE {trail[j].below} \cup f[trail[j].below]]
      BY <2>1, <2>3
    <2>5. DescentOf(trail, f) BY <1>1, <2>4 DEF DescentOf
    <2>6. g[n + 1] = IF e.below = 0 THEN {} ELSE {e.below} \cup f[e.below]
      <3>0. n + 1 \in 0..Len(longer) /\ n + 1 # 0 BY <1>2
      <3>1. g[n + 1] = IF n + 1 = 0 \/ longer[n + 1].below = 0 THEN {}
                       ELSE {longer[n + 1].below} \cup g[longer[n + 1].below]
        BY <3>0, <2>a, Zenon
      <3>2. g[n + 1] = IF e.below = 0 THEN {} ELSE {e.below} \cup g[e.below]
        BY <3>0, <3>1, <1>2
      <3>3. e.below \in 0..n BY <1>1
      <3>4. g[e.below] = f[e.below] BY <3>3, <2>2
      <3> QED BY <3>2, <3>4, Zenon
    <2> QED BY <2>2, <2>5, <2>6
  <1>5. ASSUME NEW f, DescentOf(trail, f)
        PROVE  \E g : DescentOf(longer, g)
    <2>a. \A j \in 0..Len(trail) :
            f[j] = IF j = 0 \/ trail[j].below = 0 THEN {}
                   ELSE {trail[j].below} \cup f[trail[j].below]
      BY ZenonT(40), <1>5, DescentAt
    <2>1. PICK g : g = [j \in 0..(n + 1) |->
                          IF j = n + 1 THEN IF e.below = 0 THEN {} ELSE {e.below} \cup f[e.below]
                          ELSE f[j]]
      OBVIOUS
    <2>2. (\A j \in 0..n : g[j] = f[j])
          /\ g[n + 1] = IF e.below = 0 THEN {} ELSE {e.below} \cup f[e.below]
      BY <1>2, <2>1
    <2>3. \A j \in 0..(n + 1) :
            g[j] = IF j = 0 \/ longer[j].below = 0 THEN {}
                   ELSE {longer[j].below} \cup g[longer[j].below]
      <3> SUFFICES ASSUME NEW j \in 0..(n + 1)
                   PROVE  g[j] = IF j = 0 \/ longer[j].below = 0 THEN {}
                                 ELSE {longer[j].below} \cup g[longer[j].below]
        OBVIOUS
      <3>1. CASE j = n + 1
        <4>1. e.below \in 0..n BY <1>1
        <4>2. g[e.below] = f[e.below] BY <4>1, <2>2
        <4>3. j # 0 /\ longer[j] = e BY <3>1, <1>2
        <4>4. g[j] = IF e.below = 0 THEN {} ELSE {e.below} \cup g[e.below]
          BY <3>1, <2>2, <4>2
        <4> QED BY <4>3, <4>4, Zenon
      <3>2. CASE j # n + 1
        <4>1. j \in 0..n BY <1>2, <3>2
        <4>2. f[j] = IF j = 0 \/ trail[j].below = 0 THEN {}
                     ELSE {trail[j].below} \cup f[trail[j].below]
          BY <1>1, <4>1, <2>a
        <4>3. CASE j = 0 BY <4>2, <4>3, <2>2, <4>1
        <4>4. CASE j # 0
          <5>1. longer[j] = trail[j] /\ trail[j].below \in 0..n BY <1>2, <1>3, <4>1, <4>4
          <5> QED BY <4>1, <4>2, <4>4, <5>1, <2>2
        <4> QED BY <4>3, <4>4
      <3> QED BY <3>1, <3>2
    <2>4. g = [j \in 0..Len(longer) |-> IF j = 0 \/ longer[j].below = 0 THEN {}
                                       ELSE {longer[j].below} \cup g[longer[j].below]]
      BY <1>2, <2>1, <2>3
    <2> QED BY <2>4 DEF DescentOf
  <1> QED BY <1>1, <1>4, <1>5

\* What a link takes from below, and what is carried along from it, when it holds.
LEMMA CoversClaims ==
  ASSUME NEW ctx \in ChainContext, NEW link \in ZcapLink, NEW other \in ZcapLink,
         Claims(ctx, other),
         actionsCover(link.deeds, ctx.deeds), NotOutlived(link.expires, ctx.expires)
  PROVE  /\ link.deeds = {} \/ AnyDeed \in link.deeds \/ other.deeds \subseteq link.deeds
         /\ NotOutlived(link.expires, other.expires)
         /\ \A c : c.deeds = Inherits(link, ctx).deeds /\ c.expires = Inherits(link, ctx).expires
                     => Claims(c, other) /\ Claims(c, link)
  <1>1. /\ link.expires \in Nat /\ other.expires \in Nat /\ ctx.expires \in Nat
        /\ NoExpiry \in Nat
    <2>1. link.expires \in Expiries \cup {NoExpiry} /\ other.expires \in Expiries \cup {NoExpiry}
      BY DEF ZcapLink
    <2>2. ctx.expires \in Nat BY DEF ChainContext
    <2>3. Expiries \subseteq Nat /\ NoExpiry \in Nat BY ChainAssumption DEF NoExpiry
    <2> QED BY <2>1, <2>2, <2>3
  <1>2. link.deeds = {} \/ AnyDeed \in link.deeds \/ other.deeds \subseteq link.deeds
    BY DEF Claims, actionsCover
  <1>3. NotOutlived(link.expires, other.expires)
    BY <1>1 DEF Claims, NotOutlived
  <1>4. ASSUME NEW c, c.deeds = Inherits(link, ctx).deeds, c.expires = Inherits(link, ctx).expires
        PROVE  Claims(c, other) /\ Claims(c, link)
    <2>1. /\ c.deeds = IF link.deeds = {} THEN ctx.deeds ELSE link.deeds
          /\ c.expires = IF link.expires = NoExpiry THEN ctx.expires ELSE link.expires
      BY <1>4 DEF Inherits
    <2>2. AnyDeed \in c.deeds \/ other.deeds \subseteq c.deeds BY <1>2, <2>1 DEF Claims
    <2>3. other.expires # NoExpiry => c.expires # NoExpiry /\ other.expires <= c.expires
      BY <1>1, <2>1 DEF Claims, NotOutlived
    <2>4. AnyDeed \in c.deeds \/ link.deeds \subseteq c.deeds BY <2>1
    <2>5. link.expires # NoExpiry => c.expires # NoExpiry /\ link.expires <= c.expires
      BY <1>1, <2>1
    <2> QED BY <2>2, <2>3, <2>4, <2>5 DEF Claims
  <1> QED BY <1>2, <1>3, <1>4

\* A link that passes has the links below it in view: it covers them, and so does what
\* is carried along from it to each link above it.
LEMMA PassedLinkGrants ==
  ASSUME ChainInv, NEW ctx \in ChainContext, ctx.below \in 0..Len(pcTrail),
         NEW link \in LinksOf(pcScheme), Holds(ctx, link),
         NEW from, DescentOf(pcTrail, from),
         AgendaClaims(pcTrail, pcScheme, from, ctx),
         NEW D, D = IF ctx.below = 0 THEN {} ELSE {ctx.below} \cup from[ctx.below]
  PROVE  /\ D \subseteq 1..Len(pcTrail)
         /\ IsFiniteSet(D)
         /\ Cardinality(D) + ctx.left <= MaxChainDepth
         /\ \A j \in D : PassesOn(pcScheme, link, pcTrail[j].link)
         /\ pcScheme = "zcap-ld" =>
              \A c : c.deeds = Inherits(link, ctx).deeds /\ c.expires = Inherits(link, ctx).expires
                       => \A j \in D : Claims(c, pcTrail[j].link) /\ Claims(c, link)
  <1> DEFINE b == ctx.below
             L(j) == pcTrail[j].link
  <1>a. /\ Len(pcTrail) \in Nat /\ ctx.left \in Nat
        /\ pcScheme \in {"ucan", "zcap-ld"}
        /\ \A j \in 1..Len(pcTrail) : L(j) \in LinksOf(pcScheme)
    <2>1. ctx.left \in Nat BY DEF ChainContext
    <2>2. /\ pcScheme \in {"ucan", "zcap-ld"}
          /\ pcTrail \in Seq([link: LinksOf(pcScheme), below: Nat])
      BY DEF ChainInv, ChainShape
    <2>3. \A j \in 1..Len(pcTrail) : pcTrail[j] \in [link: LinksOf(pcScheme), below: Nat]
      BY <2>2, ElementOfSeq
    <2> QED BY <2>1, <2>2, <2>3
  <1>1. CASE b = 0
    <2>1. D = {} /\ IsFiniteSet(D) /\ Cardinality(D) = 0 BY <1>1, FS_EmptySet
    <2>2. ctx.left <= MaxChainDepth BY <1>1 DEF AgendaClaims
    <2>3. Cardinality(D) + ctx.left <= MaxChainDepth BY <2>1, <2>2, <1>a
    <2>4. D \subseteq 1..Len(pcTrail) /\ \A j \in D : FALSE BY <2>1
    <2> QED BY <2>1, <2>3, <2>4, Zenon
  <1>2. CASE b # 0
    <2>1. b \in 1..Len(pcTrail) BY <1>2, <1>a
    <2>2. TrailGrants(pcTrail, pcScheme, from, b) BY <2>1 DEF ChainInv
    <2>3. /\ from[b] \subseteq 1..(b - 1) /\ IsFiniteSet(from[b])
          /\ \A j \in from[b] : PassesOn(pcScheme, L(b), L(j))
      BY <2>2 DEF TrailGrants
    <2>4. D = from[b] \cup {b} /\ b \notin from[b] BY <1>2, <2>1, <2>3
    <2>5. D \subseteq 1..Len(pcTrail) BY <2>1, <2>3, <2>4
    <2>6. IsFiniteSet(D) /\ Cardinality(D) = Cardinality(from[b]) + 1
      <3>1. IsFiniteSet(from[b] \cup {b})
            /\ Cardinality(from[b] \cup {b}) =
                 IF b \in from[b] THEN Cardinality(from[b]) ELSE Cardinality(from[b]) + 1
        BY <2>3, FS_AddElement
      <3> QED BY <2>4, <3>1
    <2>7. Cardinality(from[b]) \in Nat BY <2>3, FS_CardinalityType
    <2>8. Cardinality(D) + ctx.left <= MaxChainDepth
      BY <1>2, <1>a, <2>6, <2>7, ChainAssumption DEF AgendaClaims, ChainAssumption
    <2>9. CASE pcScheme = "ucan"
      <3>1. L(b).deeds \subseteq link.deeds BY <1>2, <2>9 DEF Holds, UcanHolds, Below
      <3>2. \A j \in D : L(j).deeds \subseteq link.deeds BY <2>3, <2>4, <2>9, <3>1 DEF PassesOn
      <3> QED BY <2>5, <2>6, <2>8, <2>9, <3>2 DEF PassesOn
    <2>10. CASE pcScheme = "zcap-ld"
      <3>1. /\ IsPrefix(link.target, L(b).target)
            /\ actionsCover(link.deeds, ctx.deeds)
            /\ NotOutlived(link.expires, ctx.expires)
        BY <1>2, <2>10 DEF Holds, ZcapHolds, Below, coversInvocationTarget
      <3>2. link \in ZcapLink /\ \A j \in 1..Len(pcTrail) : L(j) \in ZcapLink
        BY <1>a, <2>10 DEF LinksOf
      <3>3. ASSUME NEW j \in D
            PROVE  /\ PassesOn(pcScheme, link, L(j))
                   /\ \A c : c.deeds = Inherits(link, ctx).deeds /\ c.expires = Inherits(link, ctx).expires
                               => Claims(c, L(j)) /\ Claims(c, link)
        <4>1. L(j) \in ZcapLink /\ L(b) \in ZcapLink BY <2>1, <2>5, <3>2
        <4>2. Claims(ctx, L(j)) BY <1>2, <2>4, <2>10 DEF AgendaClaims
        <4>3. /\ link.deeds = {} \/ AnyDeed \in link.deeds \/ L(j).deeds \subseteq link.deeds
              /\ NotOutlived(link.expires, L(j).expires)
              /\ \A c : c.deeds = Inherits(link, ctx).deeds /\ c.expires = Inherits(link, ctx).expires
                          => Claims(c, L(j)) /\ Claims(c, link)
          BY <3>1, <3>2, <4>1, <4>2, CoversClaims
        <4>4. link.target \in Seq(STRING) /\ L(b).target \in Seq(STRING) /\ L(j).target \in Seq(STRING)
          BY <3>2, <4>1, ChainAssumption DEF ChainAssumption, ZcapLink
        <4>5. IsPrefix(L(b).target, L(j).target)
          <5>1. CASE j = b BY <4>4, <5>1, PrefixOrders
          <5>2. CASE j # b BY <2>3, <2>4, <2>10, <5>2 DEF PassesOn
          <5> QED BY <5>1, <5>2
        <4>6. IsPrefix(link.target, L(j).target) BY <3>1, <4>4, <4>5, PrefixOrders
        <4> QED BY <2>10, <4>3, <4>6 DEF PassesOn
      <3> QED BY <2>5, <2>6, <2>8, <3>3
    <2> QED BY <1>a, <2>9, <2>10
  <1> QED BY <1>1, <1>2

\* What is carried along from a link claims what the link itself does.
LEMMA OwnClaims ==
  ASSUME NEW ctx \in ChainContext, NEW link \in ZcapLink, NEW c,
         c.deeds = Inherits(link, ctx).deeds, c.expires = Inherits(link, ctx).expires
  PROVE  Claims(c, link)
  <1>1. /\ c.deeds = IF link.deeds = {} THEN ctx.deeds ELSE link.deeds
        /\ c.expires = IF link.expires = NoExpiry THEN ctx.expires ELSE link.expires
    BY DEF Inherits
  <1>2. link.expires \in Nat
    <2>1. link.expires \in Expiries \cup {NoExpiry} BY DEF ZcapLink
    <2>2. Expiries \subseteq Nat /\ NoExpiry \in Nat BY ChainAssumption DEF NoExpiry
    <2> QED BY <2>1, <2>2
  <1> QED BY <1>1, <1>2 DEF Claims

\* What is left to walk after a link: the one context of it for each link above it, if
\* there is one and levels are left, before what waited.
LEMMA AgendaGrows ==
  ASSUME ChainShape, NEW link \in LinksOf(pcScheme), PassLink(link),
         NEW ctx, ctx = Head(pcAgenda)
  PROVE  /\ ctx \in ChainContext /\ ctx.below \in 0..Len(pcTrail) /\ 1 \in 1..Len(pcAgenda)
         /\ ctx = pcAgenda[1]
         /\ pcAgenda' \in Seq(ChainContext)
         /\ \A k \in 1..Len(pcAgenda') :
              \/ \E m \in 1..Len(pcAgenda) : pcAgenda'[k] = pcAgenda[m]
              \/ /\ pcAgenda'[k].below = Len(pcTrail) + 1
                 /\ pcAgenda'[k].left = ctx.left - 1
                 /\ pcAgenda'[k].deeds = Inherits(link, ctx).deeds
                 /\ pcAgenda'[k].expires = Inherits(link, ctx).expires
  <1>1. pcAgenda \in Seq(ChainContext) /\ pcAgenda # <<>> BY DEF ChainShape, PassLink
  <1>2. Len(pcAgenda) \in Nat /\ 1 \in 1..Len(pcAgenda) /\ ctx = pcAgenda[1]
    BY <1>1, EmptySeq
  <1>3. ctx \in ChainContext /\ ctx.below \in 0..Len(pcTrail)
    BY <1>1, <1>2, ElementOfSeq DEF ChainShape
  <1>4. PICK c : c = [below |-> Len(pcTrail) + 1, left |-> ctx.left - 1,
                      deeds |-> Inherits(link, ctx).deeds, expires |-> Inherits(link, ctx).expires]
    OBVIOUS
  <1>5. PICK above, tail : /\ above = [i \in 1..link.above |-> c]
                           /\ tail = Tail(pcAgenda)
                           /\ pcAgenda' = above \o tail
    BY <1>4 DEF PassLink, Onwards
  <1>6. link.above \in Nat /\ (link.above > 0 => ctx.left > 0)
    <2>1. link.above > 0 => ctx.left > 0 BY DEF PassLink
    <2>2. link.above \in 0..1 \/ link.above \in 0..2 BY DEF LinksOf, UcanLink, ZcapLink
    <2> QED BY <2>1, <2>2
  <1>7. link.above > 0 => c \in ChainContext
    <2> SUFFICES ASSUME link.above > 0 PROVE c \in ChainContext OBVIOUS
    <2>1. ctx.left - 1 \in Nat BY <1>3, <1>6 DEF ChainContext
    <2>2. Len(pcTrail) + 1 \in Nat BY DEF ChainShape
    <2>3. link.deeds \subseteq Deeds BY DEF LinksOf, UcanLink, ZcapLink
    <2>4. link.expires \in Nat
      <3>1. link.expires \in Expiries \cup {NoExpiry} BY DEF LinksOf, UcanLink, ZcapLink
      <3>2. Expiries \subseteq Nat /\ NoExpiry \in Nat BY ChainAssumption DEF NoExpiry
      <3> QED BY <3>1, <3>2
    <2>5. Inherits(link, ctx).deeds \subseteq Deeds /\ Inherits(link, ctx).expires \in Nat
      BY <1>3, <2>3, <2>4 DEF Inherits, ChainContext
    <2> QED BY <1>4, <2>1, <2>2, <2>5 DEF ChainContext
  <1>8. above \in Seq(ChainContext) /\ Len(above) = link.above /\ \A i \in 1..Len(above) : above[i] = c
    <2>1. \A i \in 1..link.above : c \in ChainContext BY <1>6, <1>7
    <2>2. above \in [1..link.above -> ChainContext] BY <1>5, <2>1
    <2>3. above \in Seq(ChainContext) BY <1>6, <2>2, SeqDef
    <2>4. DOMAIN above = 1..link.above /\ DOMAIN above = 1..Len(above) /\ Len(above) \in Nat
      BY <1>5, <2>3, LenProperties
    <2>5. Len(above) = link.above BY <1>6, <2>4
    <2> QED BY <1>5, <2>3, <2>5
  <1>9. /\ tail \in Seq(ChainContext) /\ Len(tail) = Len(pcAgenda) - 1
        /\ \A i \in 1..Len(tail) : tail[i] = pcAgenda[i + 1]
    BY <1>1, <1>5, HeadTailProperties
  <1>10. pcAgenda' \in Seq(ChainContext) BY <1>5, <1>8, <1>9, ConcatProperties
  <1>11. ASSUME NEW k \in 1..Len(pcAgenda')
         PROVE  pcAgenda'[k] = c \/ \E m \in 1..Len(pcAgenda) : pcAgenda'[k] = pcAgenda[m]
    <2>a. \A i \in 1..Len(above) + Len(tail) :
            (above \o tail)[i] = IF i <= Len(above) THEN above[i] ELSE tail[i - Len(above)]
      BY <1>8, <1>9, ConcatProperties
    <2>b. Len(above \o tail) = Len(above) + Len(tail) BY <1>8, <1>9, ConcatProperties
    <2>c. k \in 1..Len(above) + Len(tail) BY <1>5, <2>b
    <2>1. /\ Len(pcAgenda') = Len(above) + Len(tail)
          /\ pcAgenda'[k] = IF k <= Len(above) THEN above[k] ELSE tail[k - Len(above)]
      BY <1>5, <2>a, <2>b, <2>c, Zenon
    <2>2. CASE k <= Len(above) BY <1>6, <1>8, <2>1, <2>2
    <2>3. CASE k > Len(above)
      <3>1. PICK m \in 1..Len(tail) : m = k - Len(above) BY <1>2, <1>6, <1>8, <1>9, <2>1, <2>3
      <3>2. pcAgenda'[k] = pcAgenda[m + 1] /\ m + 1 \in 1..Len(pcAgenda)
        BY SMTT(30), <1>2, <1>6, <1>8, <1>9, <2>1, <2>3, <3>1
      <3> QED BY <3>2
    <2> QED BY <1>2, <1>6, <1>8, <2>2, <2>3
  <1>12. c.below = Len(pcTrail) + 1 /\ c.left = ctx.left - 1
         /\ c.deeds = Inherits(link, ctx).deeds /\ c.expires = Inherits(link, ctx).expires
    BY <1>4
  <1> QED BY <1>2, <1>3, <1>10, <1>11, <1>12

\* A link that passes is granted by the links below it, and asks of those above it what
\* they have all claimed.
LEMMA PassKeeps ==
  ASSUME ChainInv, NEW link \in LinksOf(pcScheme), PassLink(link)
  PROVE  ChainInv'
  <1>1. PICK n, ctx, e :
          /\ n = Len(pcTrail)
          /\ ctx = Head(pcAgenda)
          /\ e = [link |-> link, below |-> ctx.below]
    OBVIOUS
  <1>2. /\ Holds(ctx, link)
        /\ pcTrail' = Append(pcTrail, e)
        /\ UNCHANGED <<pcScheme, pcVerdict>>
    BY <1>1 DEF PassLink
  <1>3. ChainShape BY DEF ChainInv
  <1>4. /\ ctx \in ChainContext /\ ctx.below \in 0..n /\ 1 \in 1..Len(pcAgenda)
        /\ ctx = pcAgenda[1]
        /\ pcAgenda' \in Seq(ChainContext)
        /\ \A k \in 1..Len(pcAgenda') :
             \/ \E m \in 1..Len(pcAgenda) : pcAgenda'[k] = pcAgenda[m]
             \/ /\ pcAgenda'[k].below = n + 1
                /\ pcAgenda'[k].left = ctx.left - 1
                /\ pcAgenda'[k].deeds = Inherits(link, ctx).deeds
                /\ pcAgenda'[k].expires = Inherits(link, ctx).expires
    BY <1>1, <1>3, AgendaGrows
  <1>5. /\ pcTrail \in Seq([link: LinksOf(pcScheme), below: Nat])
        /\ e \in [link: LinksOf(pcScheme), below: Nat]
        /\ \A i \in 1..n : pcTrail[i].below \in 0..(i - 1)
        /\ n \in Nat
    <2>1. pcTrail \in Seq([link: LinksOf(pcScheme), below: Nat]) BY <1>3 DEF ChainShape
    <2>2. n \in Nat BY <1>1, <2>1, LenProperties
    <2>3. e \in [link: LinksOf(pcScheme), below: Nat] BY <1>1, <1>4, <2>2
    <2> QED BY <1>1, <1>3, <2>1, <2>2, <2>3 DEF ChainShape
  <1>6. /\ pcTrail' \in Seq([link: LinksOf(pcScheme), below: Nat])
        /\ Len(pcTrail') = n + 1
        /\ \A i \in 1..n : pcTrail'[i] = pcTrail[i]
        /\ pcTrail'[n + 1] = e
    BY <1>1, <1>2, <1>5, AppendProperties
  <1>a. \A i \in 1..n : pcTrail'[i] = pcTrail[i] BY <1>6
  <1>b. n \in Nat /\ \A i \in 1..n : pcTrail[i].below \in 0..(i - 1) BY <1>5
  <1>7. e.link = link /\ e.below = ctx.below BY <1>1
  <1>8. ChainShape'
    <2>1. \A i \in 1..Len(pcTrail') : pcTrail'[i].below \in 0..(i - 1)
      <3> SUFFICES ASSUME NEW i \in 1..(n + 1) PROVE pcTrail'[i].below \in 0..(i - 1) BY <1>6
      <3>1. CASE i = n + 1 BY <3>1, <1>4, <1>5, <1>6, <1>7
      <3>2. CASE i # n + 1
        <4>1. i \in 1..n BY <3>2, <1>b
        <4>2. pcTrail'[i] = pcTrail[i] /\ pcTrail[i].below \in 0..(i - 1) BY <4>1, <1>a, <1>b
        <4> QED BY <4>2
      <3> QED BY <3>1, <3>2
    <2>2. \A k \in 1..Len(pcAgenda) : pcAgenda[k].below \in 0..n BY <1>1, <1>3 DEF ChainShape
    <2>3. \A k \in 1..Len(pcAgenda') : pcAgenda'[k].below \in 0..Len(pcTrail')
      <3> SUFFICES ASSUME NEW k \in 1..Len(pcAgenda') PROVE pcAgenda'[k].below \in 0..(n + 1) BY <1>6
      <3>1. CASE \E m \in 1..Len(pcAgenda) : pcAgenda'[k] = pcAgenda[m] BY <3>1, <2>2, <1>5
      <3>2. CASE pcAgenda'[k].below = n + 1 BY <3>2, <1>5
      <3> QED BY <1>4, <3>1, <3>2
    <2> QED BY <1>2, <1>3, <1>4, <1>6, <2>1, <2>3 DEF ChainShape
  <1>9. \A i \in 1..Len(pcTrail') : LinkHolds(pcTrail', pcScheme', i)
    <2> SUFFICES ASSUME NEW i \in 1..(n + 1) PROVE LinkHolds(pcTrail', pcScheme, i) BY <1>2, <1>6
    <2>1. CASE i # n + 1
      <3>1. i \in 1..n BY <2>1, <1>5
      <3>a. pcTrail'[i] = pcTrail[i] /\ pcTrail[i].below \in 0..(i - 1) BY <3>1, <1>a, <1>b
      <3>2. pcTrail'[i] = pcTrail[i] /\ pcTrail[i].below \in 0..n BY <3>1, <3>a, <1>b
      <3>3. pcTrail[i].below # 0 => pcTrail'[pcTrail[i].below] = pcTrail[pcTrail[i].below]
        BY <3>2, <1>a, <1>b
      <3>4. LinkHolds(pcTrail, pcScheme, i) BY <3>1, <1>1 DEF ChainInv
      <3> QED BY <3>2, <3>3, <3>4 DEF LinkHolds, Unexpired
    <2>2. CASE i = n + 1
      <3>1. pcTrail'[i].link = link /\ pcTrail'[i].below = ctx.below BY <2>2, <1>6, <1>7
      <3>2. ctx.below # 0 => pcTrail'[ctx.below] = pcTrail[ctx.below]
        <4>1. ctx.below # 0 => ctx.below \in 1..n BY <1>4, <1>b
        <4> QED BY <4>1, <1>a
      <3>3. Unexpired(link) BY <1>2 DEF Holds
      <3>4. CASE pcScheme = "ucan"
        <4>1. UcanHolds(ctx, link) BY <1>2, <3>4 DEF Holds
        <4> QED BY <3>1, <3>2, <3>3, <3>4, <4>1 DEF LinkHolds, UcanHolds, Below
      <3>5. CASE pcScheme = "zcap-ld"
        <4>1. ZcapHolds(ctx, link) BY <1>2, <3>5 DEF Holds
        <4> QED BY <3>1, <3>2, <3>3, <3>5, <4>1 DEF LinkHolds, ZcapHolds, Below
      <3> QED BY <1>3, <3>4, <3>5 DEF ChainShape
    <2> QED BY <2>1, <2>2
  <1>10. /\ \A g : DescentOf(pcTrail', g) =>
              \E f : /\ DescentOf(pcTrail, f)
                     /\ \A j \in 0..n : g[j] = f[j]
                     /\ g[n + 1] = IF e.below = 0 THEN {} ELSE {e.below} \cup f[e.below]
         /\ (\E f : DescentOf(pcTrail, f)) => \E g : DescentOf(pcTrail', g)
    <2>1. \A i \in 1..Len(pcTrail) : pcTrail[i].below \in 0..(i - 1) BY <1>1, <1>5
    <2>2. e.below \in 0..Len(pcTrail) BY <1>1, <1>4, <1>7
    <2>3. /\ \A g : DescentOf(Append(pcTrail, e), g) =>
               \E f : /\ DescentOf(pcTrail, f)
                      /\ \A j \in 0..Len(pcTrail) : g[j] = f[j]
                      /\ g[Len(pcTrail) + 1] = IF e.below = 0 THEN {} ELSE {e.below} \cup f[e.below]
          /\ (\E f : DescentOf(pcTrail, f)) => \E g : DescentOf(Append(pcTrail, e), g)
      BY <1>5, <2>1, <2>2, DescentGrows
    <2> QED BY ZenonT(60), <1>1, <1>2, <2>3
  <1>11. \E g : DescentOf(pcTrail', g) BY <1>10 DEF ChainInv
  <1>12. ASSUME NEW g, DescentOf(pcTrail', g)
         PROVE  /\ \A i \in 1..Len(pcTrail') : TrailGrants(pcTrail', pcScheme', g, i)
                /\ \A k \in 1..Len(pcAgenda') : AgendaClaims(pcTrail', pcScheme', g, pcAgenda'[k])
    <2>1. PICK f : /\ DescentOf(pcTrail, f)
                   /\ \A j \in 0..n : g[j] = f[j]
                   /\ g[n + 1] = IF e.below = 0 THEN {} ELSE {e.below} \cup f[e.below]
      BY <1>10, <1>12
    <2>2. /\ \A i \in 1..n : TrailGrants(pcTrail, pcScheme, f, i)
          /\ \A k \in 1..Len(pcAgenda) : AgendaClaims(pcTrail, pcScheme, f, pcAgenda[k])
      BY <1>1, <2>1 DEF ChainInv
    <2>3. PICK D : D = IF ctx.below = 0 THEN {} ELSE {ctx.below} \cup f[ctx.below] OBVIOUS
    <2>4. /\ D \subseteq 1..n
          /\ IsFiniteSet(D)
          /\ Cardinality(D) + ctx.left <= MaxChainDepth
          /\ \A j \in D : PassesOn(pcScheme, link, pcTrail[j].link)
          /\ pcScheme = "zcap-ld" =>
               \A c : c.deeds = Inherits(link, ctx).deeds /\ c.expires = Inherits(link, ctx).expires
                        => \A j \in D : Claims(c, pcTrail[j].link) /\ Claims(c, link)
      <3>1. AgendaClaims(pcTrail, pcScheme, f, ctx) BY <1>4, <2>2
      <3> QED BY <1>1, <1>2, <1>4, <2>1, <2>3, <3>1, PassedLinkGrants
    <2>5. g[n + 1] = D BY <1>7, <2>1, <2>3
    <2>6. Cardinality(D) \in Nat /\ ctx.left \in Nat /\ MaxChainDepth \in Nat
      BY <1>4, <2>4, FS_CardinalityType, ChainAssumption DEF ChainContext
    <2>7. \A i \in 1..Len(pcTrail') : TrailGrants(pcTrail', pcScheme', g, i)
      <3> SUFFICES ASSUME NEW i \in 1..(n + 1) PROVE TrailGrants(pcTrail', pcScheme, g, i)
        BY <1>2, <1>6
      <3>1. CASE i # n + 1
        <4>1. i \in 1..n /\ i \in 0..n BY <3>1, <1>5
        <4>2. g[i] = f[i] /\ TrailGrants(pcTrail, pcScheme, f, i) BY <2>1, <2>2, <4>1
        <4>3. pcTrail'[i] = pcTrail[i] BY <1>6, <4>1
        <4>4. \A j \in f[i] : pcTrail'[j] = pcTrail[j] BY <1>5, <1>6, <4>1, <4>2 DEF TrailGrants
        <4> QED BY <4>2, <4>3, <4>4 DEF TrailGrants
      <3>2. CASE i = n + 1
        <4>1. g[i] = D /\ pcTrail'[i].link = link BY <3>2, <2>5, <1>6, <1>7
        <4>2. \A j \in D : pcTrail'[j] = pcTrail[j] BY <1>6, <2>4
        <4>3. D \subseteq 1..(i - 1) BY <3>2, <2>4, <1>5
        <4>4. Cardinality(D) <= MaxChainDepth BY <2>4, <2>6
        <4> QED BY <2>4, <4>1, <4>2, <4>3, <4>4 DEF TrailGrants
      <3> QED BY <3>1, <3>2
    <2>8. \A k \in 1..Len(pcAgenda') : AgendaClaims(pcTrail', pcScheme', g, pcAgenda'[k])
      <3> SUFFICES ASSUME NEW k \in 1..Len(pcAgenda')
                   PROVE  AgendaClaims(pcTrail', pcScheme, g, pcAgenda'[k])
        BY <1>2
      <3>1. ASSUME NEW m \in 1..Len(pcAgenda), pcAgenda'[k] = pcAgenda[m]
            PROVE  AgendaClaims(pcTrail', pcScheme, g, pcAgenda'[k])
        <4>1. PICK old : old = pcAgenda[m] OBVIOUS
        <4>2. AgendaClaims(pcTrail, pcScheme, f, old) BY <2>2, <4>1
        <4>3. old.below \in 0..n BY <1>1, <1>3, <4>1 DEF ChainShape
        <4>4. CASE old.below = 0 BY <3>1, <4>1, <4>2, <4>4 DEF AgendaClaims
        <4>5. CASE old.below # 0
          <5>1. old.below \in 1..n BY <1>5, <4>3, <4>5
          <5>2. g[old.below] = f[old.below] BY <2>1, <4>3
          <5>3. f[old.below] \subseteq 1..(old.below - 1) BY <2>2, <5>1 DEF TrailGrants
          <5>4. \A j \in {old.below} \cup f[old.below] : pcTrail'[j] = pcTrail[j]
            <6> SUFFICES ASSUME NEW j \in {old.below} \cup f[old.below] PROVE pcTrail'[j] = pcTrail[j]
              OBVIOUS
            <6>1. j \in 1..n BY <5>1, <5>3, <1>b
            <6> QED BY <6>1, <1>a
          <5> QED BY <3>1, <4>1, <4>2, <5>2, <5>4 DEF AgendaClaims
        <4> QED BY <4>4, <4>5
      <3>2. ASSUME /\ pcAgenda'[k].below = n + 1
                   /\ pcAgenda'[k].left = ctx.left - 1
                   /\ pcAgenda'[k].deeds = Inherits(link, ctx).deeds
                   /\ pcAgenda'[k].expires = Inherits(link, ctx).expires
            PROVE  AgendaClaims(pcTrail', pcScheme, g, pcAgenda'[k])
        <4>1. PICK c : c = pcAgenda'[k] OBVIOUS
        <4>2. /\ c.below = n + 1 /\ c.left = ctx.left - 1
              /\ c.deeds = Inherits(link, ctx).deeds /\ c.expires = Inherits(link, ctx).expires
          BY <3>2, <4>1
        <4>3. c.below # 0 /\ g[c.below] = D BY <1>5, <2>5, <4>2
        <4>4. c.left + Cardinality(D) + 1 <= MaxChainDepth BY <2>4, <2>6, <4>2
        <4>5. ASSUME pcScheme = "zcap-ld", NEW j \in {c.below} \cup D
              PROVE  Claims(c, pcTrail'[j].link)
          <5>1. CASE j \in D
            <6>1. pcTrail'[j] = pcTrail[j] BY <1>6, <2>4, <5>1
            <6> QED BY <2>4, <4>2, <4>5, <5>1, <6>1
          <5>2. CASE j = n + 1
            <6>1. pcTrail'[j].link = link BY <1>6, <1>7, <5>2
            <6>2. link \in ZcapLink BY <4>5 DEF LinksOf
            <6> QED BY <1>4, <4>2, <6>1, <6>2, OwnClaims
          <5> QED BY <4>2, <4>5, <5>1, <5>2
        <4> QED BY <4>1, <4>3, <4>4, <4>5 DEF AgendaClaims
      <3> QED BY <1>4, <3>1, <3>2
    <2> QED BY <2>7, <2>8
  <1> QED BY <1>8, <1>9, <1>11, <1>12 DEF ChainInv

\* Every step of the walk keeps the invariant.
LEMMA ChainStep ==
  ASSUME ChainInv, [ChainNext]_chainVars
  PROVE  ChainInv'
  <1>1. ASSUME UNCHANGED <<pcScheme, pcTrail>>, pcVerdict' \in {"open", "verified", "invalid"},
               pcAgenda' = pcAgenda \/ pcAgenda' = <<>>
        PROVE  ChainInv'
    <2>1. pcAgenda' \in Seq(ChainContext) /\ \A k \in 1..Len(pcAgenda') : pcAgenda' = pcAgenda
      <3>1. pcAgenda \in Seq(ChainContext) BY DEF ChainInv, ChainShape
      <3>2. CASE pcAgenda' = pcAgenda BY <3>1, <3>2
      <3>3. CASE pcAgenda' = <<>>
        <4>1. Len(pcAgenda') = 0 /\ pcAgenda' \in Seq(ChainContext) BY <3>3, EmptySeq
        <4> QED BY <4>1
      <3> QED BY <1>1, <3>2, <3>3
    <2>2. ChainShape' BY <1>1, <2>1 DEF ChainInv, ChainShape
    <2>3. \A i \in 1..Len(pcTrail') : LinkHolds(pcTrail', pcScheme', i) BY <1>1 DEF ChainInv
    <2>4. \E from : DescentOf(pcTrail', from) BY <1>1 DEF ChainInv
    <2>5. ASSUME NEW from, DescentOf(pcTrail', from)
          PROVE  /\ \A i \in 1..Len(pcTrail') : TrailGrants(pcTrail', pcScheme', from, i)
                 /\ \A k \in 1..Len(pcAgenda') : AgendaClaims(pcTrail', pcScheme', from, pcAgenda'[k])
      <3>1. /\ \A i \in 1..Len(pcTrail) : TrailGrants(pcTrail, pcScheme, from, i)
            /\ \A k \in 1..Len(pcAgenda) : AgendaClaims(pcTrail, pcScheme, from, pcAgenda[k])
        BY <1>1, <2>5 DEF ChainInv
      <3>2. \A k \in 1..Len(pcAgenda') : AgendaClaims(pcTrail, pcScheme, from, pcAgenda'[k])
        BY <2>1, <3>1
      <3> QED BY <1>1, <3>1, <3>2
    <2> QED BY <2>2, <2>3, <2>4, <2>5 DEF ChainInv
  <1>2. pcVerdict \in {"open", "verified", "invalid"} BY DEF ChainInv, ChainShape
  <1>3. CASE ConcludeWalk BY <1>1, <1>3 DEF ConcludeWalk
  <1>4. ASSUME NEW link, FailLink(link) PROVE ChainInv' BY <1>1, <1>4 DEF FailLink
  <1>5. CASE UNCHANGED chainVars BY <1>1, <1>2, <1>5 DEF chainVars
  <1> QED BY <1>3, <1>4, <1>5, PassKeeps DEF ChainNext, LinksOf

\* The walk keeps the invariant.
LEMMA ChainHolds == ChainSpec => []ChainInv
  BY ChainStarts, ChainStep, PTL DEF ChainSpec

\* Descendants is the function of the trail.
LEMMA DescendantsAre ==
  ASSUME \E from : DescentOf(pcTrail, from)
  PROVE  \E from : DescentOf(pcTrail, from) /\ \A i : Descendants(i) = from[i]
  <1>1. PICK f : f = CHOOSE from : DescentOf(pcTrail, from) OBVIOUS
  <1>2. DescentOf(pcTrail, f) BY <1>1
  <1>3. \A i : Descendants(i) = f[i] BY <1>1 DEF Descendants, DescentOf
  <1> QED BY <1>2, <1>3

\* It implies the property.
LEMMA InvGrantedAllTheWay == ASSUME ChainInv PROVE GrantedAllTheWay
  <1>1. PICK from : DescentOf(pcTrail, from) /\ \A i : Descendants(i) = from[i]
    BY DescendantsAre DEF ChainInv
  <1>2. DOMAIN pcTrail = 1..Len(pcTrail) /\ Len(pcTrail) \in Nat
    BY LenProperties DEF ChainInv, ChainShape
  <1> SUFFICES ASSUME NEW i \in 1..Len(pcTrail)
               PROVE  LET Link(j) == pcTrail[j].link
                          above == Link(i)
                      IN
                      /\ Unexpired(above)
                      /\ Cardinality(Descendants(i)) <= MaxChainDepth
                      /\ pcTrail[i].below # 0 => Link(pcTrail[i].below).signer = above.holder
                      /\ pcScheme = "ucan" =>
                           /\ Link(1).signer = RecordIssuer
                           /\ \A j \in Descendants(i) : Link(j).deeds \subseteq above.deeds
                      /\ pcScheme = "zcap-ld" =>
                           /\ Link(1).holder = RecordSubject
                           /\ above.above = 0 => above.holder = RecordIssuer /\ above.signer = RecordIssuer
                           /\ \A j \in Descendants(i) :
                                /\ IsPrefix(above.target, Link(j).target)
                                /\ \/ above.deeds = {} \/ AnyDeed \in above.deeds
                                   \/ Link(j).deeds \subseteq above.deeds
                                /\ NotOutlived(above.expires, Link(j).expires)
    BY <1>2 DEF GrantedAllTheWay
  <1>3. Descendants(i) = from[i] BY <1>1
  <1>4. TrailGrants(pcTrail, pcScheme, from, i) BY <1>1 DEF ChainInv
  <1>5. LinkHolds(pcTrail, pcScheme, i) BY DEF ChainInv
  <1>6. LinkHolds(pcTrail, pcScheme, 1) /\ pcTrail[1].below = 0
    <2>1. 1 \in 1..Len(pcTrail) BY <1>2
    <2>2. pcTrail[1].below \in 0..(1 - 1) BY <2>1 DEF ChainInv, ChainShape
    <2> QED BY <2>1, <2>2 DEF ChainInv
  <1>7. /\ pcScheme = "ucan" => pcTrail[1].link.signer = RecordIssuer
        /\ pcScheme = "zcap-ld" => pcTrail[1].link.holder = RecordSubject
    BY <1>6 DEF LinkHolds
  <1>8. /\ Unexpired(pcTrail[i].link)
        /\ pcTrail[i].below # 0 => pcTrail[pcTrail[i].below].link.signer = pcTrail[i].link.holder
        /\ pcScheme = "zcap-ld" /\ pcTrail[i].link.above = 0 =>
             pcTrail[i].link.holder = RecordIssuer /\ pcTrail[i].link.signer = RecordIssuer
    BY <1>5 DEF LinkHolds
  <1>9. Cardinality(Descendants(i)) <= MaxChainDepth BY <1>3, <1>4 DEF TrailGrants
  <1>10. \A j \in Descendants(i) : PassesOn(pcScheme, pcTrail[i].link, pcTrail[j].link)
    BY <1>3, <1>4 DEF TrailGrants
  <1> QED BY <1>7, <1>8, <1>9, <1>10 DEF PassesOn

\* The walk keeps what it has in shape: each link that passed was walked from one before
\* it, and each that waits has its levels and claims.
THEOREM ChainTypeCorrect == ChainSpec => []ChainTypeOK
  <1>1. ChainInv => ChainTypeOK
    <2> SUFFICES ASSUME ChainShape PROVE ChainTypeOK BY DEF ChainInv
    <2>1. /\ DOMAIN pcAgenda = 1..Len(pcAgenda)
          /\ \A k \in 1..Len(pcAgenda) : pcAgenda[k] \in ChainContext
      BY LenProperties, ElementOfSeq DEF ChainShape
    <2>2. DOMAIN pcTrail = 1..Len(pcTrail) /\ Len(pcTrail) \in Nat BY LenProperties DEF ChainShape
    <2>3. \A i \in 1..Len(pcTrail) : pcTrail[i].below < i BY <2>2 DEF ChainShape
    <2> QED BY <2>1, <2>2, <2>3 DEF ChainShape, ChainTypeOK
  <1> QED BY <1>1, ChainHolds, PTL

\* What a verifier of delegations verifies was granted all the way, from the roots to
\* the leaf (verifyZcapChain of packages/zcap-ld-verifier and verifyChain of
\* packages/ucan-verifier, each of which compares a link only with what the walk carries
\* to it), for chains of any length and branching, parties, deeds, places and expiries.
THEOREM ChainGrantedAllTheWay == ChainSpec => []GrantedAllTheWay
  BY InvGrantedAllTheWay, ChainHolds, PTL

(***************************************************************************)
(* The transport admission.                                                *)
(***************************************************************************)

ReplayEntries == [key: AdmKeys, at: Nat]

\* Each key is listed once.
ListedOnce(replay) ==
  \A i, j \in 1..Len(replay) : replay[i].key = replay[j].key => i = j

\* A state has its three parts, and a peer's quarantine is a time.
Reputed(r) == r = [score |-> r.score, at |-> r.at, until |-> r.until] /\ r.until \in Int

StateShape(s) ==
  /\ s = [replay |-> s.replay, rep |-> s.rep, bucket |-> s.bucket]
  /\ s.replay \in Seq(ReplayEntries) /\ ListedOnce(s.replay)
  /\ DOMAIN s.rep = Peers
  /\ \A p \in Peers : Reputed(s.rep[p])

\* The cache remembers when a key was admitted, or that it came again since.
Remembers(s, k, t) ==
  \E i \in 1..Len(s.replay) : s.replay[i].key = k /\ s.replay[i].at >= t

\* A quarantine holds that is in force and not outgrown.
StaysQuarantined(old, new, t) ==
  isQuarantined(old, t) => new.until = old.until \/ new.score >= RecoveryThreshold

\* What a handling came to is what the engine makes of the state at the time: a key
\* that is no duplicate has been recorded.
Settles(s, j, now) ==
  /\ j.key \in AdmKeys /\ j.at \in Nat /\ j.at <= now
  /\ StateShape(j.next)
  /\ \/ j.verdict = "drop-duplicate" /\ j.next.replay = s.replay
     \/ ~IsDuplicate(s.replay, j.key, j.at) /\ j.next.replay = recordSeen(s.replay, j.key, j.at)
  /\ \A p \in Peers : StaysQuarantined(s.rep[p], j.next.rep[p], j.at)

\* As long as each handling ends before the next begins: the gateway knows what it
\* admitted,
AloneState ==
  /\ running /\ readmitted = {}
  /\ StateShape(state)
  /\ \A k \in AdmKeys :
       \/ lastAdmitted[k] = NoTime
       \/ (lastAdmitted[k] \in Nat /\ lastAdmitted[k] <= admNow
           /\ Remembers(state, k, lastAdmitted[k]))

\* so does the snapshot,
AloneFile == file # NoFile => HasStore /\ StateShape(file) /\ file.replay = state.replay

\* and the one handling in progress was decided from its state, and alone writes the
\* temporary file.
AloneHandling ==
  /\ shared = {}
  /\ \A g, h \in Handlers : phase[g] # "idle" /\ phase[h] # "idle" => g = h
  /\ \A h \in Handlers :
       /\ phase[h] # "idle" =>
            /\ HasStore
            /\ Settles(state, job[h], admNow)
            /\ \A k \in AdmKeys : lastAdmitted[k] <= job[h].at
       /\ phase[h] = "writing" => fd[h] = "temp"
       /\ phase[h] = "written" => temp = job[h].next
       /\ fd[h] # "none" => fd[h] = "temp" /\ phase[h] = "writing"

Alone == AloneState /\ AloneFile /\ AloneHandling

AdmInv ==
  /\ admNow \in Nat /\ upsets \in Nat
  /\ DOMAIN phase = Handlers /\ DOMAIN job = Handlers /\ DOMAIN fd = Handlers
  /\ ~raced => Alone

\* A set of numbers has a lowest.
LEMMA LowestNumber ==
  ASSUME NEW T \in SUBSET Nat, T # {}
  PROVE  \E i \in T : \A j \in T : i <= j
  <1>1. PICK R : R = {ss \in Nat \X Nat : ss[1] < ss[2]} OBVIOUS
  <1>2. IsWellFoundedOn(R, Nat) BY <1>1, NatLessThanWellFounded DEF OpToRel
  <1>3. PICK x \in T : \A y \in T : ~(<<y, x>> \in R) BY <1>2, WFMin
  <1>4. \A y, z \in Nat : y < z => <<y, z>> \in R BY <1>1
  <1>5. \A y \in T : ~(y < x) BY <1>3, <1>4
  <1>6. \A y \in T : x <= y BY <1>5
  <1> QED BY <1>6

\* What is left of a sequence without its first elements.
LEMMA LaterPart ==
  ASSUME NEW S, NEW s \in Seq(S), NEW n \in 0..Len(s)
  PROVE  LET later == SubSeq(s, n + 1, Len(s))
         IN  /\ later \in Seq(S) /\ Len(later) = Len(s) - n
             /\ \A i \in 1..Len(later) : later[i] = s[n + i]
  <1>1. Len(s) \in Nat BY LenProperties
  <1>2. PICK m, l : m = n + 1 /\ l = Len(s) OBVIOUS
  <1>3. m \in Int /\ l \in Int BY <1>1, <1>2
  <1>4. \A i \in m..l : s[i] \in S BY <1>1, <1>2, ElementOfSeq
  <1>5. PICK later : later = SubSeq(s, m, l) OBVIOUS
  <1>6. /\ later \in Seq(S)
        /\ Len(later) = IF m <= l THEN l - m + 1 ELSE 0
        /\ \A i \in 1..(l - m + 1) : later[i] = s[m + i - 1]
    BY <1>3, <1>4, <1>5, SubSeqProperties
  <1>7. Len(later) = l - n /\ l - m + 1 = l - n BY <1>1, <1>2, <1>6
  <1>8. \A i \in 1..(l - n) : m + i - 1 = n + i BY <1>1, <1>2
  <1>9. \A i \in 1..(l - n) : later[i] = s[n + i] BY <1>6, <1>7, <1>8
  <1> QED BY <1>2, <1>5, <1>6, <1>7, <1>9

\* What is left of it without one.
LEMMA WithoutOne ==
  ASSUME NEW S, NEW s \in Seq(S), NEW n \in 1..Len(s)
  PROVE  /\ RemoveAt(s, n) \in Seq(S) /\ Len(RemoveAt(s, n)) = Len(s) - 1
         /\ \A i \in 1..(Len(s) - 1) : RemoveAt(s, n)[i] = IF i < n THEN s[i] ELSE s[i + 1]
  <1>1. Len(s) \in Nat BY LenProperties
  <1>2. PICK a, b : a = SubSeq(s, 1, n - 1) /\ b = SubSeq(s, n + 1, Len(s)) OBVIOUS
  <1>3. a \in Seq(S) /\ Len(a) = n - 1 /\ \A i \in 1..(n - 1) : a[i] = s[i]
    <2>1. PICK l : l = n - 1 OBVIOUS
    <2>2. l \in Int /\ 1 \in Int /\ l >= 0 BY <1>1, <2>1
    <2>3. \A i \in 1..l : s[i] \in S BY <1>1, <2>1, ElementOfSeq
    <2>4. /\ a \in Seq(S)
          /\ Len(a) = IF 1 <= l THEN l - 1 + 1 ELSE 0
          /\ \A i \in 1..(l - 1 + 1) : a[i] = s[1 + i - 1]
      BY <1>2, <2>1, <2>2, <2>3, SubSeqProperties
    <2>5. Len(a) = l /\ l - 1 + 1 = l BY <2>2, <2>4
    <2>6. \A i \in 1..l : 1 + i - 1 = i BY <2>2
    <2>7. \A i \in 1..l : a[i] = s[i] BY <2>4, <2>5, <2>6
    <2> QED BY <2>1, <2>4, <2>5, <2>7
  <1>4. b \in Seq(S) /\ Len(b) = Len(s) - n /\ \A i \in 1..Len(b) : b[i] = s[n + i]
    <2>1. n \in 0..Len(s) BY <1>1
    <2> QED BY <1>2, <2>1, LaterPart
  <1>5. PICK c : c = a \o b OBVIOUS
  <1>6. c = RemoveAt(s, n) BY <1>2, <1>5 DEF RemoveAt
  <1>7. /\ c \in Seq(S) /\ Len(c) = Len(a) + Len(b)
        /\ \A i \in 1..(Len(a) + Len(b)) : c[i] = IF i <= Len(a) THEN a[i] ELSE b[i - Len(a)]
    BY <1>3, <1>4, <1>5, ConcatProperties
  <1>8. Len(a) + Len(b) = Len(s) - 1 BY <1>1, <1>3, <1>4
  <1>9. \A i \in 1..(Len(s) - 1) : c[i] = IF i < n THEN s[i] ELSE s[i + 1]
    <2> SUFFICES ASSUME NEW i \in 1..(Len(s) - 1) PROVE c[i] = IF i < n THEN s[i] ELSE s[i + 1]
      OBVIOUS
    <2>1. c[i] = IF i <= Len(a) THEN a[i] ELSE b[i - Len(a)] BY <1>7, <1>8
    <2>2. CASE i < n
      <3>1. i \in 1..(n - 1) /\ i <= Len(a) BY <1>1, <1>3, <2>2
      <3> QED BY <1>3, <2>1, <2>2, <3>1
    <2>3. CASE ~(i < n)
      <3>1. i - Len(a) \in 1..Len(b) /\ ~(i <= Len(a)) /\ n + (i - Len(a)) = i + 1
        BY <1>1, <1>3, <1>4, <2>3
      <3>2. b[i - Len(a)] = s[n + (i - Len(a))] BY <1>4, <3>1
      <3> QED BY <2>1, <2>3, <3>1, <3>2
    <2> QED BY <2>2, <2>3
  <1> QED BY <1>6, <1>7, <1>8, <1>9

\* Pruning drops some entries at the head.
LEMMA PrunedIsATail ==
  ASSUME NEW replay \in Seq(ReplayEntries), NEW t \in Nat
  PROVE  \E n \in 0..Len(replay) :
           /\ Pruned(replay, t) \in Seq(ReplayEntries) /\ Len(Pruned(replay, t)) = Len(replay) - n
           /\ \A i \in 1..Len(Pruned(replay, t)) : Pruned(replay, t)[i] = replay[n + i]
  <1>1. Len(replay) \in Nat /\ DOMAIN replay = 1..Len(replay) BY LenProperties
  <1>2. PICK fresh : fresh = {i \in DOMAIN replay : Fresh(replay[i], t)} OBVIOUS
  <1>a. PICK f : f = CHOOSE i \in fresh : \A j \in fresh : i <= j OBVIOUS
  <1>3. PICK head : head = IF fresh = {} THEN Len(replay) ELSE f - 1 OBVIOUS
  <1>4. head \in 0..Len(replay)
    <2>1. CASE fresh = {} BY <1>1, <1>3, <2>1
    <2>2. CASE fresh # {}
      <3>1. fresh \in SUBSET Nat /\ fresh \subseteq 1..Len(replay) BY <1>1, <1>2
      <3>2. \E i \in fresh : \A j \in fresh : i <= j BY <2>2, <3>1, LowestNumber
      <3>4. f \in fresh BY <3>2, <1>a
      <3>5. f \in 1..Len(replay) BY <3>1, <3>4
      <3>6. head = f - 1 BY <1>3, <2>2
      <3> QED BY <1>1, <3>5, <3>6
    <2> QED BY <2>1, <2>2
  <1>5. PICK tail : tail = SubSeq(replay, head + 1, Len(replay)) OBVIOUS
  <1>6. /\ tail \in Seq(ReplayEntries) /\ Len(tail) = Len(replay) - head
        /\ \A i \in 1..Len(tail) : tail[i] = replay[head + i]
    BY <1>4, <1>5, LaterPart
  <1>7. PICK over : over = IF Len(tail) >= MaxEntries THEN Len(tail) - MaxEntries + 1 ELSE 0
    OBVIOUS
  <1>8. over \in 0..Len(tail)
    <2>1. MaxEntries \in Nat \ {0} BY AdmissionAssumption DEF AdmissionAssumption
    <2>2. Len(tail) \in Nat BY <1>1, <1>4, <1>6
    <2> QED BY <1>7, <2>1, <2>2
  <1>9. PICK rest : rest = SubSeq(tail, over + 1, Len(tail)) OBVIOUS
  <1>10. /\ rest \in Seq(ReplayEntries) /\ Len(rest) = Len(tail) - over
         /\ \A i \in 1..Len(rest) : rest[i] = tail[over + i]
    BY <1>6, <1>8, <1>9, LaterPart
  <1>11. rest = Pruned(replay, t) BY <1>2, <1>a, <1>3, <1>5, <1>7, <1>9 DEF Pruned
  <1>12. PICK n : n = head + over OBVIOUS
  <1>13. n \in 0..Len(replay) /\ Len(rest) = Len(replay) - n
    BY <1>1, <1>4, <1>6, <1>8, <1>10, <1>12
  <1>14. \A i \in 1..Len(rest) : rest[i] = replay[n + i]
    <2> SUFFICES ASSUME NEW i \in 1..Len(rest) PROVE rest[i] = replay[n + i] OBVIOUS
    <2>1. over + i \in 1..Len(tail) /\ head + (over + i) = n + i
      BY <1>1, <1>4, <1>6, <1>8, <1>10, <1>12
    <2>2. tail[over + i] = replay[head + (over + i)] BY <1>6, <2>1
    <2>3. rest[i] = tail[over + i] BY <1>10
    <2> QED BY <2>1, <2>2, <2>3
  <1> QED BY <1>10, <1>11, <1>13, <1>14

\* A key that is recorded is listed once, and last; of the others nothing is changed.
LEMMA RecordedOnce ==
  ASSUME NEW replay \in Seq(ReplayEntries), ListedOnce(replay), NEW k \in AdmKeys, NEW t \in Nat
  PROVE  LET seen == recordSeen(replay, k, t)
         IN  /\ seen \in Seq(ReplayEntries) /\ ListedOnce(seen)
             /\ \E i \in 1..Len(seen) : seen[i].key = k
             /\ \A i \in 1..Len(seen) :
                  \/ seen[i].key = k /\ seen[i].at = t
                  \/ seen[i].key # k /\ \E j \in 1..Len(replay) : seen[i] = replay[j]
  <1>1. PICK kept : kept = Pruned(replay, t) OBVIOUS
  <1>2. PICK n \in 0..Len(replay) :
          /\ kept \in Seq(ReplayEntries) /\ Len(kept) = Len(replay) - n
          /\ \A i \in 1..Len(kept) : kept[i] = replay[n + i]
    BY <1>1, PrunedIsATail
  <1>3. Len(replay) \in Nat /\ Len(kept) \in Nat /\ DOMAIN kept = 1..Len(kept)
    BY <1>2, LenProperties
  <1>4. \A i \in 1..Len(kept) : n + i \in 1..Len(replay) BY <1>2, <1>3
  <1>5. \A i, j \in 1..Len(kept) : kept[i].key = kept[j].key => i = j
    <2> SUFFICES ASSUME NEW i \in 1..Len(kept), NEW j \in 1..Len(kept), kept[i].key = kept[j].key
                 PROVE  i = j
      OBVIOUS
    <2>1. kept[i] = replay[n + i] /\ kept[j] = replay[n + j] BY <1>2
    <2>2. n + i \in 1..Len(replay) /\ n + j \in 1..Len(replay) BY <1>4
    <2>3. n + i = n + j BY <2>1, <2>2 DEF ListedOnce
    <2> QED BY <1>2, <2>3
  <1>6. PICK stale : stale = {i \in DOMAIN kept : kept[i].key = k} OBVIOUS
  <1>7. PICK rest : rest = IF stale = {} THEN kept ELSE RemoveAt(kept, CHOOSE i \in stale : TRUE)
    BY Zenon
  <1>8. /\ rest \in Seq(ReplayEntries)
        /\ \A i \in 1..Len(rest) : rest[i].key # k /\ \E j \in 1..Len(replay) : rest[i] = replay[j]
        /\ \A i, j \in 1..Len(rest) : rest[i].key = rest[j].key => i = j
    <2>1. CASE stale = {}
      <3>1. rest = kept BY <1>7, <2>1
      <3>2. \A i \in 1..Len(kept) : kept[i].key # k BY <1>3, <1>6, <2>1
      <3>3. \A i \in 1..Len(kept) : \E j \in 1..Len(replay) : kept[i] = replay[j] BY <1>2, <1>4
      <3> QED BY <1>2, <1>5, <3>1, <3>2, <3>3
    <2>2. CASE stale # {}
      <3>1. PICK m : m = CHOOSE i \in stale : TRUE OBVIOUS
      <3>2. m \in stale BY <2>2, <3>1
      <3>3. m \in 1..Len(kept) /\ kept[m].key = k BY <1>3, <1>6, <3>2
      <3>4. /\ rest \in Seq(ReplayEntries) /\ Len(rest) = Len(kept) - 1
            /\ \A i \in 1..(Len(kept) - 1) : rest[i] = IF i < m THEN kept[i] ELSE kept[i + 1]
        BY <1>2, <1>7, <2>2, <3>1, <3>3, WithoutOne
      <3>5. \A i \in 1..Len(rest) :
              \E j \in 1..Len(kept) : rest[i] = kept[j] /\ j = (IF i < m THEN i ELSE i + 1) /\ j # m
        <4> SUFFICES ASSUME NEW i \in 1..Len(rest)
                     PROVE  \E j \in 1..Len(kept) :
                              rest[i] = kept[j] /\ j = (IF i < m THEN i ELSE i + 1) /\ j # m
          OBVIOUS
        <4>1. i \in 1..(Len(kept) - 1) BY <1>3, <3>4
        <4>2. CASE i < m
          <5>1. rest[i] = kept[i] /\ i \in 1..Len(kept) /\ i # m BY <1>3, <3>3, <3>4, <4>1, <4>2
          <5> QED BY <4>2, <5>1
        <4>3. CASE ~(i < m)
          <5>1. rest[i] = kept[i + 1] /\ i + 1 \in 1..Len(kept) /\ i + 1 # m
            BY <1>3, <3>3, <3>4, <4>1, <4>3
          <5> QED BY <4>3, <5>1
        <4> QED BY <4>2, <4>3
      <3>6. \A i \in 1..Len(rest) : rest[i].key # k /\ \E j \in 1..Len(replay) : rest[i] = replay[j]
        <4> SUFFICES ASSUME NEW i \in 1..Len(rest)
                     PROVE  rest[i].key # k /\ \E j \in 1..Len(replay) : rest[i] = replay[j]
          OBVIOUS
        <4>1. PICK j \in 1..Len(kept) : rest[i] = kept[j] /\ j # m BY <3>5
        <4>2. kept[j].key # k BY <1>5, <3>3, <4>1
        <4>3. kept[j] = replay[n + j] /\ n + j \in 1..Len(replay) BY <1>2, <1>4
        <4> QED BY <4>1, <4>2, <4>3
      <3>7. \A i, j \in 1..Len(rest) : rest[i].key = rest[j].key => i = j
        <4> SUFFICES ASSUME NEW i \in 1..Len(rest), NEW j \in 1..Len(rest), rest[i].key = rest[j].key
                     PROVE  i = j
          OBVIOUS
        <4>1. PICK a \in 1..Len(kept) : rest[i] = kept[a] /\ a = (IF i < m THEN i ELSE i + 1) BY <3>5
        <4>2. PICK b \in 1..Len(kept) : rest[j] = kept[b] /\ b = (IF j < m THEN j ELSE j + 1) BY <3>5
        <4>3. a = b BY <1>5, <4>1, <4>2
        <4>4. i \in Int /\ j \in Int /\ m \in Int BY <1>3, <3>3, <3>4
        <4> QED BY <4>1, <4>2, <4>3, <4>4
      <3> QED BY <3>4, <3>6, <3>7
    <2> QED BY <2>1, <2>2
  <1>9. PICK e : e = [key |-> k, at |-> t] OBVIOUS
  <1>10. e \in ReplayEntries /\ e.key = k /\ e.at = t BY <1>9 DEF ReplayEntries
  <1>11. PICK seen : seen = Append(rest, e) OBVIOUS
  <1>12. seen = recordSeen(replay, k, t) BY <1>1, <1>6, <1>7, <1>9, <1>11 DEF recordSeen
  <1>13. PICK l : l = Len(rest) OBVIOUS
  <1>14. l \in Nat BY <1>8, <1>13, LenProperties
  <1>15. /\ seen \in Seq(ReplayEntries) /\ Len(seen) = l + 1
         /\ \A i \in 1..l : seen[i] = rest[i]
         /\ seen[l + 1] = e
    BY <1>8, <1>10, <1>11, <1>13, AppendProperties
  <1>16. \A i \in 1..(l + 1) : i = l + 1 \/ i \in 1..l BY <1>14
  <1>a. \A i \in 1..l : rest[i].key # k BY <1>8, <1>13
  <1>17. \A i, j \in 1..(l + 1) : seen[i].key = seen[j].key => i = j
    <2> SUFFICES ASSUME NEW i \in 1..(l + 1), NEW j \in 1..(l + 1), seen[i].key = seen[j].key
                 PROVE  i = j
      OBVIOUS
    <2>1. CASE i \in 1..l /\ j \in 1..l BY <1>8, <1>13, <1>15, <2>1
    <2>2. CASE i = l + 1 /\ j \in 1..l BY <1>10, <1>15, <1>a, <2>2
    <2>3. CASE i \in 1..l /\ j = l + 1 BY <1>10, <1>15, <1>a, <2>3
    <2> QED BY <1>16, <2>1, <2>2, <2>3
  <1>18. \A i \in 1..(l + 1) :
           \/ seen[i].key = k /\ seen[i].at = t
           \/ seen[i].key # k /\ \E j \in 1..Len(replay) : seen[i] = replay[j]
    <2> SUFFICES ASSUME NEW i \in 1..(l + 1)
                 PROVE  \/ seen[i].key = k /\ seen[i].at = t
                        \/ seen[i].key # k /\ \E j \in 1..Len(replay) : seen[i] = replay[j]
      OBVIOUS
    <2>1. CASE i = l + 1 BY <1>10, <1>15, <2>1
    <2>2. CASE i \in 1..l
      <3>1. seen[i] = rest[i] /\ rest[i].key # k BY <1>15, <1>a, <2>2
      <3>2. \E j \in 1..Len(replay) : rest[i] = replay[j] BY <1>8, <1>13, <2>2
      <3> QED BY <3>1, <3>2
    <2> QED BY <1>16, <2>1, <2>2
  <1>19. ListedOnce(seen) BY <1>15, <1>17 DEF ListedOnce
  <1>20. \E i \in 1..Len(seen) : seen[i].key = k
    <2>1. l + 1 \in 1..Len(seen) BY <1>14, <1>15
    <2> QED BY <1>10, <1>15, <2>1
  <1> QED BY <1>12, <1>15, <1>18, <1>19, <1>20

\* Whatever changes a score keeps a quarantine that is in force and not outgrown, and
\* time alone keeps every quarantine.
LEMMA ReputationKept ==
  ASSUME NEW r, Reputed(r), NEW t \in Nat
  PROVE  /\ Reputed(decayReputation(r, t)) /\ decayReputation(r, t).until = r.until
         /\ \A delta : /\ Reputed(applyReputationDelta(r, delta, t))
                       /\ StaysQuarantined(r, applyReputationDelta(r, delta, t), t)
  <1>1. Reputed(decayReputation(r, t)) /\ decayReputation(r, t).until = r.until
    <2>1. PICK x : x = Clamp(LET lost == (t - r.at) * DecayPerTick
                             IN  IF r.score > lost THEN r.score - lost
                                 ELSE IF r.score < -lost THEN r.score + lost ELSE 0)
      BY Zenon
    <2>2. PICK new : new = [r EXCEPT !.score = x, !.at = t] OBVIOUS
    <2>3. CASE t <= r.at BY <2>3 DEF decayReputation, Reputed
    <2>4. CASE ~(t <= r.at)
      <3>1. decayReputation(r, t) = new BY <2>1, <2>2, <2>4, Zenon DEF decayReputation
      <3>2. DOMAIN r = {"score", "at", "until"} /\ r.until \in Int BY DEF Reputed
      <3>3. DOMAIN new = {"score", "at", "until"} /\ new.until = r.until BY <2>2, <3>2
      <3>4. new = [score |-> new.score, at |-> new.at, until |-> new.until] BY <2>2, <3>2, <3>3
      <3> QED BY <3>1, <3>2, <3>3, <3>4 DEF Reputed
    <2> QED BY <2>3, <2>4
  <1>2. ASSUME NEW delta
        PROVE  /\ Reputed(applyReputationDelta(r, delta, t))
               /\ StaysQuarantined(r, applyReputationDelta(r, delta, t), t)
    <2>1. PICK score : score = Clamp(decayReputation(r, t).score + delta) OBVIOUS
    <2>2. PICK after : after = QuarantineAfter(r.until, score, t) OBVIOUS
    <2>3. PICK new : new = applyReputationDelta(r, delta, t) OBVIOUS
    <2>4. new = [score |-> score, at |-> t, until |-> after]
      BY <2>1, <2>2, <2>3 DEF applyReputationDelta
    <2>5. r.until \in Int /\ MaxQuarantine \in Nat /\ NoTime \in Int
      BY AdmissionAssumption DEF AdmissionAssumption, Reputed, NoTime
    <2>6. after \in Int BY <2>2, <2>5 DEF QuarantineAfter
    <2>7. isQuarantined(r, t) => after = r.until \/ score >= RecoveryThreshold
      BY <2>2, <2>5 DEF QuarantineAfter, isQuarantined
    <2> QED BY <2>3, <2>4, <2>6, <2>7 DEF Reputed, StaysQuarantined
  <1> QED BY <1>1, <1>2

\* What the engine makes of a state keeps its shape and its quarantines, and records
\* the key unless it is a duplicate.
LEMMA EngineSettles ==
  ASSUME NEW s, StateShape(s), NEW k \in AdmKeys, NEW t \in Nat,
         NEW j, j.verdict = AdmissionChecks(s, k, t).verdict, j.next = AdmissionChecks(s, k, t).next,
         j.key = k, j.at = t
  PROVE  Settles(s, j, t)
  <1>1. PICK p, rep, bucket, replay, decayed, rl :
          /\ p = PeerOf[k] /\ rep = s.rep[p] /\ bucket = BucketAt(s.bucket[p], t)
          /\ replay = recordSeen(s.replay, k, t) /\ decayed = decayReputation(rep, t)
          /\ rl = tryConsume(bucket, t, RateLimit(p))
    OBVIOUS
  <1>2. p \in Peers /\ Reputed(rep)
    BY <1>1, AdmissionAssumption DEF AdmissionAssumption, StateShape
  <1>3. /\ Reputed(decayed) /\ decayed.until = rep.until
        /\ \A delta : Reputed(applyReputationDelta(rep, delta, t))
                      /\ StaysQuarantined(rep, applyReputationDelta(rep, delta, t), t)
        /\ \A delta : Reputed(applyReputationDelta(decayed, delta, t))
    BY <1>1, <1>2, ReputationKept
  <1>4. PICK checks : checks = AdmissionChecks(s, k, t) OBVIOUS
  <1>5. \E v, r, b, rp :
          /\ checks = Outcome(v, s, p, r, b, rp)
          /\ Reputed(r) /\ StaysQuarantined(rep, r, t)
          /\ \/ v = "drop-duplicate" /\ rp = s.replay
             \/ ~IsDuplicate(s.replay, k, t) /\ rp = replay
    <2>1. CASE IsDuplicate(s.replay, k, t)
      <3>1. checks = Outcome("drop-duplicate", s, p, rep, bucket, s.replay)
        BY <1>1, <1>4, <2>1 DEF AdmissionChecks
      <3>2. StaysQuarantined(rep, rep, t) BY DEF StaysQuarantined
      <3> QED BY <1>2, <3>1, <3>2
    <2>2. CASE ~IsDuplicate(s.replay, k, t) /\ FlawOf[k] # "none"
      <3>1. PICK r : r = applyReputationDelta(rep, -Penalty[FlawOf[k]], t) OBVIOUS
      <3>2. checks = Outcome("reject", s, p, r, bucket, replay)
        BY <1>1, <1>4, <2>2, <3>1 DEF AdmissionChecks
      <3> QED BY <1>3, <2>2, <3>1, <3>2
    <2>3. CASE ~IsDuplicate(s.replay, k, t) /\ FlawOf[k] = "none" /\ isQuarantined(decayed, t)
      <3>1. checks = Outcome("quarantined", s, p, decayed, bucket, replay)
        BY <1>1, <1>4, <2>3 DEF AdmissionChecks
      <3>2. StaysQuarantined(rep, decayed, t) BY <1>3 DEF StaysQuarantined
      <3> QED BY <1>3, <2>3, <3>1, <3>2
    <2>4. CASE ~IsDuplicate(s.replay, k, t) /\ FlawOf[k] = "none" /\ ~isQuarantined(decayed, t)
      <3>1. ~isQuarantined(rep, t) BY <1>3, <2>4 DEF isQuarantined
      <3>2. \A r : StaysQuarantined(rep, r, t) BY <3>1 DEF StaysQuarantined
      <3>3. CASE ~rl.allowed
        <4>1. PICK r : r = applyReputationDelta(decayed, -Penalty["rate"], t) OBVIOUS
        <4>2. checks = Outcome("rate-limit", s, p, r, rl.bucket, replay)
          BY <1>1, <1>4, <2>4, <3>3, <4>1 DEF AdmissionChecks
        <4> QED BY <1>3, <2>4, <3>2, <4>1, <4>2
      <3>4. CASE rl.allowed
        <4>1. PICK r : r = applyReputationDelta(decayed, 1, t) OBVIOUS
        <4>2. checks = Outcome("accept", s, p, r, rl.bucket, replay)
          BY <1>1, <1>4, <2>4, <3>4, <4>1 DEF AdmissionChecks
        <4> QED BY <1>3, <2>4, <3>2, <4>1, <4>2
      <3> QED BY <3>3, <3>4
    <2> QED BY <2>1, <2>2, <2>3, <2>4
  <1>6. PICK v, r, b, rp :
          /\ checks = Outcome(v, s, p, r, b, rp)
          /\ Reputed(r) /\ StaysQuarantined(rep, r, t)
          /\ \/ v = "drop-duplicate" /\ rp = s.replay
             \/ ~IsDuplicate(s.replay, k, t) /\ rp = replay
    BY <1>5
  <1>7. PICK next : next = checks.next OBVIOUS
  <1>8. checks.verdict = v /\ next = [replay |-> rp, rep |-> [s.rep EXCEPT ![p] = r],
                                      bucket |-> [s.bucket EXCEPT ![p] = b]]
    BY <1>6, <1>7 DEF Outcome
  <1>9. /\ next.replay = rp
        /\ DOMAIN next.rep = Peers
        /\ next.rep[p] = r
        /\ \A q \in Peers : q # p => next.rep[q] = s.rep[q]
        /\ next = [replay |-> next.replay, rep |-> next.rep, bucket |-> next.bucket]
    BY <1>2, <1>8 DEF StateShape
  <1>10. rp \in Seq(ReplayEntries) /\ ListedOnce(rp)
    BY <1>1, <1>6, RecordedOnce DEF StateShape
  <1>11. \A q \in Peers : Reputed(next.rep[q]) /\ StaysQuarantined(s.rep[q], next.rep[q], t)
    <2> SUFFICES ASSUME NEW q \in Peers
                 PROVE  Reputed(next.rep[q]) /\ StaysQuarantined(s.rep[q], next.rep[q], t)
      OBVIOUS
    <2>1. CASE q = p BY <1>1, <1>6, <1>9, <2>1
    <2>2. CASE q # p BY <1>9, <2>2 DEF StateShape, StaysQuarantined
    <2> QED BY <2>1, <2>2
  <1>12. StateShape(next) BY <1>9, <1>10, <1>11 DEF StateShape
  <1> QED BY <1>1, <1>4, <1>6, <1>7, <1>8, <1>9, <1>11, <1>12 DEF Settles

\* The gateway that takes over what a handling came to knows what it admitted, and
\* admits nothing again.
LEMMA ConcludingKnows ==
  ASSUME AloneState, admNow \in Nat, ~raced, NEW j, Settles(state, j, admNow),
         \A k \in AdmKeys : lastAdmitted[k] <= j.at,
         Concludes(j), UNCHANGED <<admNow, running>>
  PROVE  AloneState'
  <1>1. /\ j.key \in AdmKeys /\ j.at \in Nat /\ j.at <= admNow
        /\ StateShape(j.next) /\ state' = j.next
    BY DEF Settles, Concludes
  <1>2. PICK admitted, again :
          /\ admitted = (j.verdict = "accept" /\ ~j.overlay)
          /\ again = (lastAdmitted[j.key] # NoTime /\ j.at < lastAdmitted[j.key] + ReplayTtl)
          /\ lastAdmitted' = [k \in AdmKeys |->
               IF admitted /\ k = j.key THEN j.at
               ELSE IF ~raced /\ ~Knows(j.next, k) THEN NoTime
               ELSE lastAdmitted[k]]
          /\ readmitted' = IF admitted /\ again THEN readmitted \cup {j.key} ELSE readmitted
    BY Zenon DEF Concludes
  <1>3. PICK old, new : old = state.replay /\ new = j.next.replay OBVIOUS
  <1>4. /\ old \in Seq(ReplayEntries) /\ ListedOnce(old)
        /\ new \in Seq(ReplayEntries) /\ ListedOnce(new)
    BY <1>1, <1>3 DEF AloneState, StateShape
  <1>5. /\ DOMAIN old = 1..Len(old) /\ DOMAIN new = 1..Len(new)
        /\ \A i \in 1..Len(old) : old[i].at \in Nat
        /\ \A i \in 1..Len(new) : new[i].at \in Nat
    <2>1. DOMAIN old = 1..Len(old) /\ DOMAIN new = 1..Len(new) BY <1>4, LenProperties
    <2>2. \A i \in 1..Len(old) : old[i] \in ReplayEntries BY <1>4, ElementOfSeq
    <2>3. \A i \in 1..Len(new) : new[i] \in ReplayEntries BY <1>4, ElementOfSeq
    <2>4. \A e \in ReplayEntries : e.at \in Nat BY DEF ReplayEntries
    <2> QED BY <2>1, <2>2, <2>3, <2>4
  <1>6. \/ j.verdict = "drop-duplicate" /\ new = old
        \/ /\ ~IsDuplicate(old, j.key, j.at)
           /\ \E i \in 1..Len(new) : new[i].key = j.key
           /\ \A i \in 1..Len(new) :
                \/ new[i].key = j.key /\ new[i].at = j.at
                \/ new[i].key # j.key /\ \E m \in 1..Len(old) : new[i] = old[m]
    <2>1. CASE ~IsDuplicate(old, j.key, j.at) /\ new = recordSeen(old, j.key, j.at)
      BY <1>1, <1>4, <2>1, RecordedOnce
    <2> QED BY <1>3, <2>1 DEF Settles
  <1>7. \A k \in AdmKeys :
          \/ lastAdmitted[k] = NoTime
          \/ (/\ lastAdmitted[k] \in Nat /\ lastAdmitted[k] <= admNow
              /\ \E m \in 1..Len(old) : old[m].key = k /\ old[m].at >= lastAdmitted[k])
    BY <1>3, Zenon DEF AloneState, Remembers
  <1>8. ~(admitted /\ again)
    <2> SUFFICES ASSUME admitted, again PROVE FALSE OBVIOUS
    <2>1. lastAdmitted[j.key] # NoTime /\ j.at < lastAdmitted[j.key] + ReplayTtl BY <1>2
    <2>2. PICK m \in 1..Len(old) :
            lastAdmitted[j.key] \in Nat /\ old[m].key = j.key /\ old[m].at >= lastAdmitted[j.key]
      BY <1>1, <1>7, <2>1
    <2>3. ReplayTtl \in Nat BY AdmissionAssumption DEF AdmissionAssumption
    <2>4. old[m].at > j.at - ReplayTtl BY <1>1, <1>5, <2>1, <2>2, <2>3
    <2>5. IsDuplicate(old, j.key, j.at) BY <1>5, <2>2, <2>4 DEF IsDuplicate, Fresh
    <2>6. j.verdict # "drop-duplicate" BY <1>2
    <2> QED BY <1>6, <2>5, <2>6
  <1>9. ASSUME NEW k \in AdmKeys
        PROVE  \/ lastAdmitted'[k] = NoTime
               \/ (/\ lastAdmitted'[k] \in Nat /\ lastAdmitted'[k] <= admNow
                   /\ \E i \in 1..Len(new) : new[i].key = k /\ new[i].at >= lastAdmitted'[k])
    <2>1. CASE admitted /\ k = j.key
      <3>1. lastAdmitted'[k] = j.at BY <1>2, <2>1
      <3>2. j.verdict # "drop-duplicate" BY <1>2, <2>1
      <3>3. PICK i \in 1..Len(new) : new[i].key = j.key /\ new[i].at = j.at BY <1>6, <3>2
      <3>4. new[i].at >= lastAdmitted'[k] BY <1>1, <3>1, <3>3
      <3> QED BY <1>1, <2>1, <3>1, <3>3, <3>4
    <2>2. CASE ~(admitted /\ k = j.key) /\ ~Knows(j.next, k) BY <1>2, <2>2
    <2>3. CASE ~(admitted /\ k = j.key) /\ Knows(j.next, k) /\ lastAdmitted[k] # NoTime
      <3>1. lastAdmitted'[k] = lastAdmitted[k] BY <1>2, <2>3
      <3>2. PICK m \in 1..Len(old) :
              /\ lastAdmitted[k] \in Nat /\ lastAdmitted[k] <= admNow
              /\ old[m].key = k /\ old[m].at >= lastAdmitted[k]
        BY <1>7, <2>3
      <3>3. PICK i \in 1..Len(new) : new[i].key = k BY <1>3, <1>5, <2>3 DEF Knows
      <3>4. CASE new = old BY <3>1, <3>2, <3>4
      <3>5. CASE k = j.key /\ new[i].at = j.at BY <3>1, <3>2, <3>3, <3>5
      <3>6. CASE \E n \in 1..Len(old) : new[i] = old[n]
        <4>1. PICK n \in 1..Len(old) : new[i] = old[n] BY <3>6
        <4>2. n = m BY <1>4, <3>2, <3>3, <4>1 DEF ListedOnce
        <4> QED BY <3>1, <3>2, <3>3, <4>1, <4>2
      <3> QED BY <1>6, <3>3, <3>4, <3>5, <3>6
    <2>4. CASE ~(admitted /\ k = j.key) /\ lastAdmitted[k] = NoTime BY <1>2, <2>4
    <2> QED BY <2>1, <2>2, <2>3, <2>4
  <1>10. readmitted' = {} BY <1>2, <1>8 DEF AloneState
  <1> QED BY <1>1, <1>3, <1>9, <1>10 DEF AloneState, Remembers

\* No handling is in progress.
LEMMA NoneInProgress ==
  ASSUME shared' = {}, \A g \in Handlers : phase'[g] = "idle" /\ fd'[g] = "none"
  PROVE  AloneHandling'
  BY DEF AloneHandling

\* The empty state has the shape of one, and knows no key.
LEMMA EmptyShape == StateShape(EmptyState)
  <1>1. PICK s : s = EmptyState OBVIOUS
  <1>2. /\ s = [replay |-> s.replay, rep |-> s.rep, bucket |-> s.bucket]
        /\ s.replay = <<>> /\ s.rep = [p \in Peers |-> createReputation(0)]
    BY <1>1 DEF EmptyState
  <1>3. \A p \in Peers : Reputed(s.rep[p])
    BY <1>2 DEF createReputation, Reputed, NoTime
  <1>4. s.replay \in Seq(ReplayEntries) /\ Len(s.replay) = 0 BY <1>2, EmptySeq
  <1>5. ListedOnce(s.replay) BY <1>4 DEF ListedOnce
  <1> QED BY <1>1, <1>2, <1>3, <1>4, <1>5 DEF StateShape

\* The gateway starts alone.
LEMMA AdmissionStarts == ASSUME Init PROVE AdmInv
  <1>1. AloneState
    <2>1. \A k \in AdmKeys : lastAdmitted[k] = NoTime BY DEF Init
    <2>2. running /\ readmitted = {} /\ state = EmptyState BY DEF Init
    <2> QED BY <2>1, <2>2, EmptyShape DEF AloneState
  <1>2. AloneFile BY DEF Init, AloneFile
  <1>3. AloneHandling BY DEF Init, AloneHandling
  <1> QED BY <1>1, <1>2, <1>3 DEF Init, AdmInv, Alone

\* What changes neither the state nor a handling.
LEMMA NothingMoves ==
  ASSUME AdmInv, ~raced, admNow' \in Nat, admNow <= admNow',
         UNCHANGED <<state, phase, job, fd, shared, temp, file, running, lastAdmitted, readmitted>>
  PROVE  Alone'
  <1>1. Alone /\ admNow \in Nat BY DEF AdmInv
  <1>2. AloneState' BY <1>1 DEF Alone, AloneState, Remembers
  <1>3. AloneFile' BY <1>1 DEF Alone, AloneFile
  <1>4. \A h \in Handlers : phase[h] # "idle" => Settles(state, job[h], admNow')
    <2> SUFFICES ASSUME NEW h \in Handlers, phase[h] # "idle" PROVE Settles(state, job[h], admNow')
      OBVIOUS
    <2>1. Settles(state, job[h], admNow) BY <1>1 DEF Alone, AloneHandling
    <2>2. job[h].at <= admNow' BY <1>1, <2>1 DEF Settles
    <2> QED BY <2>1, <2>2 DEF Settles
  <1>5. AloneHandling' BY <1>1, <1>4 DEF Alone, AloneHandling
  <1> QED BY <1>2, <1>3, <1>5 DEF Alone

\* A delivery that is decided while none is in progress is decided from what the
\* gateway knows.
LEMMA DecideAlone ==
  ASSUME AdmInv, ~raced', NEW h \in Handlers, NEW k \in AdmKeys, NEW overlay \in BOOLEAN,
         Decide(h, k, overlay)
  PROVE  Alone'
  <1>1. PICK checks : checks = AdmissionChecks(state, k, admNow) OBVIOUS
  <1>2. PICK j : j = [verdict |-> checks.verdict, next |-> checks.next, key |-> k,
                      at |-> admNow, overlay |-> overlay]
    OBVIOUS
  <1>3. /\ IF HasStore
           THEN /\ phase' = [phase EXCEPT ![h] = "saving"]
                /\ job' = [job EXCEPT ![h] = j]
                /\ raced' = (raced \/ ~Idle)
                /\ UNCHANGED <<state, lastAdmitted, readmitted>>
           ELSE /\ Concludes(j)
                /\ UNCHANGED <<phase, job, raced>>
        /\ UNCHANGED <<admNow, advisory, disk, running, upsets>>
    BY <1>1, <1>2 DEF Decide
  <1>4. ~raced /\ Alone /\ admNow \in Nat BY <1>3 DEF AdmInv
  <1>5. Settles(state, j, admNow)
    <2>1. j.verdict = checks.verdict /\ j.next = checks.next /\ j.key = k /\ j.at = admNow BY <1>2
    <2>2. StateShape(state) BY <1>4 DEF Alone, AloneState
    <2> QED BY <1>1, <1>4, <2>1, <2>2, EngineSettles
  <1>6. \A q \in AdmKeys : lastAdmitted[q] <= j.at
    <2>1. j.at = admNow BY <1>2
    <2> QED BY <1>4, <2>1 DEF Alone, AloneState, NoTime
  <1>7. CASE HasStore
    <2>1. \A g \in Handlers : phase[g] = "idle" BY <1>3, <1>7 DEF Idle
    <2>2. \A g \in Handlers : fd[g] = "none" BY <1>4, <2>1 DEF Alone, AloneHandling
    <2>3. /\ phase'[h] = "saving" /\ job'[h] = j
          /\ \A g \in Handlers : g # h => phase'[g] = "idle"
          /\ fd' = fd /\ shared' = shared /\ temp' = temp /\ file' = file
          /\ state' = state /\ lastAdmitted' = lastAdmitted /\ readmitted' = readmitted
          /\ running' = running /\ admNow' = admNow
      BY <1>3, <1>7, <2>1 DEF AdmInv, disk
    <2>4. AloneState' BY <1>4, <2>3 DEF Alone, AloneState, Remembers
    <2>5. AloneFile' BY <1>4, <2>3 DEF Alone, AloneFile
    <2>6. AloneHandling' BY <1>4, <1>5, <1>6, <1>7, <2>2, <2>3 DEF Alone, AloneHandling
    <2> QED BY <2>4, <2>5, <2>6 DEF Alone
  <1>8. CASE ~HasStore
    <2>1. \A g \in Handlers : phase[g] = "idle" /\ fd[g] = "none"
      BY <1>4, <1>8 DEF Alone, AloneHandling
    <2>2. /\ Concludes(j) /\ phase' = phase /\ fd' = fd /\ shared' = shared /\ file' = file
          /\ UNCHANGED <<admNow, running>>
      BY <1>3, <1>8 DEF disk
    <2>3. AloneState' BY <1>4, <1>5, <1>6, <2>2, ConcludingKnows DEF Alone
    <2>4. AloneFile' BY <1>4, <1>8, <2>2 DEF Alone, AloneFile
    <2>5. shared' = {} BY <1>4, <2>2 DEF Alone, AloneHandling
    <2>6. AloneHandling' BY <2>1, <2>2, <2>5, NoneInProgress
    <2> QED BY <2>3, <2>4, <2>6 DEF Alone
  <1> QED BY <1>7, <1>8

\* Of a handling in progress, all the others are idle.
LEMMA OthersIdle ==
  ASSUME Alone, NEW h \in Handlers, phase[h] # "idle"
  PROVE  \A g \in Handlers : g # h => phase[g] = "idle" /\ fd[g] = "none"
  BY DEF Alone, AloneHandling

\* The one handling opens the temporary file and writes it whole.
LEMMA WritingAlone ==
  ASSUME AdmInv, ~raced', NEW h \in Handlers, OpenTemp(h) \/ WriteDone(h)
  PROVE  Alone'
  <1>1. /\ UNCHANGED <<admNow, state, job, running, lastAdmitted, readmitted, raced>>
        /\ phase[h] # "idle"
    BY DEF OpenTemp, WriteDone, history
  <1>2. Alone /\ admNow \in Nat /\ ~raced BY <1>1 DEF AdmInv
  <1>3. AloneState' BY <1>1, <1>2 DEF Alone, AloneState, Remembers
  <1>4. \A g \in Handlers : g # h => phase[g] = "idle" /\ fd[g] = "none"
    BY <1>1, <1>2, OthersIdle
  <1>5. /\ HasStore /\ Settles(state, job[h], admNow)
        /\ \A k \in AdmKeys : lastAdmitted[k] <= job[h].at
        /\ shared = {}
    BY <1>1, <1>2 DEF Alone, AloneHandling
  <1>6. CASE OpenTemp(h)
    <2>1. PICK others : others = {g \in Handlers \ {h} : phase[g] = "writing" /\ fd[g] = "temp"}
      OBVIOUS
    <2>2. others = {} BY <1>4, <2>1
    <2>3. /\ phase' = [phase EXCEPT ![h] = "writing"] /\ fd' = [fd EXCEPT ![h] = "temp"]
          /\ shared' = shared /\ file' = file
      BY <1>6, <2>1, <2>2 DEF OpenTemp
    <2>4. /\ phase'[h] = "writing" /\ fd'[h] = "temp"
          /\ \A g \in Handlers : g # h => phase'[g] = "idle" /\ fd'[g] = "none"
      BY <1>4, <2>3 DEF AdmInv
    <2>5. AloneHandling' BY <1>1, <1>5, <2>3, <2>4 DEF AloneHandling
    <2>6. AloneFile' BY <1>1, <1>2, <2>3 DEF Alone, AloneFile
    <2> QED BY <1>3, <2>5, <2>6 DEF Alone
  <1>7. CASE WriteDone(h)
    <2>1. fd[h] = "temp" BY <1>2, <1>7 DEF WriteDone, Alone, AloneHandling
    <2>2. /\ phase' = [phase EXCEPT ![h] = "written"] /\ fd' = [fd EXCEPT ![h] = "none"]
          /\ temp' = job[h].next /\ file' = file /\ shared' = {}
      BY <1>5, <1>7, <2>1 DEF WriteDone
    <2>3. /\ phase'[h] = "written" /\ fd'[h] = "none"
          /\ \A g \in Handlers : g # h => phase'[g] = "idle" /\ fd'[g] = "none"
      BY <1>4, <2>2 DEF AdmInv
    <2>4. AloneHandling' BY <1>1, <1>5, <2>2, <2>3 DEF AloneHandling
    <2>5. AloneFile' BY <1>1, <1>2, <2>2 DEF Alone, AloneFile
    <2> QED BY <1>3, <2>4, <2>5 DEF Alone
  <1> QED BY <1>6, <1>7

\* The rename makes the snapshot that of the state that the gateway takes over.
LEMMA RenameAlone ==
  ASSUME AdmInv, ~raced', NEW h \in Handlers, Rename(h)
  PROVE  Alone'
  <1>1. /\ UNCHANGED <<admNow, running, raced, shared>>
        /\ phase[h] = "written" /\ file' = temp
        /\ fd' = [g \in Handlers |-> CASE fd[g] = "temp" -> "file"
                                       [] fd[g] = "file" -> "none"
                                       [] OTHER -> fd[g]]
        /\ phase' = [phase EXCEPT ![h] = "idle"]
        /\ Concludes(job[h])
    BY DEF Rename
  <1>2. Alone /\ admNow \in Nat /\ ~raced BY <1>1 DEF AdmInv
  <1>3. \A g \in Handlers : g # h => phase[g] = "idle" /\ fd[g] = "none"
    BY <1>1, <1>2, OthersIdle
  <1>4. /\ HasStore /\ Settles(state, job[h], admNow) /\ temp = job[h].next
        /\ \A k \in AdmKeys : lastAdmitted[k] <= job[h].at
        /\ fd[h] = "none" /\ shared = {}
    BY <1>1, <1>2 DEF Alone, AloneHandling
  <1>5. AloneState' BY <1>1, <1>2, <1>4, ConcludingKnows DEF Alone
  <1>6. AloneFile' BY <1>1, <1>4 DEF AloneFile, Concludes, Settles
  <1>7. \A g \in Handlers : phase'[g] = "idle" /\ fd'[g] = "none"
    <2>1. \A g \in Handlers : fd[g] = "none" BY <1>3, <1>4
    <2>2. \A g \in Handlers : fd'[g] = "none" BY <1>1, <2>1
    <2>3. \A g \in Handlers : phase'[g] = "idle" BY <1>1, <1>3 DEF AdmInv
    <2> QED BY <2>2, <2>3
  <1>8. AloneHandling' BY <1>1, <1>4, <1>7, NoneInProgress
  <1> QED BY <1>5, <1>6, <1>8 DEF Alone

\* A handling that ends without a rename leaves all as it was.
LEMMA AbandonsAlone ==
  ASSUME AdmInv, ~raced', NEW h \in Handlers, phase[h] # "idle", Abandons(h)
  PROVE  Alone'
  <1>1. /\ UNCHANGED <<admNow, state, running, file, lastAdmitted, readmitted, raced>>
        /\ phase' = [phase EXCEPT ![h] = "idle"] /\ fd' = [fd EXCEPT ![h] = "none"]
        /\ shared' = shared \ {h}
    BY DEF Abandons, history
  <1>2. Alone /\ admNow \in Nat /\ ~raced BY <1>1 DEF AdmInv
  <1>3. \A g \in Handlers : g # h => phase[g] = "idle" /\ fd[g] = "none" BY <1>2, OthersIdle
  <1>4. \A g \in Handlers : phase'[g] = "idle" /\ fd'[g] = "none" BY <1>1, <1>3 DEF AdmInv
  <1>5. shared' = {} BY <1>1, <1>2 DEF Alone, AloneHandling
  <1>6. AloneHandling' BY <1>4, <1>5, NoneInProgress
  <1>7. AloneState' BY <1>1, <1>2 DEF Alone, AloneState, Remembers
  <1>8. AloneFile' BY <1>1, <1>2 DEF Alone, AloneFile
  <1> QED BY <1>6, <1>7, <1>8 DEF Alone

\* What the operator does to a peer leaves the cache alone.
LEMMA OperatorAlone ==
  ASSUME AdmInv, ~raced', NEW p \in Peers, quarantinePeer(p, MaxQuarantine) \/ liftQuarantine(p)
  PROVE  Alone'
  <1>1. PICK r : /\ Reputed(r) /\ state' = [state EXCEPT !.rep[p] = r]
                 /\ raced' = (raced \/ ~Idle)
                 /\ UNCHANGED <<admNow, phase, job, disk, running, lastAdmitted, readmitted>>
    <2>0. admNow \in Nat /\ MaxQuarantine \in Nat /\ Least(MaxQuarantine, MaxQuarantine) = MaxQuarantine
      BY AdmissionAssumption DEF AdmissionAssumption, AdmInv, Least
    <2>1. CASE quarantinePeer(p, MaxQuarantine)
      <3>1. PICK r : r = [score |-> QuarantineThreshold, at |-> admNow,
                          until |-> admNow + Least(MaxQuarantine, MaxQuarantine)]
        OBVIOUS
      <3>2. Reputed(r) BY <2>0, <3>1 DEF Reputed
      <3> QED BY <2>1, <3>1, <3>2 DEF quarantinePeer
    <2>2. CASE liftQuarantine(p)
      <3>1. Reputed(createReputation(admNow)) BY DEF Reputed, createReputation, NoTime
      <3> QED BY <2>2, <3>1 DEF liftQuarantine
    <2> QED BY <2>1, <2>2
  <1>2. Alone /\ ~raced /\ \A g \in Handlers : phase[g] = "idle" BY <1>1 DEF AdmInv, Idle
  <1>3. state'.replay = state.replay /\ StateShape(state')
    <2>1. StateShape(state) BY <1>2 DEF Alone, AloneState
    <2>2. PICK a, b, c : state = [replay |-> a, rep |-> b, bucket |-> c] BY <2>1 DEF StateShape
    <2>3. PICK d : d = [b EXCEPT ![p] = r] OBVIOUS
    <2>4. state' = [replay |-> a, rep |-> d, bucket |-> c] BY <1>1, <2>2, <2>3
    <2>5. DOMAIN d = Peers /\ \A q \in Peers : Reputed(d[q])
      <3>1. DOMAIN b = Peers /\ \A q \in Peers : Reputed(b[q]) BY <2>1, <2>2 DEF StateShape
      <3>2. DOMAIN d = Peers /\ \A q \in Peers : d[q] = IF q = p THEN r ELSE b[q] BY <2>3, <3>1
      <3> QED BY <1>1, <3>1, <3>2
    <2>6. a \in Seq(ReplayEntries) /\ ListedOnce(a) BY <2>1, <2>2 DEF StateShape
    <2> QED BY <2>2, <2>4, <2>5, <2>6 DEF StateShape
  <1>4. AloneState' BY <1>1, <1>2, <1>3 DEF Alone, AloneState, Remembers
  <1>5. AloneFile' BY <1>1, <1>2, <1>3 DEF Alone, AloneFile, disk
  <1>6. \A g \in Handlers : phase'[g] = "idle" /\ fd'[g] = "none"
    BY <1>1, <1>2 DEF Alone, AloneHandling, disk
  <1>7. shared' = {} BY <1>1, <1>2 DEF Alone, AloneHandling, disk
  <1>8. AloneHandling' BY <1>6, <1>7, NoneInProgress
  <1> QED BY <1>4, <1>5, <1>8 DEF Alone

\* A gateway that starts again knows what the one before it knew, or nothing has been
\* admitted that it should know.
LEMMA RestartAlone ==
  ASSUME AdmInv, ~raced', Restart
  PROVE  Alone'
  <1>1. /\ UNCHANGED <<admNow, file, readmitted, raced>>
        /\ \A g \in Handlers : phase'[g] = "idle" /\ fd'[g] = "none"
        /\ shared' = {}
        /\ running' = (file # Torn)
        /\ StartsWith(IF file \in {NoFile, Torn} THEN EmptyState ELSE file)
    BY DEF Restart
  <1>2. Alone /\ ~raced BY <1>1 DEF AdmInv
  <1>3. NoFile # Torn /\ \A s : StateShape(s) => s # Torn
    <2>1. DOMAIN Torn = {"lacks"} /\ Torn["lacks"] = "end" BY DEF Torn
    <2>2. NoFile["lacks"] = "file" BY DEF NoFile
    <2>3. \A s : StateShape(s) => "replay" \in DOMAIN s
      <3> SUFFICES ASSUME NEW s, StateShape(s) PROVE "replay" \in DOMAIN s OBVIOUS
      <3>1. PICK a, b, c : s = [replay |-> a, rep |-> b, bucket |-> c] BY DEF StateShape
      <3> QED BY <3>1
    <2> QED BY <2>1, <2>2, <2>3
  <1>4. file # Torn BY <1>2, <1>3 DEF Alone, AloneFile
  <1>5. PICK s : s = IF file \in {NoFile, Torn} THEN EmptyState ELSE file OBVIOUS
  <1>6. /\ state' = s
        /\ \A k \in AdmKeys : lastAdmitted'[k] = IF s = EmptyState THEN NoTime ELSE lastAdmitted[k]
    BY <1>1, <1>5 DEF StartsWith
  <1>7. \/ s = EmptyState /\ file = NoFile
        \/ s = file /\ file # NoFile
    BY <1>4, <1>5
  <1>8. AloneHandling' BY <1>1, NoneInProgress
  <1>9. CASE s = EmptyState /\ file = NoFile
    <2>1. AloneState' BY <1>1, <1>2, <1>4, <1>6, <1>9, EmptyShape DEF Alone, AloneState
    <2>2. AloneFile' BY <1>1, <1>9 DEF AloneFile
    <2> QED BY <1>8, <2>1, <2>2 DEF Alone
  <1>10. CASE s = file /\ file # NoFile
    <2>1. HasStore /\ StateShape(file) /\ file.replay = state.replay BY <1>2, <1>10 DEF Alone, AloneFile
    <2>2. AloneState'
      <3>1. running' /\ readmitted' = {} BY <1>1, <1>2, <1>4 DEF Alone, AloneState
      <3>2. StateShape(state') /\ state'.replay = state.replay BY <1>6, <1>10, <2>1
      <3>3. \A k \in AdmKeys : lastAdmitted'[k] = NoTime \/ lastAdmitted'[k] = lastAdmitted[k]
        BY <1>6
      <3>4. \A k, t : Remembers(state, k, t) => Remembers(state', k, t) BY <3>2 DEF Remembers
      <3>5. \A k \in AdmKeys :
              \/ lastAdmitted[k] = NoTime
              \/ (lastAdmitted[k] \in Nat /\ lastAdmitted[k] <= admNow
                  /\ Remembers(state, k, lastAdmitted[k]))
        BY <1>2 DEF Alone, AloneState
      <3>6. \A k \in AdmKeys :
              \/ lastAdmitted'[k] = NoTime
              \/ (lastAdmitted'[k] \in Nat /\ lastAdmitted'[k] <= admNow
                  /\ Remembers(state', k, lastAdmitted'[k]))
        BY <3>3, <3>4, <3>5
      <3> QED BY <1>1, <3>1, <3>2, <3>6 DEF AloneState
    <2>3. AloneFile' BY <1>1, <1>6, <1>10, <2>1 DEF AloneFile
    <2> QED BY <1>8, <2>2, <2>3 DEF Alone
  <1> QED BY <1>7, <1>9, <1>10

\* Every step of the gateway keeps the invariant.
LEMMA AdmissionStep ==
  ASSUME AdmInv, [Next]_vars
  PROVE  AdmInv'
  <1>1. admNow' \in Nat /\ admNow <= admNow' /\ (~raced' => ~raced)
    <2>1. CASE AdmTick BY <2>1 DEF AdmInv, AdmTick, history
    <2>2. CASE UNCHANGED <<admNow, raced>> BY <2>2 DEF AdmInv
    <2>3. CASE UNCHANGED admNow /\ raced' = (raced \/ ~Idle)
      <3>1. ~raced' => ~raced BY <2>3, Zenon
      <3> QED BY <2>3, <3>1 DEF AdmInv
    <2>4. CASE UNCHANGED vars BY <2>2, <2>4 DEF vars, history
    <2>5. ASSUME NEW h \in Handlers, NEW k \in AdmKeys, NEW overlay \in BOOLEAN, Decide(h, k, overlay)
          PROVE  UNCHANGED admNow /\ (raced' = (raced \/ ~Idle) \/ UNCHANGED raced)
      BY <2>5 DEF Decide
    <2>6. ASSUME NEW h \in Handlers, Saving(h) PROVE UNCHANGED <<admNow, raced>>
      BY <2>6 DEF Saving, OpenTemp, WriteDone, Rename, RenameMissing, SaveFails, Abandons, history
    <2>7. ASSUME NEW p \in Peers, quarantinePeer(p, MaxQuarantine) \/ liftQuarantine(p)
          PROVE  UNCHANGED admNow /\ raced' = (raced \/ ~Idle)
      BY <2>7 DEF quarantinePeer, liftQuarantine
    <2>8. ASSUME NEW p, NEW q, NEW t, NEW lowers, Ingest(p, q, t, lowers)
          PROVE  UNCHANGED <<admNow, raced>>
      BY <2>8 DEF Ingest, history
    <2>9. CASE EvictStaleAdvisory \/ Restart \/ DeleteSnapshot
      BY <2>2, <2>9 DEF EvictStaleAdvisory, Restart, DeleteSnapshot, history
    <2> QED BY <2>1, <2>2, <2>3, <2>4, <2>5, <2>6, <2>7, <2>8, <2>9 DEF Next
  <1>2. DOMAIN phase' = Handlers /\ DOMAIN job' = Handlers /\ DOMAIN fd' = Handlers
    <2>1. CASE UNCHANGED <<phase, job, fd>> BY <2>1 DEF AdmInv
    <2>2. ASSUME NEW h \in Handlers, NEW k \in AdmKeys, NEW overlay \in BOOLEAN, Decide(h, k, overlay)
          PROVE  DOMAIN phase' = Handlers /\ DOMAIN job' = Handlers /\ DOMAIN fd' = Handlers
      BY <2>2 DEF Decide, AdmInv, disk
    <2>3. ASSUME NEW h \in Handlers, Saving(h)
          PROVE  DOMAIN phase' = Handlers /\ DOMAIN job' = Handlers /\ DOMAIN fd' = Handlers
      BY <2>3 DEF Saving, OpenTemp, WriteDone, Rename, RenameMissing, SaveFails, Abandons, AdmInv
    <2>4. ASSUME NEW p \in Peers, quarantinePeer(p, MaxQuarantine) \/ liftQuarantine(p)
          PROVE  UNCHANGED <<phase, job, fd>>
      BY <2>4 DEF quarantinePeer, liftQuarantine, disk
    <2>5. ASSUME NEW p, NEW q, NEW t, NEW lowers, Ingest(p, q, t, lowers)
          PROVE  UNCHANGED <<phase, job, fd>>
      BY <2>5 DEF Ingest, disk
    <2>6. CASE Restart BY <2>6 DEF Restart
    <2>7. CASE EvictStaleAdvisory \/ DeleteSnapshot \/ AdmTick \/ UNCHANGED vars
      BY <2>1, <2>7 DEF EvictStaleAdvisory, DeleteSnapshot, AdmTick, disk, vars
    <2> QED BY <2>1, <2>2, <2>3, <2>4, <2>5, <2>6, <2>7 DEF Next
  <1>4. upsets' \in Nat
    <2>1. CASE UNCHANGED upsets BY <2>1 DEF AdmInv
    <2>2. CASE Upset BY <2>2 DEF Upset, AdmInv
    <2>3. ASSUME NEW h \in Handlers, Saving(h) PROVE UNCHANGED upsets \/ Upset
      BY <2>3 DEF Saving, OpenTemp, WriteDone, Rename, RenameMissing, SaveFails
    <2> QED BY <2>1, <2>2, <2>3
        DEF Next, Decide, quarantinePeer, liftQuarantine, Ingest, EvictStaleAdvisory, Restart,
            DeleteSnapshot, AdmTick, vars
  <1>3. ASSUME ~raced' PROVE Alone'
    <2>1. ~raced /\ Alone BY <1>1, <1>3 DEF AdmInv
    <2>2. ASSUME NEW h \in Handlers, Saving(h) PROVE Alone'
      <3>1. CASE OpenTemp(h) \/ WriteDone(h) BY <1>3, <3>1, WritingAlone
      <3>2. CASE Rename(h) BY <1>3, <3>2, RenameAlone
      <3>3. CASE RenameMissing(h) \/ SaveFails(h)
        <4>1. Abandons(h) /\ phase[h] # "idle" BY <3>3 DEF RenameMissing, SaveFails
        <4> QED BY <1>3, <4>1, AbandonsAlone
      <3> QED BY <2>2, <3>1, <3>2, <3>3 DEF Saving
    <2>3. CASE UNCHANGED <<state, phase, job, fd, shared, temp, file, running, lastAdmitted, readmitted>>
      BY <1>1, <2>1, <2>3, NothingMoves
    <2>4. ASSUME NEW p, NEW q, NEW t, NEW lowers, Ingest(p, q, t, lowers) PROVE Alone'
      BY <2>3, <2>4 DEF Ingest, disk, history
    <2>5. CASE EvictStaleAdvisory \/ AdmTick \/ UNCHANGED vars
      BY <2>3, <2>5 DEF EvictStaleAdvisory, AdmTick, disk, history, vars
    <2>6. ~DeleteSnapshot BY <2>1 DEF DeleteSnapshot, Alone, AloneState
    <2> QED BY <1>3, <2>2, <2>4, <2>5, <2>6, DecideAlone, OperatorAlone, RestartAlone DEF Next
  <1> QED BY <1>1, <1>2, <1>3, <1>4 DEF AdmInv

\* The gateway keeps the invariant.
LEMMA AdmissionHolds == Spec => []AdmInv
  BY AdmissionStarts, AdmissionStep, PTL DEF Spec

\* One delivery at a time is safe (admitAndPersist of apps/bridge-service's
\* admission-gateway.ts over admission-state-store.ts): as long as none begins, and the
\* operator does nothing, while another is saved, no envelope is admitted twice in the
\* time for which its key is remembered, unless it was made to give way, whatever write
\* fails and whenever the gateway restarts; and the snapshot is whole and holds what the
\* gateway knows.  It holds for any envelopes, peers, penalties, limits and times.
THEOREM AdmissionIsSafe == Spec => []OneAtATimeIsSafe
  <1>1. AdmInv => OneAtATimeIsSafe
    <2> SUFFICES ASSUME AdmInv, ~raced PROVE OneAtATimeIsSafe BY DEF OneAtATimeIsSafe
    <2>1. Alone BY DEF AdmInv
    <2>2. file # Torn
      <3>1. DOMAIN Torn = {"lacks"} /\ Torn["lacks"] = "end" BY DEF Torn
      <3>2. NoFile["lacks"] = "file" BY DEF NoFile
      <3>3. ASSUME StateShape(file) PROVE "replay" \in DOMAIN file
        <4>1. PICK a, b, c : file = [replay |-> a, rep |-> b, bucket |-> c] BY <3>3 DEF StateShape
        <4> QED BY <4>1
      <3> QED BY <2>1, <3>1, <3>2, <3>3 DEF Alone, AloneFile
    <2> QED BY <2>1, <2>2 DEF OneAtATimeIsSafe, Alone, AloneState, AloneFile
  <1> QED BY <1>1, AdmissionHolds, PTL

\* A step keeps the quarantines that are in force, but for the operator and a restart.
LEMMA QuarantineStep ==
  ASSUME AdmInv, [Next]_vars, NEW p \in Peers,
         isQuarantined(state.rep[p], admNow'), ~isQuarantined(state'.rep[p], admNow'),
         upsets' = upsets, ~raced
  PROVE  state'.rep[p].score >= RecoveryThreshold
  <1>1. Alone /\ admNow \in Nat BY DEF AdmInv
  <1>2. StateShape(state) BY <1>1 DEF Alone, AloneState
  <1>3. PICK r : r = state.rep[p] OBVIOUS
  <1>4. r.until \in Int BY <1>2, <1>3 DEF StateShape, Reputed
  <1>5. state' # state BY <1>3
  <1>6. ASSUME NEW j, Settles(state, j, admNow), Concludes(j), admNow' = admNow
        PROVE  state'.rep[p].score >= RecoveryThreshold
    <2>1. j.at \in Nat /\ j.at <= admNow /\ state' = j.next /\ StaysQuarantined(r, j.next.rep[p], j.at)
      BY <1>3, <1>6 DEF Settles, Concludes
    <2>2. isQuarantined(r, j.at) BY <1>1, <1>3, <1>4, <1>6, <2>1 DEF isQuarantined
    <2>3. state'.rep[p].until # r.until BY <1>3 DEF isQuarantined
    <2> QED BY <2>1, <2>2, <2>3 DEF StaysQuarantined
  <1>7. ASSUME NEW h \in Handlers, NEW k \in AdmKeys, NEW overlay \in BOOLEAN, Decide(h, k, overlay)
        PROVE  state'.rep[p].score >= RecoveryThreshold
    <2>1. PICK checks : checks = AdmissionChecks(state, k, admNow) OBVIOUS
    <2>2. PICK j : j = [verdict |-> checks.verdict, next |-> checks.next, key |-> k,
                        at |-> admNow, overlay |-> overlay]
      OBVIOUS
    <2>3. Concludes(j) /\ admNow' = admNow BY <1>5, <1>7, <2>1, <2>2 DEF Decide
    <2>4. j.verdict = checks.verdict /\ j.next = checks.next /\ j.key = k /\ j.at = admNow BY <2>2
    <2>5. Settles(state, j, admNow) BY <1>1, <1>2, <2>1, <2>4, EngineSettles
    <2> QED BY <1>6, <2>3, <2>5
  <1>8. ASSUME NEW h \in Handlers, Saving(h) PROVE state'.rep[p].score >= RecoveryThreshold
    <2>1. Rename(h)
      BY <1>5, <1>8 DEF Saving, OpenTemp, WriteDone, RenameMissing, SaveFails, Abandons
    <2>2. phase[h] # "idle" /\ Concludes(job[h]) /\ admNow' = admNow BY <2>1 DEF Rename
    <2>3. Settles(state, job[h], admNow) BY <1>1, <2>2 DEF Alone, AloneHandling
    <2> QED BY <1>6, <2>2, <2>3
  <1>9. ~Upset BY DEF Upset, AdmInv
  <1> QED BY <1>1, <1>5, <1>7, <1>8, <1>9
      DEF Next, quarantinePeer, liftQuarantine, Ingest, EvictStaleAdvisory, Restart, DeleteSnapshot,
          AdmTick, vars, Alone, AloneState

\* A quarantine in force ends by itself only when the peer's score is back at the
\* recovery threshold (applyReputationDelta of trust-safety's peer-reputation.ts, and
\* admitAndPersist, which saves a reputation for some time before it takes it over).
THEOREM AdmissionQuarantineHolds == Spec => QuarantineHolds
  <1>1. AdmInv /\ [Next]_vars =>
          [\A p \in Peers :
             isQuarantined(state.rep[p], admNow') /\ ~isQuarantined(state'.rep[p], admNow')
               => \/ state'.rep[p].score >= RecoveryThreshold
                  \/ upsets' # upsets
                  \/ raced]_vars
    BY QuarantineStep
  <1> QED BY <1>1, AdmissionHolds, PTL DEF Spec, QuarantineHolds

-----------------------------------------------------------------------------
(***************************************************************************)
(* Capability grants.                                                      *)
(***************************************************************************)

\* What the projection keeps of a grant.
HeldGrant == [grant: Grants, active: BOOLEAN, by: SUBSET STRING]

\* The projection keeps a revocation under every id that has come.
KeptUnderItsId == \A q \in graphRevoked : \E p \in revoked : p.id = q.id

\* One grant of each id at most, in the projection and in the graph alike, which the
\* revocations that have come are marked in.
CapInv ==
  /\ granted \in [Ids -> SUBSET HeldGrant]
  /\ graph \in [Ids -> SUBSET Grants]
  /\ revoked \subseteq graphRevoked /\ graphRevoked \subseteq Revocations
  /\ \A r, q \in revoked : r.id = q.id => r = q
  /\ capNow \in 0..MaxCapNow
  /\ \A i \in Ids :
       /\ granted[i] = {} <=> graph[i] = {}
       /\ \A h, k \in granted[i] : h = k
       /\ \A g, f \in graph[i] : g = f
       /\ \A g \in graph[i] : g.id = i
       /\ \A h \in granted[i] : h.grant.id = i
  /\ KeptUnderItsId
  /\ RevocationsReachTheirGrant

\* The ids of revocations are strings.
LEMMA RevocationIdsAreStrings ==
  ASSUME NEW R, R \subseteq Revocations
  PROVE  RevocationIds(R) \subseteq STRING
  BY CapabilityAssumption DEF CapabilityAssumption, Revocation, RevocationIds

\* A grant that comes is held as revoked exactly if it was before or if a revocation of it
\* is kept, and names what it named and the kept ones.
LEMMA GrantIsHeld ==
  ASSUME CapInv, NEW g \in Grants
  PROVE  /\ HeldAfterGrant(g) \in HeldGrant
         /\ HeldAfterGrant(g).grant.id = g.id
         /\ HeldAfterGrant(g).active =>
              RevocationsOf(g.id) = {} /\ HeldAfterGrant(g).by = {}
         /\ ~HeldAfterGrant(g).active => HeldAfterGrant(g).by # {}
         /\ RevocationIds(RevocationsOf(g.id)) \subseteq HeldAfterGrant(g).by
         /\ HeldAfterGrant(g).by \subseteq RevocationIds(ArrivedFor(g.id))
         /\ \A h \in granted[g.id] :
              ~h.active => /\ ~HeldAfterGrant(g).active /\ HeldAfterGrant(g).grant = h.grant
                           /\ h.by \subseteq HeldAfterGrant(g).by
  <1> DEFINE earlier == RevocationsOf(g.id)
             dead == earlier # {} \/ \E h \in granted[g.id] : ~h.active
             kept == IF dead /\ granted[g.id] # {}
                       THEN (CHOOSE h \in granted[g.id] : TRUE).grant ELSE g
             marks == IF dead THEN RevocationIds(earlier) \cup UNION {h.by : h \in granted[g.id]}
                      ELSE {}
  <1>1. g.id \in Ids BY DEF Ids
  <1>2. \A h \in granted[g.id] :
          /\ h \in HeldGrant /\ h.grant.id = g.id
          /\ ~h.active => h.by # {}
          /\ h.by \subseteq RevocationIds(ArrivedFor(g.id))
          /\ h.by \subseteq STRING
          /\ \A k \in granted[g.id] : h = k
    BY <1>1 DEF CapInv, RevocationsReachTheirGrant, HeldGrant
  <1>3. RevocationIds(earlier) \subseteq RevocationIds(ArrivedFor(g.id))
    BY DEF RevocationIds, RevocationsOf, ArrivedFor, CapInv
  <1>4. kept \in Grants /\ kept.id = g.id
    <2>1. CASE dead /\ granted[g.id] # {}
      <3>1. PICK h \in granted[g.id] : h = (CHOOSE k \in granted[g.id] : TRUE) BY <2>1
      <3>2. kept = h.grant BY <2>1, <3>1
      <3> QED BY <1>2, <3>2 DEF HeldGrant
    <2> QED BY <2>1
  <1>5. /\ RevocationIds(earlier) \subseteq marks
        /\ marks \subseteq RevocationIds(ArrivedFor(g.id)) /\ marks \subseteq STRING
    <2>1. RevocationIds(earlier) \subseteq STRING
      BY RevocationIdsAreStrings DEF RevocationsOf, CapInv
    <2>2. ~dead => RevocationIds(earlier) = {} BY DEF RevocationIds
    <2> QED BY <1>2, <1>3, <2>1, <2>2
  <1>6. dead => marks # {}
    <2>1. earlier # {} => RevocationIds(earlier) # {} BY DEF RevocationIds
    <2> QED BY <1>2, <2>1
  <1>7. HeldAfterGrant(g) = [grant |-> kept, active |-> ~dead, by |-> marks] BY DEF HeldAfterGrant
  <1>8. PICK kg \in Grants : kg = kept BY <1>4
  <1>9. PICK a \in BOOLEAN : a = ~dead BY Zenon
  <1>10. PICK m \in SUBSET STRING : m = marks BY <1>5
  <1>11. HeldAfterGrant(g) = [grant |-> kg, active |-> a, by |-> m] BY <1>7, <1>8, <1>9, <1>10
  <1>12. ~dead => earlier = {} /\ marks = {} OBVIOUS
  <1>13. ASSUME NEW h \in granted[g.id], ~h.active
         PROVE  dead /\ kept = h.grant /\ h.by \subseteq marks
    <2>1. dead BY <1>13
    <2>2. PICK k \in granted[g.id] : k = (CHOOSE x \in granted[g.id] : TRUE) BY <1>13
    <2>3. k = h BY <1>2, <1>13
    <2> QED BY <2>1, <2>2, <2>3, <1>13
  <1> HIDE DEF dead, kept, marks
  <1>14. HeldAfterGrant(g) \in HeldGrant BY <1>11 DEF HeldGrant
  <1>15. HeldAfterGrant(g).active <=> ~dead
    <2>1. HeldAfterGrant(g).active = a BY <1>11
    <2> QED BY <1>9, <2>1, Zenon
  <1>16. HeldAfterGrant(g).grant = kept BY <1>8, <1>11
  <1>17. HeldAfterGrant(g).by = marks BY <1>10, <1>11
  <1> QED BY <1>4, <1>5, <1>6, <1>12, <1>13, <1>14, <1>15, <1>16, <1>17

\* What a revocation makes of a grant that is held.
MarkedBy(h, r) == [h EXCEPT !.active = FALSE, !.by = @ \cup {r.id}]

\* A grant so marked is the same grant, revoked, with the id of one revocation more.
LEMMA MarkedIsRevoked ==
  ASSUME NEW h \in HeldGrant, NEW r \in Revocations
  PROVE  /\ MarkedBy(h, r) \in HeldGrant
         /\ MarkedBy(h, r).grant = h.grant
         /\ MarkedBy(h, r).active = FALSE
         /\ MarkedBy(h, r).by = h.by \cup {r.id}
  <1>1. r.id \in STRING BY CapabilityAssumption DEF CapabilityAssumption, Revocation
  <1> QED BY <1>1 DEF MarkedBy, HeldGrant

\* A grant that arrives keeps the invariant: it is held, and revoked if it was before.
LEMMA GrantingKeepsCapInv ==
  ASSUME CapInv, NEW g \in Grants, ApplyGrant(g)
  PROVE  CapInv'
  <1>1. PICK x \in HeldGrant : x = HeldAfterGrant(g) BY GrantIsHeld
  <1>2. /\ x.grant.id = g.id
        /\ x.active => RevocationsOf(g.id) = {} /\ x.by = {}
        /\ ~x.active => x.by # {}
        /\ RevocationIds(RevocationsOf(g.id)) \subseteq x.by
        /\ x.by \subseteq RevocationIds(ArrivedFor(g.id))
    BY <1>1, GrantIsHeld
  <1>3. g.id \in Ids BY DEF Ids
  <1>4. /\ granted' = [granted EXCEPT ![g.id] = {x}]
        /\ graph' = [graph EXCEPT ![g.id] = {g}]
        /\ revoked' = revoked /\ graphRevoked' = graphRevoked /\ capNow' = capNow
    BY <1>1 DEF ApplyGrant
  <1>5. \A i : /\ RevocationsOf(i)' = RevocationsOf(i) /\ ArrivedFor(i)' = ArrivedFor(i)
               /\ Displaced(i)' = Displaced(i)
    BY <1>4 DEF RevocationsOf, ArrivedFor, Displaced
  <1>6. granted' \in [Ids -> SUBSET HeldGrant] /\ graph' \in [Ids -> SUBSET Grants]
    BY ZenonT(40), <1>4 DEF CapInv
  <1>7. \A i \in Ids : /\ i = g.id => granted'[i] = {x} /\ graph'[i] = {g}
                       /\ i # g.id => granted'[i] = granted[i] /\ graph'[i] = graph[i]
    BY <1>4 DEF CapInv
  <1>8. ASSUME NEW i \in Ids
        PROVE  /\ granted'[i] = {} <=> graph'[i] = {}
               /\ \A h, k \in granted'[i] : h = k
               /\ \A p, f \in graph'[i] : p = f
               /\ \A p \in graph'[i] : p.id = i
               /\ \A h \in granted'[i] : h.grant.id = i
    <2>1. CASE i = g.id
      <3>1. granted'[i] = {x} /\ graph'[i] = {g} BY <1>7, <2>1
      <3> QED BY SMTT(30), <1>2, <2>1, <3>1
    <2>2. CASE i # g.id
      <3>1. granted'[i] = granted[i] /\ graph'[i] = graph[i] BY <1>7, <2>2
      <3> QED BY ZenonT(40), <3>1 DEF CapInv
    <2> QED BY <2>1, <2>2
  <1>9. RevocationsOf(g.id) = {} => ArrivedFor(g.id) = Displaced(g.id)
    BY DEF CapInv, RevocationsOf, ArrivedFor, Displaced, KeptUnderItsId
  <1>10. ASSUME NEW i \in Ids, NEW h \in granted'[i]
         PROVE  /\ h.active => h.by = {} /\ ArrivedFor(i) = Displaced(i)
                /\ ~h.active => h.by # {}
                /\ RevocationIds(RevocationsOf(i)) \subseteq h.by
                /\ h.by \subseteq RevocationIds(ArrivedFor(i))
    <2>1. CASE i = g.id
      <3>1. h = x BY <1>7, <2>1
      <3> QED BY <1>2, <1>9, <2>1, <3>1
    <2>2. CASE i # g.id
      <3>1. h \in granted[i] BY <1>7, <2>2
      <3> QED BY <3>1 DEF CapInv, RevocationsReachTheirGrant
    <2> QED BY <2>1, <2>2
  <1>11. RevocationsReachTheirGrant' BY <1>5, <1>10 DEF RevocationsReachTheirGrant, RevocationIds
  <1>12. KeptUnderItsId' BY <1>4 DEF KeptUnderItsId, CapInv
  <1> QED BY <1>4, <1>6, <1>8, <1>11, <1>12 DEF CapInv

\* A revocation that arrives keeps the invariant: the grant it names is marked with it.
LEMMA RevokingKeepsCapInv ==
  ASSUME CapInv, NEW r \in Revocations, ApplyRevocation(r)
  PROVE  CapInv'
  <1>1. /\ revoked' = {q \in revoked : q.id # r.id} \cup {r}
        /\ graphRevoked' = graphRevoked \cup {r}
        /\ granted' = [i \in Ids |-> IF i = r.of THEN {MarkedBy(h, r) : h \in granted[i]}
                                     ELSE granted[i]]
        /\ graph' = graph /\ capNow' = capNow
    BY DEF ApplyRevocation, MarkedBy
  <1>2. \A i \in Ids : \A h \in granted[i] : h \in HeldGrant BY DEF CapInv
  <1>3. ASSUME NEW i
        PROVE  /\ RevocationsOf(i)' \subseteq RevocationsOf(i) \cup {r}
               /\ i # r.of => RevocationsOf(i)' \subseteq RevocationsOf(i)
               /\ ArrivedFor(i)' = IF i = r.of THEN ArrivedFor(i) \cup {r} ELSE ArrivedFor(i)
    BY <1>1 DEF RevocationsOf, ArrivedFor
  <1>4. ASSUME NEW i, i # r.of, ArrivedFor(i) = Displaced(i)
        PROVE  ArrivedFor(i)' = Displaced(i)'
    <2>1. SUFFICES ASSUME NEW q \in ArrivedFor(i)
                   PROVE  \E p \in revoked' : p.id = q.id /\ p.of # i
      BY <1>3, <1>4 DEF Displaced
    <2>2. PICK p \in revoked : p.id = q.id /\ p.of # i BY <1>4 DEF Displaced
    <2>3. CASE p.id = r.id
      <3>1. r \in revoked' BY <1>1
      <3> QED BY <1>4, <2>2, <2>3, <3>1
    <2>4. CASE p.id # r.id BY <1>1, <2>2, <2>4
    <2> QED BY <2>3, <2>4
  <1>5. \A i \in Ids : \A h \in granted'[i] :
          IF i = r.of THEN \E k \in granted[i] : h = MarkedBy(k, r) ELSE h \in granted[i]
    BY <1>1
  <1>6. ASSUME NEW i \in Ids, NEW h \in granted'[i]
        PROVE  /\ h \in HeldGrant /\ h.grant.id = i
               /\ h.active => h.by = {} /\ ArrivedFor(i)' = Displaced(i)'
               /\ ~h.active => h.by # {}
               /\ RevocationIds(RevocationsOf(i)') \subseteq h.by
               /\ h.by \subseteq RevocationIds(ArrivedFor(i)')
    <2>1. CASE i = r.of
      <3>1. PICK k \in granted[i] : h = MarkedBy(k, r) BY <1>5, <2>1
      <3>2. /\ h \in HeldGrant /\ h.grant = k.grant /\ h.active = FALSE /\ h.by = k.by \cup {r.id}
        BY <1>2, <3>1, MarkedIsRevoked
      <3>3. /\ k.grant.id = i /\ RevocationIds(RevocationsOf(i)) \subseteq k.by
            /\ k.by \subseteq RevocationIds(ArrivedFor(i))
        BY DEF CapInv, RevocationsReachTheirGrant
      <3>4. RevocationIds(RevocationsOf(i)') \subseteq h.by
        BY <1>3, <3>2, <3>3 DEF RevocationIds
      <3>5. h.by \subseteq RevocationIds(ArrivedFor(i)')
        BY <1>3, <2>1, <3>2, <3>3 DEF RevocationIds
      <3> QED BY <3>2, <3>3, <3>4, <3>5
    <2>2. CASE i # r.of
      <3>1. h \in granted[i] BY <1>5, <2>2
      <3>2. /\ h.grant.id = i
            /\ h.active => h.by = {} /\ ArrivedFor(i) = Displaced(i)
            /\ ~h.active => h.by # {}
            /\ RevocationIds(RevocationsOf(i)) \subseteq h.by
            /\ h.by \subseteq RevocationIds(ArrivedFor(i))
        BY <3>1 DEF CapInv, RevocationsReachTheirGrant
      <3>3. ArrivedFor(i)' = ArrivedFor(i) /\ RevocationsOf(i)' \subseteq RevocationsOf(i)
        BY <1>3, <2>2
      <3>4. RevocationIds(RevocationsOf(i)') \subseteq h.by BY <3>2, <3>3 DEF RevocationIds
      <3> QED BY <1>2, <1>4, <2>2, <3>1, <3>2, <3>3, <3>4
    <2> QED BY <2>1, <2>2
  <1>7. \A i \in Ids : granted'[i] \subseteq HeldGrant BY <1>6
  <1>8. granted' \in [Ids -> SUBSET HeldGrant] BY <1>1, <1>7
  <1>9. ASSUME NEW i \in Ids PROVE granted'[i] = {} <=> graph'[i] = {}
    <2>1. granted'[i] = {} <=> granted[i] = {} BY <1>1
    <2> QED BY <1>1, <2>1 DEF CapInv
  <1>10. ASSUME NEW i \in Ids, NEW h \in granted'[i], NEW k \in granted'[i] PROVE h = k
    BY <1>5 DEF CapInv
  <1>11. RevocationsReachTheirGrant' BY <1>6 DEF RevocationsReachTheirGrant, RevocationIds
  <1>12. /\ graph' = graph /\ capNow' = capNow
         /\ revoked' \subseteq graphRevoked' /\ graphRevoked' \subseteq Revocations
         /\ \A p, q \in revoked' : p.id = q.id => p = q
    BY <1>1 DEF CapInv
  <1>13. KeptUnderItsId'
    <2> SUFFICES ASSUME NEW q \in graphRevoked' PROVE \E p \in revoked' : p.id = q.id
      BY DEF KeptUnderItsId
    <2>1. CASE q.id = r.id BY <1>1, <2>1
    <2>2. CASE q.id # r.id
      <3>1. PICK p \in revoked : p.id = q.id BY <1>1, <2>2 DEF CapInv, KeptUnderItsId
      <3> QED BY <1>1, <2>2, <3>1
    <2> QED BY <2>1, <2>2
  <1> QED BY <1>6, <1>8, <1>9, <1>10, <1>11, <1>12, <1>13 DEF CapInv

\* The invariant holds throughout.
LEMMA CapHolds == CapSpec => []CapInv
  <1>1. CapInit => CapInv
    BY CapabilityAssumption
       DEF CapabilityAssumption, CapInit, CapInv, RevocationsReachTheirGrant, KeptUnderItsId
  <1>2. CapInv /\ [CapNext]_capVars => CapInv'
    <2> SUFFICES ASSUME CapInv, [CapNext]_capVars PROVE CapInv' OBVIOUS
    <2>1. CASE CapTick \/ UNCHANGED capVars
      <3>1. /\ granted' = granted /\ graph' = graph /\ revoked' = revoked
            /\ graphRevoked' = graphRevoked /\ capNow' \in 0..MaxCapNow
        BY <2>1, CapabilityAssumption DEF CapabilityAssumption, CapTick, capVars, CapInv
      <3>2. RevocationsReachTheirGrant' /\ KeptUnderItsId'
        BY <3>1 DEF CapInv, RevocationsReachTheirGrant, KeptUnderItsId, RevocationIds, ArrivedFor,
                    Displaced, RevocationsOf
      <3> QED BY <3>1, <3>2 DEF CapInv
    <2> QED BY <2>1, GrantingKeepsCapInv, RevokingKeepsCapInv DEF CapNext
  <1> QED BY <1>1, <1>2, PTL DEF CapSpec

\* What is held as revoked is held so after every step.
LEMMA RevokedStaysRevoked ==
  ASSUME CapInv, [CapNext]_capVars, NEW i \in Ids, NEW h \in granted[i], ~h.active
  PROVE  \E k \in granted'[i] : ~k.active /\ k.grant = h.grant /\ h.by \subseteq k.by
  <1>1. ASSUME NEW g \in Grants, ApplyGrant(g)
        PROVE  \E k \in granted'[i] : ~k.active /\ k.grant = h.grant /\ h.by \subseteq k.by
    <2>1. CASE i = g.id
      <3>1. HeldAfterGrant(g) \in granted'[i] BY <1>1, <2>1 DEF ApplyGrant, CapInv
      <3> QED BY <2>1, <3>1, GrantIsHeld
    <2>2. CASE i # g.id
      <3>1. granted'[i] = granted[i] BY <1>1, <2>2 DEF ApplyGrant, CapInv
      <3> QED BY <3>1
    <2> QED BY <2>1, <2>2
  <1>2. ASSUME NEW r \in Revocations, ApplyRevocation(r)
        PROVE  \E k \in granted'[i] : ~k.active /\ k.grant = h.grant /\ h.by \subseteq k.by
    <2>1. granted'[i] = IF i = r.of THEN {MarkedBy(x, r) : x \in granted[i]} ELSE granted[i]
      BY <1>2 DEF ApplyRevocation, MarkedBy
    <2>2. CASE i = r.of
      <3>1. MarkedBy(h, r) \in granted'[i] BY <2>1, <2>2
      <3>2. h \in HeldGrant BY DEF CapInv
      <3> QED BY <3>1, <3>2, MarkedIsRevoked
    <2>3. CASE i # r.of BY <2>1, <2>3
    <2> QED BY <2>2, <2>3
  <1>3. CASE CapTick \/ UNCHANGED capVars
    <2>1. granted' = granted BY <1>3 DEF CapTick, capVars
    <2> QED BY <2>1
  <1> QED BY <1>1, <1>2, <1>3 DEF CapNext

\* The projection and the graph have a record of each id at most, and of the same ids
\* (addGrant and applyCapabilityGrant).
THEOREM CapabilityTypeCorrect == CapSpec => []CapTypeOK
  <1>1. CapInv => CapTypeOK
    <2> SUFFICES ASSUME CapInv PROVE CapTypeOK OBVIOUS
    <2>1. ASSUME NEW i \in Ids
          PROVE  Cardinality(granted[i]) <= 1 /\ Cardinality(graph[i]) = Cardinality(granted[i])
      <3>1. CASE granted[i] = {}
        <4>1. graph[i] = {} BY <3>1 DEF CapInv
        <4>2. Cardinality({}) = 0 BY FS_EmptySet
        <4> QED BY <3>1, <4>1, <4>2
      <3>2. CASE granted[i] # {}
        <4>1. PICK h \in granted[i], g \in graph[i] : granted[i] = {h} /\ graph[i] = {g}
          BY <3>2 DEF CapInv
        <4>2. Cardinality({h}) = 1 /\ Cardinality({g}) = 1 BY FS_Singleton
        <4> QED BY <4>1, <4>2
      <3> QED BY <3>1, <3>2
    <2>2. \A i \in Ids : \A h \in granted[i] : h.grant \in Grants BY DEF CapInv, HeldGrant
    <2> QED BY <2>1, <2>2 DEF CapInv, CapTypeOK
  <1> QED BY <1>1, CapHolds, PTL

\* Along a valid path every grant is about what the first one is about, and allows no
\* more of it, nor for longer: what each takes from the one before it, all take from the
\* first.
LEMMA PathNarrows ==
  ASSUME CapInv, NEW n \in Nat, NEW path \in [1..n -> Held], Len(path) = n, n > 0,
         IsDelegationPathValid(path)
  PROVE  \A k \in 1..n :
           /\ path[k].about = path[1].about /\ path[k].actions \subseteq path[1].actions
           /\ path[k].expires <= path[1].expires /\ path[k].depth <= path[1].depth
  <1> DEFINE Narrow(k) ==
               /\ path[k].about = path[1].about /\ path[k].actions \subseteq path[1].actions
               /\ path[k].expires <= path[1].expires /\ path[k].depth <= path[1].depth
             Wide == {k \in 1..n : ~Narrow(k)}
  <1>1. \A g \in Held : g \in Grant BY CapabilityAssumption DEF CapabilityAssumption, CapInv, Held
  <1>2. \A k \in 1..n : path[k].expires \in Nat /\ path[k].depth \in Nat BY <1>1 DEF Grant
  <1>3. 1 \in 1..n OBVIOUS
  <1>4. Narrow(1) BY <1>2, <1>3
  <1>5. SUFFICES ASSUME Wide # {} PROVE FALSE OBVIOUS
  <1>6. PICK k \in Wide : \A j \in Wide : k <= j
    <2>1. Wide \in SUBSET Nat OBVIOUS
    <2> QED BY <1>5, <2>1, LowestNumber
  <1>7. k \in 1..n /\ k # 1 BY <1>4, <1>6
  <1>8. PICK j \in 1..(n - 1) : k = j + 1 BY <1>7
  <1>9. Narrow(j)
    <2>1. j \in 1..n /\ ~(k <= j) BY <1>8
    <2> QED BY <1>6, <2>1
  <1>10. Attenuates(path[j], path[j + 1]) BY <1>8 DEF IsDelegationPathValid
  <1>11. /\ path[k].about = path[j].about /\ path[k].actions \subseteq path[j].actions
         /\ path[k].expires <= path[j].expires /\ path[k].depth < path[j].depth
    BY <1>8, <1>10 DEF Attenuates
  <1>12. j \in 1..n /\ k \in 1..n BY <1>7, <1>8
  <1>13. Narrow(k) BY <1>2, <1>3, <1>9, <1>11, <1>12
  <1> QED BY <1>6, <1>13

\* Whatever was granted, in whatever order and however often it and its revocations
\* came, and whether or not two revocations have one id: what is held is revoked if a
\* revocation of it has come that was not displaced, and only if one has come, and then
\* for good; and what is authorized has an ancestor without proofs that is in force and
\* gave as much (applyCapabilityGrant, applyCapabilityRevocation and isCapabilityAuthorized).
THEOREM DelegationStaysBounded == CapSpec => DelegationIsBounded
  <1>1. CapInv => NoMoreThanTheRoot
    <2> SUFFICES ASSUME CapInv, NEW g \in Held, Authorized(g)
                 PROVE  \E root \in Ancestors(g) :
                          /\ root.proofs = {} /\ InForceNow(root)
                          /\ g.about = root.about /\ g.actions \subseteq root.actions
                          /\ g.expires <= root.expires /\ g.depth <= root.depth
      BY DEF NoMoreThanTheRoot
    <2>1. PICK path \in PathsTo(g) : IsDelegationPathValid(path) BY DEF Authorized
    <2>2. /\ path \in SeqOf(Held, Cardinality(Held)) /\ path # <<>>
          /\ path[1].proofs = {} /\ Last(path) = g
          /\ \A k \in 1..(Len(path) - 1) : path[k] \in Parents(path[k + 1])
      BY DEF PathsTo
    <2>3. PICK n \in 0..Cardinality(Held) : path \in [1..n -> Held] BY <2>2 DEF SeqOf
    <2>4. n \in Nat /\ Len(path) = n /\ n > 0
      <3>1. n \in Nat BY <2>3
      <3>2. Len(path) = n BY <2>3, <3>1
      <3>3. n # 0 BY <2>2, <2>3
      <3> QED BY <3>1, <3>2, <3>3
    <2>5. 1 \in 1..n /\ n \in 1..n /\ path[n] = g BY <2>2, <2>4 DEF Last
    <2>6. path[1] \in Ancestors(g)
      <3>1. \A k \in 1..(Len(path) - 1) : path[k].id \in path[k + 1].proofs BY <2>2 DEF Parents
      <3>2. path[1] \in Held BY <2>3, <2>5
      <3> QED BY <2>2, <2>4, <3>1, <3>2 DEF Ancestors
    <2>7. InForceNow(path[1]) BY <2>1, <2>3, <2>5 DEF IsDelegationPathValid
    <2>8. \A k \in 1..n :
            /\ path[k].about = path[1].about /\ path[k].actions \subseteq path[1].actions
            /\ path[k].expires <= path[1].expires /\ path[k].depth <= path[1].depth
      BY <2>1, <2>3, <2>4, PathNarrows
    <2> QED BY <2>2, <2>5, <2>6, <2>7, <2>8
  <1>2. CapInv => RevocationsReachTheirGrant BY DEF CapInv
  <1>3. CapInv /\ [CapNext]_capVars =>
          [\A i \in Ids : \A h \in granted[i] :
             ~h.active => \E k \in granted'[i] :
                            ~k.active /\ k.grant = h.grant /\ h.by \subseteq k.by]_capVars
    BY RevokedStaysRevoked
  <1> QED BY <1>1, <1>2, <1>3, CapHolds, PTL DEF CapSpec, DelegationIsBounded, RevokedForGood

-----------------------------------------------------------------------------
(***************************************************************************)
(* The view of reputation.                                                 *)
(***************************************************************************)

\* What is kept: rows that were recorded, entries that came up.
THEOREM RepTypeCorrect == RepSpec => []RepTypeOK
<1>1. RepInit => RepTypeOK BY ReputationAssumption DEF ReputationAssumption, RepInit, RepTypeOK
<1>2. ASSUME RepTypeOK, [RepNext]_repVars PROVE RepTypeOK'
  <2>1. ASSUME NEW e \in RepEvents, Storable(e) PROVE RepTypeOK'
    BY <1>2, <2>1 DEF Storable, AppendRow, RepTypeOK
  <2>2. ASSUME NEW c \in Entries, ChooseLabeler(c) PROVE RepTypeOK'
    BY <1>2, <2>2 DEF ChooseLabeler, RepTypeOK
  <2>3. ASSUME NEW l \in DOMAIN ActiveLabelers, MuteLabeler(l) PROVE RepTypeOK'
    <3>1. l \in Nat
      BY <1>2, ReputationAssumption
         DEF ReputationAssumption, ActiveLabelers, UserPriority, Subscribed, RepTypeOK, ToSet
    <3> QED BY <1>2, <2>3, <3>1 DEF MuteLabeler, RepTypeOK
  <2>4. CASE RepTick
    BY <1>2, <2>4, ReputationAssumption DEF ReputationAssumption, RepTick, RepTypeOK
  <2>5. CASE UNCHANGED repVars
    BY <1>2, <2>5 DEF repVars, RepTypeOK
  <2> QED
    BY <1>2, <2>1, <2>2, <2>3, <2>4, <2>5
       DEF RepNext, RecordObservation, PublishAttestation, RevokeAttestation, LearnFromOthers,
           ReceiveReputation
<1> QED BY <1>1, <1>2, PTL DEF RepSpec

\* The priority of a labeler that the user follows is a number, be it the best of the
\* user's own entries or the distributor's.
LEMMA PrioritiesAreNumbers ==
  ASSUME RepTypeOK
  PROVE  /\ DOMAIN ActiveLabelers \subseteq Nat \ muted
         /\ \A l \in DOMAIN ActiveLabelers : ActiveLabelers[l] \in Nat
  <1>1. Subscribed \subseteq Entries BY DEF Subscribed, RepTypeOK, ToSet
  <1>2. \A c \in Entries : c.labeler \in Nat /\ PriorityOf(c) \in Nat
    BY ReputationAssumption DEF ReputationAssumption, PriorityOf
  <1>3. ASSUME NEW l \in DOMAIN UserPriority PROVE l \in Nat /\ UserPriority[l] \in Nat
    <2> DEFINE T == {PriorityOf(c) : c \in {d \in Subscribed : d.labeler = l}}
    <2>1. l \in {c.labeler : c \in Subscribed} /\ UserPriority[l] = Min(T)
      BY <1>3 DEF UserPriority
    <2>2. T \subseteq Nat /\ T # {} BY <1>1, <1>2, <2>1
    <2>3. PICK x \in T : \A y \in T : x <= y BY <2>2, LowestNumber
    <2>4. Min(T) \in T BY <2>3 DEF Min
    <2> QED BY <1>1, <1>2, <2>1, <2>2, <2>4
  <1>4. \A l \in DOMAIN Registry : l \in Nat /\ (Registry[l] >= 1 => Registry[l] \in Nat)
    BY ReputationAssumption DEF ReputationAssumption
  <1> QED BY <1>3, <1>4 DEF ActiveLabelers

\* Among labelers that the user follows there is a best one.
LEMMA BestIsOneOfThem ==
  ASSUME RepTypeOK, NEW C, C \subseteq DOMAIN ActiveLabelers, C # {}
  PROVE  Best(C) \in C
  <1>1. \A l \in C : l \in Nat /\ ActiveLabelers[l] \in Nat BY PrioritiesAreNumbers
  <1> DEFINE T == {ActiveLabelers[l] : l \in C}
  <1>2. PICK p \in T : \A q \in T : p <= q BY <1>1, LowestNumber
  <1> DEFINE D == {l \in C : ActiveLabelers[l] = p}
  <1>3. PICK l \in D : \A m \in D : l <= m BY <1>1, <1>2, LowestNumber
  <1>4. \A m \in C : Better(l, m)
    <2> SUFFICES ASSUME NEW m \in C PROVE Better(l, m) OBVIOUS
    <2>1. ActiveLabelers[l] = p /\ p \in Nat /\ ActiveLabelers[m] \in Nat /\ p <= ActiveLabelers[m]
      BY <1>1, <1>2
    <2>2. CASE ActiveLabelers[m] = p BY <1>3, <2>1, <2>2 DEF Better
    <2>3. CASE ActiveLabelers[m] # p BY <2>1, <2>3 DEF Better
    <2> QED BY <2>2, <2>3
  <1> QED BY <1>3, <1>4 DEF Best

\* Of rows of a sequence that are not none, one is the last.
LEMMA LastRow ==
  ASSUME NEW n \in Nat, NEW T \in SUBSET (1..n), T # {}
  PROVE  \E i \in T : \A j \in T : j <= i
  <1> DEFINE D == {n - i : i \in T}
  <1>1. \A i \in T : i \in 1..n /\ n - i \in Nat OBVIOUS
  <1>2. D \subseteq Nat /\ D # {} BY Zenon, <1>1
  <1>3. PICK x \in D : \A y \in D : x <= y BY <1>2, LowestNumber
  <1>4. PICK i \in T : x = n - i OBVIOUS
  <1>5. \A j \in T : n - i <= n - j BY <1>3, <1>4
  <1> QED BY <1>1, <1>5

\* What the view takes from a labeler is of the best one of those whose score counts.
LEMMA EndorsedByACandidate ==
  ASSUME RepTypeOK, NEW v \in AggregatedView(repRows), v.is.source # Local
  PROVE  v.is.source \in Candidates(repRows, v.about)
  <1> DEFINE scores == LocalScores(ToSet(repRows))
  <1>1. PICK s \in DOMAIN scores \cup {t \in {e.about : e \in OfKind(ToSet(repRows), "published")} :
                                         Candidates(repRows, t) # {}} :
          v = [about |-> s, is |-> Entry(repRows, scores, s)]
    BY DEF AggregatedView
  <1> HIDE DEF scores
  <1>2. v.about = s /\ v.is = Entry(repRows, scores, s) BY <1>1
  <1>3. s \notin DOMAIN scores BY <1>2 DEF Entry
  <1>4. v.is.source = Best(Candidates(repRows, s)) BY <1>2, <1>3 DEF Entry
  <1>5. Candidates(repRows, s) \subseteq DOMAIN ActiveLabelers BY DEF Candidates
  <1>6. Candidates(repRows, s) # {} BY <1>1, <1>3
  <1> QED BY <1>2, <1>4, <1>5, <1>6, BestIsOneOfThem

\* A score that the view takes from a labeler is the last word of a labeler that the
\* user follows and has not muted.
LEMMA CurrentWhenEndorsed == RepTypeOK => EndorsedIsCurrent
  <1> SUFFICES ASSUME RepTypeOK, NEW v \in AggregatedView(repRows), v.is.source # Local
               PROVE  /\ v.is.source \notin muted
                      /\ \E i \in DOMAIN repRows :
                           /\ repRows[i].kind = "published" /\ repRows[i].about = v.about
                           /\ Publisher[repRows[i].id] = v.is.source
                           /\ \A j \in (i + 1)..Len(repRows) :
                                ~(/\ repRows[j].kind \in {"published", "removed"}
                                  /\ repRows[j].about = v.about
                                  /\ Publisher[repRows[j].id] = v.is.source)
    BY DEF EndorsedIsCurrent
  <1> DEFINE l == v.is.source
             T == From(repRows, "published", l, v.about)
  <1>1. l \in Candidates(repRows, v.about) BY EndorsedByACandidate
  <1>2. l \in DOMAIN ActiveLabelers /\ T # {} /\ From(repRows, "removed", l, v.about) = {}
    BY <1>1 DEF Candidates
  <1>3. Len(repRows) \in Nat /\ DOMAIN repRows = 1..Len(repRows) BY DEF RepTypeOK
  <1>4. T \subseteq 1..Len(repRows) BY <1>3 DEF From
  <1>5. PICK i \in T : \A j \in T : j <= i BY <1>2, <1>3, <1>4, LastRow
  <1>6. ASSUME NEW j \in (i + 1)..Len(repRows)
        PROVE  ~(/\ repRows[j].kind \in {"published", "removed"}
                 /\ repRows[j].about = v.about
                 /\ Publisher[repRows[j].id] = l)
    <2>1. j \in DOMAIN repRows /\ j \notin T BY <1>3, <1>4, <1>5
    <2>2. j \notin From(repRows, "removed", l, v.about) BY <1>2
    <2> QED BY <2>1, <2>2 DEF From
  <1>7. l \notin muted BY <1>2, PrioritiesAreNumbers
  <1> QED BY <1>4, <1>5, <1>6, <1>7 DEF From

\* EndorsedIsCurrent holds throughout.
THEOREM RepEndorsedIsCurrent == RepSpec => []EndorsedIsCurrent
BY RepTypeCorrect, CurrentWhenEndorsed, PTL

(***************************************************************************)
(* CliquesAreFound of CliqueSearch, for any number of nodes and any edges. *)
(*                                                                         *)
(* What ReachedFrom counts step by step is the least set that holds the    *)
(* node and that no edge leaves: a set that grows with every step is full  *)
(* after as many steps as there are nodes. The nodes on the stack from the *)
(* last frame's on reach it, it reaches them, and when its link is its own *)
(* index every edge from them leads to one of them or to a component: so   *)
(* that they are all that reach it and that it reaches.                    *)
(***************************************************************************)

\* The nodes one step further.
OneOn(G, S) == S \cup {e[2] : e \in {f \in G : f[1] \in S}}

\* ReachedFrom in a graph.
Reach(G, v) ==
  LET reach[k \in 0..CliqueNodes] ==
        IF k = 0 THEN {v}
        ELSE reach[k - 1] \cup {e[2] : e \in {f \in G : f[1] \in reach[k - 1]}}
  IN reach[CliqueNodes]

LEMMA ReachedIs ==
  ASSUME NEW v
  PROVE  ReachedFrom(v) = Reach(edges, v)
  BY DEF ReachedFrom, Reach

LEMMA ReachedIsNext ==
  ASSUME NEW v
  PROVE  ReachedFrom(v)' = Reach(edges', v)
  BY DEF ReachedFrom, Reach

\* The sets of nodes within k steps, up to n.
Ways(G, v, n) ==
  {F \in [0..n -> SUBSET CliqueIds] :
     F[0] = {v} /\ \A k \in 1..n : F[k] = OneOn(G, F[k - 1])}

LEMMA OneOnType ==
  ASSUME NEW G \in SUBSET (CliqueIds \X CliqueIds), NEW S \in SUBSET CliqueIds
  PROVE  OneOn(G, S) \in SUBSET CliqueIds
  BY DEF OneOn

LEMMA WaysExist ==
  ASSUME NEW G \in SUBSET (CliqueIds \X CliqueIds), NEW v \in CliqueIds, NEW m \in Nat
  PROVE  Ways(G, v, m) # {}
  <1> DEFINE T == {n \in Nat : Ways(G, v, n) = {}}
  <1> SUFFICES ASSUME T # {} PROVE FALSE OBVIOUS
  <1>1. PICK n \in T : \A j \in T : n <= j BY LowestNumber
  <1>2. n # 0
    <2>1. [k \in 0..0 |-> {v}] \in Ways(G, v, 0) BY DEF Ways
    <2> QED BY <2>1
  <1>3. PICK F : F \in Ways(G, v, n - 1) BY <1>1, <1>2
  <1>4. /\ F \in [0..(n - 1) -> SUBSET CliqueIds] /\ F[0] = {v}
        /\ \A k \in 1..(n - 1) : F[k] = OneOn(G, F[k - 1]) BY <1>3 DEF Ways
  <1>5. PICK last \in SUBSET CliqueIds : last = OneOn(G, F[n - 1]) BY <1>2, <1>4, OneOnType
  <1>6. PICK H : H = [k \in 0..n |-> IF k = n THEN last ELSE F[k]] OBVIOUS
  <1>7. H \in [0..n -> SUBSET CliqueIds] BY <1>2, <1>4, <1>6
  <1>8. H[0] = {v} BY <1>2, <1>4, <1>6
  <1>9. \A k \in 1..n : H[k] = OneOn(G, H[k - 1])
    <2> SUFFICES ASSUME NEW k \in 1..n PROVE H[k] = OneOn(G, H[k - 1]) OBVIOUS
    <2>1. H[k - 1] = F[k - 1] BY <1>6
    <2>2. CASE k = n BY <2>1, <2>2, <1>5, <1>6
    <2>3. CASE k # n BY <2>1, <2>3, <1>4, <1>6
    <2> QED BY <2>2, <2>3
  <1> QED BY <1>1, <1>7, <1>8, <1>9 DEF Ways

LEMMA ReachIsWay ==
  ASSUME NEW G \in SUBSET (CliqueIds \X CliqueIds), NEW v \in CliqueIds
  PROVE  \E F \in Ways(G, v, CliqueNodes) : Reach(G, v) = F[CliqueNodes]
  <1> USE CliqueAssumption DEF CliqueAssumption
  <1> DEFINE Steps(F) == F = [k \in 0..CliqueNodes |->
                                IF k = 0 THEN {v}
                                ELSE F[k - 1] \cup {e[2] : e \in {f \in G : f[1] \in F[k - 1]}}]
             R == CHOOSE F : Steps(F)
  <1>1. PICK F : F \in Ways(G, v, CliqueNodes) BY WaysExist
  <1>2. /\ F \in [0..CliqueNodes -> SUBSET CliqueIds] /\ F[0] = {v}
        /\ \A k \in 1..CliqueNodes : F[k] = OneOn(G, F[k - 1]) BY <1>1 DEF Ways
  <1>3. Steps(F) BY <1>2 DEF OneOn
  <1>4. Steps(R) BY <1>3
  <1>5. Reach(G, v) = R[CliqueNodes] BY Zenon DEF Reach
  <1>6. PICK Q : Q = R OBVIOUS
  <1>7. Steps(Q) BY <1>4, <1>6
  <1>8. \A k \in 0..CliqueNodes : Q[k] = F[k]
    <2> DEFINE T == {k \in 0..CliqueNodes : Q[k] # F[k]}
    <2> SUFFICES ASSUME T # {} PROVE FALSE OBVIOUS
    <2>0. T \in SUBSET Nat OBVIOUS
    <2>1. PICK n \in T : \A j \in T : n <= j
      <3> HIDE DEF T
      <3> QED BY <2>0, LowestNumber
    <2>2. n # 0 BY <1>2, <1>7, <2>1
    <2>3. Q[n - 1] = F[n - 1] BY <2>1, <2>2
    <2>4. Q[n] = OneOn(G, Q[n - 1]) BY <1>7, <2>2 DEF OneOn
    <2> QED BY <2>1, <2>2, <2>3, <2>4, <1>2
  <1>9. Reach(G, v) = F[CliqueNodes] BY <1>5, <1>6, <1>8
  <1> QED BY <1>1, <1>9

LEMMA ReachLeast ==
  ASSUME NEW G \in SUBSET (CliqueIds \X CliqueIds), NEW v \in CliqueIds,
         NEW S, v \in S, \A x, y \in CliqueIds : <<x, y>> \in G /\ x \in S => y \in S
  PROVE  /\ Reach(G, v) \subseteq S /\ Reach(G, v) \subseteq CliqueIds
         /\ v \in Reach(G, v)
  <1> USE CliqueAssumption DEF CliqueAssumption
  <1>1. PICK F \in Ways(G, v, CliqueNodes) : Reach(G, v) = F[CliqueNodes] BY ReachIsWay
  <1>2. /\ F \in [0..CliqueNodes -> SUBSET CliqueIds] /\ F[0] = {v}
        /\ \A k \in 1..CliqueNodes : F[k] = OneOn(G, F[k - 1]) BY <1>1 DEF Ways
  <1> DEFINE T == {k \in 0..CliqueNodes : ~(F[k] \subseteq S /\ v \in F[k])}
  <1>3. T = {}
    <2> SUFFICES ASSUME T # {} PROVE FALSE OBVIOUS
    <2>0. T \in SUBSET Nat OBVIOUS
    <2>1. PICK n \in T : \A j \in T : n <= j
      <3> HIDE DEF T
      <3> QED BY <2>0, LowestNumber
    <2>2. n # 0 BY <1>2, <2>1
    <2>3. F[n - 1] \subseteq S /\ v \in F[n - 1] BY <2>1, <2>2
    <2>4. F[n] = OneOn(G, F[n - 1]) /\ F[n - 1] \subseteq CliqueIds BY <1>2, <2>2
    <2>5. v \in F[n] BY <2>3, <2>4 DEF OneOn
    <2>6. ASSUME NEW y \in F[n] PROVE y \in S
      <3>1. CASE y \in F[n - 1] BY <3>1, <2>3
      <3>2. CASE y \notin F[n - 1]
        <4>1. PICK e \in G : e[1] \in F[n - 1] /\ y = e[2] BY <3>2, <2>4 DEF OneOn
        <4>2. e = <<e[1], e[2]>> /\ e[1] \in CliqueIds /\ e[2] \in CliqueIds OBVIOUS
        <4> QED BY <4>1, <4>2, <2>3
      <3> QED BY <3>1, <3>2
    <2> QED BY <2>1, <2>5, <2>6
  <1> QED BY <1>1, <1>2, <1>3

LEMMA ReachSelf ==
  ASSUME NEW G \in SUBSET (CliqueIds \X CliqueIds), NEW v \in CliqueIds
  PROVE  v \in Reach(G, v) /\ Reach(G, v) \subseteq CliqueIds
  BY ReachLeast, v \in CliqueIds

\* A set that grows with every step is full after as many as there are nodes.
LEMMA ReachClosed ==
  ASSUME NEW G \in SUBSET (CliqueIds \X CliqueIds), NEW v \in CliqueIds,
         NEW x \in CliqueIds, NEW y \in CliqueIds, <<x, y>> \in G, x \in Reach(G, v)
  PROVE  y \in Reach(G, v)
  <1> USE CliqueAssumption DEF CliqueAssumption
  <1>1. PICK F \in Ways(G, v, CliqueNodes) : Reach(G, v) = F[CliqueNodes] BY ReachIsWay
  <1>2. /\ F \in [0..CliqueNodes -> SUBSET CliqueIds] /\ F[0] = {v}
        /\ \A k \in 1..CliqueNodes : F[k] = OneOn(G, F[k - 1]) BY <1>1 DEF Ways
  <1>3. IsFiniteSet(CliqueIds) /\ Cardinality(CliqueIds) = CliqueNodes
    BY FS_Interval DEF CliqueIds
  <1>4. \A k \in 0..CliqueNodes : IsFiniteSet(F[k]) /\ Cardinality(F[k]) \in Nat
    BY <1>2, <1>3, FS_Subset, FS_CardinalityType
  <1>5. \A k \in 1..CliqueNodes : F[k - 1] \subseteq F[k] BY <1>2 DEF OneOn
  <1> DEFINE Still == {k \in 1..CliqueNodes : F[k] = F[k - 1]}
  <1>6. Still # {}
    <2> SUFFICES ASSUME Still = {} PROVE FALSE OBVIOUS
    <2> DEFINE T == {k \in 0..CliqueNodes : Cardinality(F[k]) < k + 1}
    <2>1. T = {}
      <3> SUFFICES ASSUME T # {} PROVE FALSE OBVIOUS
      <3>0. T \in SUBSET Nat OBVIOUS
      <3>1. PICK n \in T : \A j \in T : n <= j
        <4> HIDE DEF T
        <4> QED BY <3>0, LowestNumber
      <3>2. n # 0
        <4>1. Cardinality(F[0]) = 1 BY <1>2, FS_Singleton
        <4> QED BY <3>1, <4>1
      <3>3. Cardinality(F[n - 1]) >= n BY <3>1, <3>2, <1>4
      <3>4. F[n - 1] \subseteq F[n] /\ F[n - 1] # F[n]
        <4>1. n \in 1..CliqueNodes BY <3>2
        <4>2. F[n - 1] \subseteq F[n] BY <4>1, <1>5
        <4>3. n \notin Still OBVIOUS
        <4> QED BY <4>1, <4>2, <4>3
      <3>5. Cardinality(F[n - 1]) < Cardinality(F[n]) BY <3>2, <3>4, <1>4, FS_Subset
      <3> QED BY <3>1, <3>2, <3>3, <3>5, <1>4
    <2>2. Cardinality(F[CliqueNodes]) >= CliqueNodes + 1 BY <2>1, <1>4
    <2>3. Cardinality(F[CliqueNodes]) <= CliqueNodes BY <1>2, <1>3, FS_Subset
    <2> QED BY <2>2, <2>3, <1>4
  <1>7. PICK s \in Still : TRUE BY <1>6
  <1> DEFINE U == {k \in s..CliqueNodes : F[k] # F[s]}
  <1>8. U = {}
    <2> SUFFICES ASSUME U # {} PROVE FALSE OBVIOUS
    <2>0. U \in SUBSET Nat OBVIOUS
    <2>1. PICK n \in U : \A j \in U : n <= j
      <3> HIDE DEF U
      <3> QED BY <2>0, LowestNumber
    <2>2. n # s BY <2>1
    <2>3. F[n - 1] = F[s] BY <2>1, <2>2
    <2>4. F[n] = OneOn(G, F[s]) BY <2>2, <2>3, <1>2
    <2>5. F[s] = OneOn(G, F[s]) BY <1>2, <1>7
    <2> QED BY <2>1, <2>4, <2>5
  <1>9. F[CliqueNodes] = F[s] /\ F[s - 1] = F[s] BY <1>7, <1>8
  <1>10. F[s] = OneOn(G, F[s - 1]) BY <1>2, <1>7
  <1>11. \A e \in G : e[1] \in F[s - 1] => e[2] \in F[s] BY <1>10 DEF OneOn
  <1> QED BY <1>1, <1>9, <1>11

LEMMA ReachOn ==
  ASSUME NEW G \in SUBSET (CliqueIds \X CliqueIds), NEW v \in CliqueIds, NEW w \in Reach(G, v)
  PROVE  Reach(G, w) \subseteq Reach(G, v)
  BY ReachSelf, ReachClosed, ReachLeast


(***************************************************************************)
(* The invariant of the search.                                            *)
(***************************************************************************)
OnStack == ToSet(stack)
Found == UNION sccs

\* Stack and frames are in the order in which the search has met their nodes; what was
\* met is on the stack or in a component, and there are as many indexes as such nodes.
SearchOrder ==
  /\ \A i, j \in DOMAIN stack : i < j => index[stack[i]] < index[stack[j]]
  /\ \A i, j \in DOMAIN work : i < j => index[work[i].v] < index[work[j].v]
  /\ \A i \in DOMAIN work : work[i].v \in OnStack
  /\ Met = OnStack \cup Found
  /\ OnStack \cap Found = {}
  /\ \A v \in CliqueIds : index[v] <= Cardinality(Met)

\* A frame was entered from the one below; an edge that is still to be followed is one of
\* a frame; no edge leaves the components.
SearchEdges ==
  /\ \A i \in DOMAIN work : i < Len(work) => <<work[i].v, work[i + 1].v>> \in edges
  /\ \A i \in DOMAIN work : \A y \in work[i].left : <<work[i].v, y>> \in edges
  /\ \A x, y \in CliqueIds : <<x, y>> \in edges /\ x \in Met =>
       y \in Met \/ \E i \in DOMAIN work : work[i].v = x /\ y \in work[i].left
  /\ \A x, y \in CliqueIds : <<x, y>> \in edges /\ x \in Found => y \in Found

\* A frame's node reaches all that came onto the stack later, and every node on the
\* stack reaches one of a frame that came before.
SearchReach ==
  /\ \A i \in DOMAIN work, y \in OnStack :
       index[work[i].v] <= index[y] => y \in Reach(edges, work[i].v)
  /\ \A y \in OnStack : \E i \in DOMAIN work :
       index[work[i].v] <= index[y] /\ work[i].v \in Reach(edges, y)

\* The link of a frame is the index of a node on the stack that its node reaches, and
\* no greater than that of any node to which an edge leads that was followed from the
\* node or from one that came after it and before the next frame.
SearchLinks ==
  /\ \A i \in DOMAIN work :
       /\ lowLink[work[i].v] <= index[work[i].v]
       /\ \E u \in OnStack : index[u] = lowLink[work[i].v] /\ u \in Reach(edges, work[i].v)
  /\ \A i \in DOMAIN work, x, y \in OnStack :
       /\ <<x, y>> \in edges
       /\ index[work[i].v] <= index[x]
       /\ i < Len(work) => index[x] < index[work[i + 1].v]
       /\ ~(x = work[i].v /\ y \in work[i].left)
       => lowLink[work[i].v] <= index[y]

\* The components that were found.
SearchFound ==
  \A scc \in sccs : \A v \in scc :
    scc = {w \in Reach(edges, v) : v \in Reach(edges, w)}

SearchInv ==
  CliqueTypeOK /\ SearchOrder /\ SearchEdges /\ SearchReach /\ SearchLinks /\ SearchFound

Frames == [v: CliqueIds, left: SUBSET CliqueIds]

LEMMA AppendFacts ==
  ASSUME NEW S, NEW s \in Seq(S), NEW v \in S
  PROVE  /\ Len(s) \in Nat /\ DOMAIN s = 1..Len(s)
         /\ DOMAIN Append(s, v) = 1..(Len(s) + 1) /\ Append(s, v)[Len(s) + 1] = v
         /\ \A i \in 1..Len(s) : Append(s, v)[i] = s[i] /\ s[i] \in ToSet(s)
         /\ ToSet(Append(s, v)) = ToSet(s) \cup {v} /\ ToSet(s) \subseteq S
  <1> DEFINE t == Append(s, v)
  <1>1. /\ Len(s) \in Nat /\ DOMAIN s = 1..Len(s)
        /\ DOMAIN t = 1..(Len(s) + 1) /\ t[Len(s) + 1] = v
        /\ \A i \in 1..Len(s) : t[i] = s[i] /\ s[i] \in S
    OBVIOUS
  <1> HIDE DEF t
  <1>2. \A x : x \in ToSet(t) <=> \E i \in 1..(Len(s) + 1) : x = t[i] BY <1>1 DEF ToSet
  <1>3. \A x : x \in ToSet(s) <=> \E i \in 1..Len(s) : x = s[i] BY <1>1 DEF ToSet
  <1>4. /\ \A i \in 1..Len(s) : s[i] \in ToSet(s)
        /\ ToSet(t) = ToSet(s) \cup {v} /\ ToSet(s) \subseteq S
    BY <1>1, <1>2, <1>3
  <1> QED BY <1>1, <1>4 DEF t

LEMMA MetSize ==
  ASSUME CliqueTypeOK
  PROVE  /\ Met \subseteq CliqueIds /\ IsFiniteSet(Met) /\ Cardinality(Met) \in Nat
         /\ \A v \in CliqueIds \ Met :
              Cardinality(Met \cup {v}) = Cardinality(Met) + 1
              /\ Cardinality(Met) + 1 <= CliqueNodes
  <1> USE CliqueAssumption DEF CliqueAssumption
  <1>1. IsFiniteSet(CliqueIds) /\ Cardinality(CliqueIds) = CliqueNodes
    BY FS_Interval DEF CliqueIds
  <1>2. Met \subseteq CliqueIds BY DEF Met
  <1>3. IsFiniteSet(Met) /\ Cardinality(Met) \in Nat BY <1>1, <1>2, FS_Subset, FS_CardinalityType
  <1>4. ASSUME NEW v \in CliqueIds \ Met
        PROVE  /\ Cardinality(Met \cup {v}) = Cardinality(Met) + 1
               /\ Cardinality(Met) + 1 <= CliqueNodes
    <2>1. Cardinality(Met \cup {v}) = Cardinality(Met) + 1 BY <1>3, FS_AddElement
    <2>2. Met \cup {v} \subseteq CliqueIds BY <1>2
    <2>3. Cardinality(Met \cup {v}) <= CliqueNodes BY <1>1, <2>2, FS_Subset
    <2> QED BY <2>1, <2>3
  <1> QED BY <1>2, <1>3, <1>4

\* A node is met; the frames below it are those there were, but for the node among
\* their successors.
LEMMA EnterKeeps ==
  ASSUME SearchInv, NEW v \in CliqueIds, index[v] = 0,
         NEW frames \in Seq(Frames), Len(frames) = Len(work),
         \A i \in DOMAIN work : /\ frames[i].v = work[i].v
                                /\ frames[i].left \subseteq work[i].left
                                /\ work[i].left \subseteq frames[i].left \cup {v},
         work # <<>> => <<work[Len(work)].v, v>> \in edges,
         Enter(v, frames)
  PROVE  SearchInv'
  <1> USE CliqueAssumption DEF CliqueAssumption
  <1> DEFINE n == Cardinality(Met) + 1
  <1>1. /\ edges \in SUBSET (CliqueIds \X CliqueIds)
        /\ index \in [CliqueIds -> 0..CliqueNodes]
        /\ lowLink \in [CliqueIds -> 0..CliqueNodes]
        /\ stack \in Seq(CliqueIds) /\ work \in Seq(Frames)
        /\ sccs \subseteq SUBSET CliqueIds
    BY DEF SearchInv, CliqueTypeOK, Frames
  <1>2. /\ v \notin Met /\ Met \subseteq CliqueIds /\ n \in 1..CliqueNodes
        /\ Cardinality(Met \cup {v}) = n /\ IsFiniteSet(Met)
    BY MetSize DEF SearchInv, Met
  <1>3. PICK m \in 1..CliqueNodes : m = n BY <1>2
  <1>4. /\ index' = [index EXCEPT ![v] = m] /\ lowLink' = [lowLink EXCEPT ![v] = m]
        /\ stack' = Append(stack, v) /\ edges' = edges /\ sccs' = sccs
        /\ work' = Append(frames, [v |-> v, left |-> Successors(v)])
    BY <1>3 DEF Enter
  <1>5. Met' = Met \cup {v} BY <1>1, <1>4 DEF Met
  <1>6. OnStack' = OnStack \cup {v} /\ OnStack \subseteq CliqueIds
    <2>1. OnStack' = ToSet(stack') BY DEF OnStack, ToSet
    <2>2. PICK t : t = stack' OBVIOUS
    <2>4. t = Append(stack, v) /\ stack \in Seq(CliqueIds) BY <2>2, <1>1, <1>4
    <2>3. ToSet(t) = ToSet(stack) \cup {v} /\ ToSet(stack) \subseteq CliqueIds
      <3>1. PICK s : s = stack OBVIOUS
      <3>2. ToSet(t) = ToSet(s) \cup {v} /\ ToSet(s) \subseteq CliqueIds
        <4> HIDE <1>2
        <4> QED BY <2>4, <3>1, AppendFacts
      <3> QED BY <3>1, <3>2
    <2> QED BY <2>1, <2>2, <2>3 DEF OnStack
  <1>7. Found' = Found BY <1>4 DEF Found
  <1>8. OnStack \subseteq Met /\ Found \subseteq Met /\ OnStack \cap Found = {}
    BY DEF SearchInv, SearchOrder
  <1>9. /\ index'[v] = m /\ lowLink'[v] = m
        /\ \A x \in CliqueIds \ {v} : index'[x] = index[x] /\ lowLink'[x] = lowLink[x]
        /\ \A x \in CliqueIds : index[x] < m
    <2>1. \A x \in CliqueIds : index[x] <= Cardinality(Met) BY DEF SearchInv, SearchOrder
    <2>2. Cardinality(Met) \in Nat BY MetSize DEF SearchInv
    <2>3. \A x \in CliqueIds : index[x] < m BY <2>1, <2>2, <1>1, <1>3
    <2> QED BY <2>3, <1>1, <1>4
  <1>10. /\ DOMAIN work' = 1..(Len(work) + 1) /\ Len(work') = Len(work) + 1
         /\ DOMAIN work = 1..Len(work) /\ Len(work) \in Nat
         /\ work'[Len(work) + 1] = [v |-> v, left |-> Successors(v)]
         /\ \A i \in DOMAIN work : /\ work'[i].v = work[i].v /\ work[i].v \in CliqueIds
                                   /\ work'[i].left \subseteq work[i].left
                                   /\ work[i].left \subseteq work'[i].left \cup {v}
                                   /\ work[i].v \in OnStack
    <2>1. PICK f : f = [v |-> v, left |-> Successors(v)] OBVIOUS
    <2>2. f \in Frames BY <2>1 DEF Frames, Successors
    <2>3. /\ Len(frames) \in Nat /\ DOMAIN frames = 1..Len(frames)
          /\ Len(work') = Len(frames) + 1 /\ DOMAIN work' = 1..(Len(frames) + 1)
          /\ work'[Len(frames) + 1] = f
          /\ \A i \in 1..Len(frames) : work'[i] = frames[i]
      BY <2>1, <2>2, <1>4, AppendFacts
    <2>4. DOMAIN work = 1..Len(work) /\ \A i \in DOMAIN work : work[i] \in Frames BY <1>1
    <2>5. \A i \in DOMAIN work : work[i].v \in CliqueIds BY <2>4 DEF Frames
    <2>6. \A i \in DOMAIN work : work[i].v \in OnStack BY DEF SearchInv, SearchOrder
    <2>7. DOMAIN work = DOMAIN frames /\ DOMAIN frames = 1..Len(work) BY <2>3, <2>4
    <2>8. \A i \in DOMAIN work : /\ work'[i].v = work[i].v
                                 /\ work'[i].left \subseteq work[i].left
                                 /\ work[i].left \subseteq work'[i].left \cup {v}
      BY <2>3, <2>7
    <2> HIDE DEF OnStack
    <2> QED BY <2>1, <2>3, <2>4, <2>5, <2>6, <2>7, <2>8
  <1>11. CliqueTypeOK'
    <2>1. [v |-> v, left |-> Successors(v)] \in Frames BY DEF Frames, Successors
    <2>2. work' \in Seq(Frames) BY <2>1, <1>4
    <2>3. index' \in [CliqueIds -> 0..CliqueNodes] /\ lowLink' \in [CliqueIds -> 0..CliqueNodes]
      BY <1>1, <1>4
    <2> QED BY <1>1, <1>4, <2>2, <2>3 DEF CliqueTypeOK, Frames
  <1>12. SearchOrder'
    <2>1. \A i, j \in DOMAIN stack' : i < j => index'[stack'[i]] < index'[stack'[j]]
      <3>1. /\ DOMAIN stack' = 1..(Len(stack) + 1) /\ DOMAIN stack = 1..Len(stack)
            /\ Len(stack) \in Nat /\ stack'[Len(stack) + 1] = v
            /\ \A i \in DOMAIN stack : stack'[i] = stack[i] /\ stack[i] \in OnStack
        <4>1. PICK t : t = stack' OBVIOUS
        <4>3. t = Append(stack, v) /\ stack \in Seq(CliqueIds) BY <4>1, <1>1, <1>4
        <4>2. /\ DOMAIN t = 1..(Len(stack) + 1) /\ DOMAIN stack = 1..Len(stack)
              /\ Len(stack) \in Nat /\ t[Len(stack) + 1] = v
              /\ \A i \in 1..Len(stack) : t[i] = stack[i] /\ stack[i] \in ToSet(stack)
          <5>1. PICK s : s = stack OBVIOUS
          <5>2. /\ DOMAIN t = 1..(Len(s) + 1) /\ DOMAIN s = 1..Len(s)
                /\ Len(s) \in Nat /\ t[Len(s) + 1] = v
                /\ \A i \in 1..Len(s) : t[i] = s[i] /\ s[i] \in ToSet(s)
            BY <4>3, <5>1, AppendFacts
          <5> QED BY <5>1, <5>2
        <4> QED BY <4>1, <4>2 DEF OnStack
      <3>2. \A x \in OnStack : x # v /\ index'[x] = index[x] /\ index'[x] < m
        BY <1>2, <1>6, <1>8, <1>9
      <3>3. \A i, j \in DOMAIN stack : i < j => index[stack[i]] < index[stack[j]]
        BY DEF SearchInv, SearchOrder
      <3> QED BY <3>1, <3>2, <3>3, <1>9
    <2>2. \A i, j \in DOMAIN work' : i < j => index'[work'[i].v] < index'[work'[j].v]
      <3>1. \A x \in OnStack : x # v /\ index'[x] = index[x] /\ index'[x] < m
        BY <1>2, <1>6, <1>8, <1>9
      <3>2. \A i, j \in DOMAIN work : i < j => index[work[i].v] < index[work[j].v]
        BY DEF SearchInv, SearchOrder
      <3> QED BY <3>1, <3>2, <1>9, <1>10
    <2>3. \A i \in DOMAIN work' : work'[i].v \in OnStack' BY <1>6, <1>10
    <2>4. Met' = OnStack' \cup Found' /\ OnStack' \cap Found' = {}
      BY <1>2, <1>5, <1>6, <1>7, <1>8 DEF SearchInv, SearchOrder
    <2>5. \A x \in CliqueIds : index'[x] <= Cardinality(Met')
      <3>1. Cardinality(Met') = m BY <1>2, <1>3, <1>5
      <3>2. \A x \in CliqueIds : index[x] \in Nat BY <1>1
      <3> QED BY <3>1, <3>2, <1>3, <1>9
    <2> QED BY <2>1, <2>2, <2>3, <2>4, <2>5 DEF SearchOrder
  <1>13. SearchEdges'
    <2>1. \A i \in DOMAIN work' : i < Len(work') => <<work'[i].v, work'[i + 1].v>> \in edges'
      <3> SUFFICES ASSUME NEW i \in DOMAIN work', i < Len(work')
                   PROVE  <<work'[i].v, work'[i + 1].v>> \in edges
        BY <1>4
      <3>1. CASE i = Len(work)
        <4>1. work'[i + 1].v = v BY <3>1, <1>10
        <4>2. work # <<>> BY <3>1, <1>10
        <4>3. work'[i].v = work[Len(work)].v BY <3>1, <1>10
        <4> QED BY <4>1, <4>2, <4>3
      <3>2. CASE i < Len(work) BY <3>2, <1>10 DEF SearchInv, SearchEdges
      <3> QED BY <3>1, <3>2, <1>10
    <2>2. ASSUME NEW x \in CliqueIds, NEW y \in CliqueIds, <<x, y>> \in edges, x \in Met'
          PROVE  y \in Met' \/ \E i \in DOMAIN work' : work'[i].v = x /\ y \in work'[i].left
      <3>1. CASE x = v BY <3>1, <2>2, <1>10 DEF Successors
      <3>2. CASE x # v
        <4>1. y \in Met \/ \E i \in DOMAIN work : work[i].v = x /\ y \in work[i].left
          BY <3>2, <2>2, <1>5 DEF SearchInv, SearchEdges
        <4>2. CASE y = v BY <4>2, <1>5
        <4>3. CASE y # v BY <4>1, <4>3, <1>5, <1>10
        <4> QED BY <4>2, <4>3
      <3> QED BY <3>1, <3>2
    <2>3. ASSUME NEW i \in DOMAIN work', NEW y \in work'[i].left
          PROVE  <<work'[i].v, y>> \in edges
      <3>1. CASE i \in DOMAIN work BY <3>1, <2>3, <1>10 DEF SearchInv, SearchEdges
      <3>2. CASE i = Len(work) + 1 BY <3>2, <2>3, <1>10 DEF Successors
      <3> QED BY <3>1, <3>2, <1>10
    <2> QED BY <2>1, <2>2, <2>3, <1>4, <1>7 DEF SearchInv, SearchEdges
  <1>14. \A x \in OnStack : x # v /\ index'[x] = index[x] /\ index[x] < m /\ index[x] \in Nat
    BY <1>1, <1>2, <1>6, <1>8, <1>9
  <1>15. \A i \in DOMAIN work : v \in Reach(edges, work[i].v)
    <2> SUFFICES ASSUME NEW i \in DOMAIN work PROVE v \in Reach(edges, work[i].v) OBVIOUS
    <2> DEFINE top == work[Len(work)].v
    <2>1. index[work[i].v] <= index[top] /\ top \in OnStack
      BY <1>10, <1>14 DEF SearchInv, SearchOrder
    <2>2. top \in Reach(edges, work[i].v) BY <2>1 DEF SearchInv, SearchReach
    <2>3. <<top, v>> \in edges BY <1>10
    <2> HIDE DEF top
    <2> QED BY <2>1, <2>2, <2>3, <1>1, <1>6, <1>10, ReachClosed
  <1>16. SearchReach'
    <2>1. ASSUME NEW i \in DOMAIN work', NEW y \in OnStack', index'[work'[i].v] <= index'[y]
          PROVE  y \in Reach(edges, work'[i].v)
      <3>1. CASE i \in DOMAIN work
        <4>1. CASE y = v BY <3>1, <4>1, <1>10, <1>15
        <4>2. CASE y # v
          <5>1. y \in OnStack /\ index[work[i].v] <= index[y] BY <3>1, <4>2, <2>1, <1>6, <1>10, <1>14
          <5> QED BY <5>1, <3>1, <1>10 DEF SearchInv, SearchReach
        <4> QED BY <4>1, <4>2
      <3>2. CASE i = Len(work) + 1
        <4>1. y = v BY <3>2, <2>1, <1>6, <1>9, <1>10, <1>14
        <4> QED BY <4>1, <3>2, <1>1, <1>10, ReachSelf
      <3> QED BY <3>1, <3>2, <1>10
    <2>2. ASSUME NEW y \in OnStack'
          PROVE  \E i \in DOMAIN work' : /\ index'[work'[i].v] <= index'[y]
                                         /\ work'[i].v \in Reach(edges, y)
      <3>1. CASE y = v
        <4>1. v \in Reach(edges, v) BY <1>1, ReachSelf
        <4>2. work'[Len(work) + 1].v = v /\ Len(work) + 1 \in DOMAIN work' BY <1>10
        <4> QED BY <4>1, <4>2, <3>1, <1>9
      <3>2. CASE y # v
        <4>1. PICK i \in DOMAIN work : index[work[i].v] <= index[y] /\ work[i].v \in Reach(edges, y)
          BY <3>2, <1>6 DEF SearchInv, SearchReach
        <4>2. i \in DOMAIN work' /\ work'[i].v = work[i].v BY <1>10
        <4> QED BY <4>1, <4>2, <3>2, <1>6, <1>10, <1>14
      <3> QED BY <3>1, <3>2
    <2> QED BY <2>1, <2>2, <1>4 DEF SearchReach
  <1>17. SearchLinks'
    <2>1. ASSUME NEW i \in DOMAIN work'
          PROVE  /\ lowLink'[work'[i].v] <= index'[work'[i].v]
                 /\ \E u \in OnStack' : /\ index'[u] = lowLink'[work'[i].v]
                                        /\ u \in Reach(edges, work'[i].v)
      <3>1. CASE i \in DOMAIN work
        <4>1. /\ lowLink[work[i].v] <= index[work[i].v]
              /\ \E u \in OnStack : index[u] = lowLink[work[i].v] /\ u \in Reach(edges, work[i].v)
          BY <3>1 DEF SearchInv, SearchLinks
        <4>2. work[i].v \in OnStack /\ work'[i].v = work[i].v /\ lowLink'[work[i].v] = lowLink[work[i].v]
          BY <3>1, <1>9, <1>10, <1>14
        <4> QED BY <4>1, <4>2, <1>6, <1>14
      <3>2. CASE i = Len(work) + 1
        <4>1. v \in Reach(edges, v) BY <1>1, ReachSelf
        <4>2. work'[i].v = v BY <3>2, <1>10
        <4> QED BY <4>1, <4>2, <1>6, <1>9
      <3> QED BY <3>1, <3>2, <1>10
    <2>2. ASSUME NEW i \in DOMAIN work', NEW x \in OnStack', NEW y \in OnStack',
                 <<x, y>> \in edges, index'[work'[i].v] <= index'[x],
                 i < Len(work') => index'[x] < index'[work'[i + 1].v],
                 ~(x = work'[i].v /\ y \in work'[i].left)
          PROVE  lowLink'[work'[i].v] <= index'[y]
      <3>1. CASE i \in DOMAIN work
        <4>1. work[i].v \in OnStack /\ work'[i].v = work[i].v /\ lowLink'[work[i].v] = lowLink[work[i].v]
          BY <3>1, <1>9, <1>10, <1>14
        <4>2. lowLink[work[i].v] <= index[work[i].v] BY <3>1 DEF SearchInv, SearchLinks
        <4>3. CASE y = v
          <5>1. lowLink[work[i].v] \in Nat /\ index[work[i].v] \in Nat /\ index[work[i].v] < m
            BY <4>1, <1>1, <1>6, <1>14
          <5>2. index'[y] = m BY <4>3, <1>9
          <5> QED BY <5>1, <5>2, <4>1, <4>2, <1>3
        <4>4. CASE x = v
          <5>1. i < Len(work') /\ index'[x] = m BY <3>1, <4>4, <1>9, <1>10
          <5>2. index'[work'[i + 1].v] <= m
            <6>1. CASE i + 1 \in DOMAIN work
              <7>1. work'[i + 1].v \in OnStack BY <6>1, <1>10
              <7> QED BY <7>1, <1>3, <1>14
            <6>2. CASE i + 1 = Len(work) + 1 BY <6>2, <1>3, <1>9, <1>10
            <6> QED BY <6>1, <6>2, <3>1, <1>10
          <5>3. index'[work'[i + 1].v] \in Nat
            <6>1. CASE i + 1 \in DOMAIN work
              <7>1. work'[i + 1].v \in OnStack BY <6>1, <1>10
              <7> QED BY <7>1, <1>14
            <6>2. CASE i + 1 = Len(work) + 1 BY <6>2, <1>3, <1>9, <1>10
            <6> QED BY <6>1, <6>2, <3>1, <1>10
          <5> QED BY <5>1, <5>2, <5>3, <2>2, <1>3
        <4>5. CASE x # v /\ y # v
          <5>1. x \in OnStack /\ y \in OnStack /\ index[work[i].v] <= index[x]
            BY <4>5, <4>1, <2>2, <1>6, <1>14
          <5>2. i < Len(work) => index[x] < index[work[i + 1].v]
            <6> SUFFICES ASSUME i < Len(work) PROVE index[x] < index[work[i + 1].v] OBVIOUS
            <6>1. i + 1 \in DOMAIN work BY <3>1, <1>10
            <6>2. index'[work'[i + 1].v] = index[work[i + 1].v] BY <6>1, <1>10, <1>14
            <6> QED BY <6>1, <6>2, <5>1, <2>2, <1>10, <1>14
          <5>3. ~(x = work[i].v /\ y \in work[i].left) BY <4>1, <4>5, <2>2, <3>1, <1>10
          <5>4. lowLink[work[i].v] <= index[y]
            BY <5>1, <5>2, <5>3, <2>2, <3>1 DEF SearchInv, SearchLinks
          <5> QED BY <5>4, <5>1, <4>1, <1>14
        <4> QED BY <4>3, <4>4, <4>5
      <3>2. CASE i = Len(work) + 1
        <4>1. work'[i].v = v /\ work'[i].left = Successors(v) BY <3>2, <1>10
        <4>2. x = v BY <4>1, <2>2, <1>6, <1>9, <1>14
        <4>3. y \in CliqueIds BY <1>6
        <4>4. y \in Successors(v) BY <4>2, <4>3, <2>2 DEF Successors
        <4> QED BY <4>1, <4>2, <4>4, <2>2
      <3> QED BY <3>1, <3>2, <1>10
    <2> HIDE DEF OnStack
    <2> QED BY <2>1, <2>2, <1>4 DEF SearchLinks
  <1>18. SearchFound' BY <1>4 DEF SearchInv, SearchFound
  <1> QED BY <1>11, <1>12, <1>13, <1>16, <1>17, <1>18 DEF SearchInv


\* An edge to a node that was met is followed.
LEMMA FollowKeeps ==
  ASSUME SearchInv, PassSuccessor
  PROVE  SearchInv'
  <1> USE CliqueAssumption DEF CliqueAssumption
  <1>1. /\ edges \in SUBSET (CliqueIds \X CliqueIds)
        /\ index \in [CliqueIds -> 0..CliqueNodes]
        /\ lowLink \in [CliqueIds -> 0..CliqueNodes]
        /\ stack \in Seq(CliqueIds) /\ work \in Seq(Frames)
        /\ sccs \subseteq SUBSET CliqueIds
    BY DEF SearchInv, CliqueTypeOK, Frames
  <1>2. PICK l : l = Len(work) OBVIOUS
  <1>3. l \in Nat /\ l # 0 /\ DOMAIN work = 1..l /\ work[l] \in Frames
    BY <1>1, <1>2 DEF PassSuccessor
  <1>4. PICK v \in CliqueIds : v = work[l].v BY <1>3 DEF Frames
  <1>5. Frame = work[l] BY <1>2 DEF Frame, Last
  <1>6. PICK w : w = NextSuccessor OBVIOUS
  <1>7. w \in work[l].left /\ w \in CliqueIds /\ index[w] # 0
    <2>1. work[l].left \in SUBSET Nat /\ work[l].left # {} /\ work[l].left \subseteq CliqueIds
      BY <1>3, <1>5 DEF PassSuccessor, Frames, CliqueIds
    <2>2. PICK x \in work[l].left : \A y \in work[l].left : x <= y BY <2>1, LowestNumber
    <2>3. w \in work[l].left BY <1>5, <1>6, <2>2 DEF NextSuccessor, Min
    <2> QED BY <2>1, <2>3, <1>6 DEF PassSuccessor
  <1>8. PICK low : low = Lowest(v, w) OBVIOUS
  <1>9. /\ work' = [work EXCEPT ![l].left = @ \ {w}]
        /\ lowLink' = [lowLink EXCEPT ![v] = low]
        /\ edges' = edges /\ index' = index /\ stack' = stack /\ sccs' = sccs
    BY <1>2, <1>4, <1>5, <1>6, <1>8 DEF PassSuccessor, Passed
  <1>10. OnStack' = OnStack /\ Met' = Met /\ Found' = Found /\ OnStack \subseteq CliqueIds
    BY <1>1, <1>9 DEF OnStack, ToSet, Met, Found
  <1>11. /\ low \in 0..CliqueNodes /\ low <= lowLink[v]
         /\ low = lowLink[v] \/ (w \in OnStack /\ low = index[w])
         /\ w \in OnStack => low <= index[w]
    <2>1. CASE w \notin OnStack BY <2>1, <1>1, <1>4, <1>8 DEF Lowest, OnStack
    <2>2. CASE w \in OnStack
      <3>1. PICK a, b \in 0..CliqueNodes : a = lowLink[v] /\ b = index[w] BY <1>1, <1>4, <1>7
      <3>2. low = Min({a, b}) BY <2>2, <3>1, <1>8 DEF Lowest, OnStack
      <3>3. \E x \in {a, b} : \A y \in {a, b} : x <= y OBVIOUS
      <3>4. low \in {a, b} /\ \A y \in {a, b} : low <= y BY <3>2, <3>3 DEF Min
      <3> QED BY <2>2, <3>1, <3>4
    <2> QED BY <2>1, <2>2
  <1>12. /\ work' \in Seq(Frames) /\ Len(work') = l /\ DOMAIN work' = DOMAIN work
         /\ \A i \in DOMAIN work : /\ work'[i].v = work[i].v
                                   /\ work[i].v \in CliqueIds
                                   /\ work[i].v \in OnStack
                                   /\ i # l => work'[i] = work[i]
         /\ work'[l].left = work[l].left \ {w}
    <2>1. \A i \in DOMAIN work : work[i] \in Frames BY <1>1
    <2>2. PICK f : f = [work[l] EXCEPT !.left = @ \ {w}] OBVIOUS
    <2>3. f \in Frames /\ f.v = work[l].v /\ f.left = work[l].left \ {w} BY <1>3, <2>2 DEF Frames
    <2>4. work' = [work EXCEPT ![l] = f] BY <1>9, <2>2
    <2>5. work' \in Seq(Frames) /\ Len(work') = l /\ DOMAIN work' = DOMAIN work
      BY <1>1, <1>2, <1>3, <2>3, <2>4
    <2>6. \A i \in DOMAIN work : work'[i] = IF i = l THEN f ELSE work[i] BY <2>4
    <2>7. \A i \in DOMAIN work : work[i].v \in CliqueIds BY <2>1 DEF Frames
    <2>8. \A i \in DOMAIN work : work[i].v \in OnStack BY DEF SearchInv, SearchOrder
    <2> QED BY <2>3, <2>5, <2>6, <2>7, <2>8, <1>3
  <1>13. w \in Met BY <1>7 DEF Met
  <1>14. CliqueTypeOK' BY <1>1, <1>9, <1>11, <1>12 DEF CliqueTypeOK, Frames
  <1>15. SearchOrder'
    <2>1. \A i, j \in DOMAIN work : i < j => index[work[i].v] < index[work[j].v]
      BY DEF SearchInv, SearchOrder
    <2>2. \A i, j \in DOMAIN work' : i < j => index'[work'[i].v] < index'[work'[j].v]
      BY <2>1, <1>9, <1>12
    <2>3. \A i \in DOMAIN work' : work'[i].v \in OnStack' BY <1>10, <1>12
    <2>4. \A i, j \in DOMAIN stack' : i < j => index'[stack'[i]] < index'[stack'[j]]
      BY <1>9 DEF SearchInv, SearchOrder
    <2>5. /\ Met' = OnStack' \cup Found' /\ OnStack' \cap Found' = {}
          /\ \A x \in CliqueIds : index'[x] <= Cardinality(Met')
      BY <1>9, <1>10 DEF SearchInv, SearchOrder
    <2> QED BY <2>2, <2>3, <2>4, <2>5 DEF SearchOrder
  <1>16. SearchEdges'
    <2>1. \A i \in DOMAIN work' : i < Len(work') => <<work'[i].v, work'[i + 1].v>> \in edges'
      BY <1>2, <1>3, <1>9, <1>12 DEF SearchInv, SearchEdges
    <2>2. ASSUME NEW x \in CliqueIds, NEW y \in CliqueIds, <<x, y>> \in edges, x \in Met
          PROVE  y \in Met \/ \E i \in DOMAIN work' : work'[i].v = x /\ y \in work'[i].left
      <3>1. CASE y = w BY <3>1, <1>13
      <3>2. CASE y # w
        <4>1. y \in Met \/ \E i \in DOMAIN work : work[i].v = x /\ y \in work[i].left
          BY <2>2 DEF SearchInv, SearchEdges
        <4> QED BY <4>1, <3>2, <1>12
      <3> QED BY <3>1, <3>2
    <2>3. \A i \in DOMAIN work : \A y \in work'[i].left : y \in work[i].left BY <1>12
    <2>4. \A i \in DOMAIN work : \A y \in work'[i].left : <<work'[i].v, y>> \in edges
      BY <2>3, <1>12 DEF SearchInv, SearchEdges
    <2> QED BY <2>1, <2>2, <2>4, <1>9, <1>10, <1>12 DEF SearchInv, SearchEdges
  <1>17. SearchReach' BY <1>9, <1>10, <1>12 DEF SearchInv, SearchReach
  <1>18. \A i \in DOMAIN work : i # l => work[i].v # v
    <2>1. \A i \in DOMAIN work : i < l => index[work[i].v] < index[v]
      BY <1>3, <1>4 DEF SearchInv, SearchOrder
    <2>2. index[v] \in Nat BY <1>1, <1>4
    <2> TAKE i \in DOMAIN work
    <2> HAVE i # l
    <2>3. i < l BY <1>3
    <2>4. index[work[i].v] < index[v] BY <2>1, <2>3
    <2> QED BY <2>2, <2>4
  <1>19. lowLink'[v] = low /\ \A x \in CliqueIds \ {v} : lowLink'[x] = lowLink[x]
    BY <1>1, <1>9
  <1>20. /\ lowLink[v] <= index[v]
         /\ \E u \in OnStack : index[u] = lowLink[v] /\ u \in Reach(edges, v)
    BY <1>3, <1>4 DEF SearchInv, SearchLinks
  <1>21. w \in Reach(edges, v)
    <2>1. <<v, w>> \in edges BY <1>3, <1>4, <1>7 DEF SearchInv, SearchEdges
    <2> QED BY <2>1, <1>1, <1>7, ReachSelf, ReachClosed
  <1>22. SearchLinks'
    <2>1. ASSUME NEW i \in DOMAIN work
          PROVE  /\ lowLink'[work[i].v] <= index[work[i].v]
                 /\ \E u \in OnStack : /\ index[u] = lowLink'[work[i].v]
                                       /\ u \in Reach(edges, work[i].v)
      <3>1. CASE i = l
        <4>1. lowLink'[v] <= index[v] BY <1>1, <1>4, <1>11, <1>19, <1>20
        <4>2. \E u \in OnStack : index[u] = lowLink'[v] /\ u \in Reach(edges, v)
          BY <1>11, <1>19, <1>20, <1>21
        <4> QED BY <4>1, <4>2, <3>1, <1>4
      <3>2. CASE i # l
        <4>1. lowLink'[work[i].v] = lowLink[work[i].v] BY <3>2, <1>12, <1>18, <1>19
        <4> QED BY <4>1 DEF SearchInv, SearchLinks
      <3> QED BY <3>1, <3>2
    <2>2. ASSUME NEW i \in DOMAIN work, NEW x \in OnStack, NEW y \in OnStack,
                 <<x, y>> \in edges, index[work[i].v] <= index[x],
                 i < l => index[x] < index[work[i + 1].v],
                 ~(x = work[i].v /\ y \in work'[i].left)
          PROVE  lowLink'[work[i].v] <= index[y]
      <3>1. CASE i = l /\ x = v /\ y = w BY <3>1, <1>4, <1>11, <1>19
      <3>2. CASE ~(i = l /\ x = v /\ y = w)
        <4>1. ~(x = work[i].v /\ y \in work[i].left) BY <2>2, <3>2, <1>4, <1>12
        <4>2. lowLink[work[i].v] <= index[y] BY <4>1, <2>2, <1>2 DEF SearchInv, SearchLinks
        <4>3. lowLink'[work[i].v] <= lowLink[work[i].v] /\ work[i].v \in CliqueIds
          <5>1. work[i].v \in CliqueIds BY <1>12
          <5>2. CASE i = l BY <5>2, <1>4, <1>11, <1>19
          <5>3. CASE i # l
            <6>1. lowLink'[work[i].v] = lowLink[work[i].v] BY <5>1, <5>3, <1>18, <1>19
            <6>2. lowLink[work[i].v] \in Nat BY <5>1, <1>1
            <6> QED BY <5>1, <6>1, <6>2
          <5> QED BY <5>1, <5>2, <5>3
        <4>4. lowLink'[work[i].v] \in Nat /\ lowLink[work[i].v] \in Nat /\ index[y] \in Nat
          BY <4>3, <1>1, <1>10, <1>14 DEF CliqueTypeOK
        <4> QED BY <4>2, <4>3, <4>4
      <3> QED BY <3>1, <3>2
    <2> QED BY <2>1, <2>2, <1>9, <1>10, <1>12 DEF SearchLinks
  <1>23. SearchFound' BY <1>9 DEF SearchInv, SearchFound
  <1> QED BY <1>14, <1>15, <1>16, <1>17, <1>22, <1>23 DEF SearchInv


\* What holds of the frame that is left, whether or not its node is a root.
LEMMA LeaveFacts ==
  ASSUME SearchInv, LeaveNode, NEW l, l = Len(work), NEW v, v = work[l].v
  PROVE  /\ l \in Nat \ {0} /\ DOMAIN work = 1..l /\ v \in CliqueIds /\ v \in OnStack
         /\ Frame.v = v /\ work[l].left = {}
         /\ work' \in Seq(Frames) /\ Len(work') = l - 1 /\ DOMAIN work' = 1..(l - 1)
         /\ \A i \in 1..(l - 1) : work'[i] = work[i]
         /\ edges' = edges /\ index' = index
         /\ \A i \in 1..l : work[i].v \in CliqueIds /\ work[i].v \in OnStack
         /\ \A i \in 1..(l - 1) : index[work[i].v] < index[v]
         /\ lowLink[v] <= index[v]
         /\ \A x, y \in OnStack :
              <<x, y>> \in edges /\ index[v] <= index[x] => lowLink[v] <= index[y]
         /\ \A x, y \in CliqueIds :
              <<x, y>> \in edges /\ x \in OnStack /\ index[v] <= index[x] => y \in Met
  <1>1. /\ work \in Seq(Frames) /\ stack \in Seq(CliqueIds)
        /\ edges \in SUBSET (CliqueIds \X CliqueIds)
        /\ index \in [CliqueIds -> 0..CliqueNodes]
    BY DEF SearchInv, CliqueTypeOK, Frames
  <1>2. /\ l \in Nat \ {0} /\ DOMAIN work = 1..l BY <1>1 DEF LeaveNode
  <1>3. \A i \in 1..l : work[i] \in Frames BY <1>1, <1>2
  <1>4. \A i \in 1..l : work[i].v \in CliqueIds BY <1>3 DEF Frames
  <1>5. \A i \in 1..l : work[i].v \in OnStack BY <1>2 DEF SearchInv, SearchOrder
  <1>6. Frame.v = v /\ work[l].left = {} BY DEF LeaveNode, Frame, Last
  <1>7. /\ work' = SubSeq(work, 1, l - 1) /\ edges' = edges /\ index' = index
    BY DEF LeaveNode, Front
  <1>8. /\ work' \in Seq(Frames) /\ Len(work') = l - 1 /\ DOMAIN work' = 1..(l - 1)
        /\ \A i \in 1..(l - 1) : work'[i] = work[i]
    BY <1>1, <1>2, <1>7
  <1>9. \A i \in 1..(l - 1) : index[work[i].v] < index[v]
    BY <1>2 DEF SearchInv, SearchOrder
  <1>10. lowLink[v] <= index[v] BY <1>2 DEF SearchInv, SearchLinks
  <1>11. \A x, y \in OnStack :
           <<x, y>> \in edges /\ index[v] <= index[x] => lowLink[v] <= index[y]
    BY <1>2, <1>6 DEF SearchInv, SearchLinks
  <1>12. ASSUME NEW x \in CliqueIds, NEW y \in CliqueIds,
                <<x, y>> \in edges, x \in OnStack, index[v] <= index[x], y \notin Met
         PROVE  FALSE
    <2>1. x \in Met BY <1>12 DEF SearchInv, SearchOrder
    <2>2. PICK i \in DOMAIN work : work[i].v = x /\ y \in work[i].left
      BY <2>1, <1>12 DEF SearchInv, SearchEdges
    <2>3. i = l
      <3> SUFFICES ASSUME i # l PROVE FALSE OBVIOUS
      <3>1. index[x] < index[v] BY <2>2, <1>2, <1>9
      <3>2. index[x] \in Nat /\ index[v] \in Nat BY <1>1, <1>2, <1>4
      <3> QED BY <3>1, <3>2, <1>12
    <2> QED BY <2>2, <2>3, <1>6
  <1> QED BY <1>2, <1>4, <1>5, <1>6, <1>7, <1>8, <1>9, <1>10, <1>11, <1>12

\* The node is no root: its frame is gone, and the one below takes over its link.
LEMMA LeaveKeeps ==
  ASSUME SearchInv, LeaveNode, lowLink[Frame.v] # index[Frame.v]
  PROVE  SearchInv'
  <1> USE CliqueAssumption DEF CliqueAssumption
  <1>1. /\ edges \in SUBSET (CliqueIds \X CliqueIds)
        /\ index \in [CliqueIds -> 0..CliqueNodes]
        /\ lowLink \in [CliqueIds -> 0..CliqueNodes]
        /\ stack \in Seq(CliqueIds) /\ work \in Seq(Frames)
        /\ sccs \subseteq SUBSET CliqueIds
    BY DEF SearchInv, CliqueTypeOK, Frames
  <1>2. PICK l : l = Len(work) OBVIOUS
  <1>3. PICK v : v = work[l].v OBVIOUS
  <1>4. /\ l \in Nat \ {0} /\ DOMAIN work = 1..l /\ v \in CliqueIds /\ v \in OnStack
        /\ Frame.v = v /\ work[l].left = {}
        /\ work' \in Seq(Frames) /\ Len(work') = l - 1 /\ DOMAIN work' = 1..(l - 1)
        /\ \A i \in 1..(l - 1) : work'[i] = work[i]
        /\ edges' = edges /\ index' = index
        /\ \A i \in 1..l : work[i].v \in CliqueIds /\ work[i].v \in OnStack
        /\ \A i \in 1..(l - 1) : index[work[i].v] < index[v]
        /\ lowLink[v] <= index[v]
        /\ \A x, y \in OnStack :
             <<x, y>> \in edges /\ index[v] <= index[x] => lowLink[v] <= index[y]
    BY <1>2, <1>3, LeaveFacts
  <1>5. stack' = stack /\ sccs' = sccs BY <1>4 DEF LeaveNode
  <1>6. OnStack' = OnStack /\ Met' = Met /\ Found' = Found /\ OnStack \subseteq CliqueIds
    BY <1>1, <1>4, <1>5 DEF OnStack, ToSet, Met, Found
  <1>7. \A x \in CliqueIds : index[x] \in Nat /\ lowLink[x] \in Nat BY <1>1
  <1>8. lowLink[v] < index[v] BY <1>4, <1>7
  <1>9. PICK u \in OnStack : index[u] = lowLink[v] /\ u \in Reach(edges, v)
    BY <1>3, <1>4 DEF SearchInv, SearchLinks
  <1>10. PICK j \in 1..l : index[work[j].v] <= index[u] /\ work[j].v \in Reach(edges, u)
    BY <1>4 DEF SearchInv, SearchReach
  <1>11. j \in 1..(l - 1)
    <2>1. index[work[j].v] < index[v] BY <1>4, <1>6, <1>7, <1>8, <1>9, <1>10
    <2>2. j # l BY <2>1, <1>3, <1>4, <1>7
    <2> QED BY <2>2, <1>4
  <1>12. PICK p \in CliqueIds : p = work[l - 1].v BY <1>4, <1>11
  <1>13. <<p, v>> \in edges
    <2>1. PICK k : k = l - 1 OBVIOUS
    <2>2. k \in DOMAIN work /\ k < Len(work) /\ k + 1 = l BY <2>1, <1>2, <1>4, <1>11
    <2>3. <<work[k].v, work[k + 1].v>> \in edges BY <2>2 DEF SearchInv, SearchEdges
    <2> QED BY <2>1, <2>2, <2>3, <1>3, <1>12
  <1>14. PICK low : low = Min({lowLink[p], lowLink[v]}) OBVIOUS
  <1>15. lowLink' = [lowLink EXCEPT ![p] = low]
    BY <1>2, <1>4, <1>11, <1>12, <1>14 DEF LeaveNode
  <1>16. /\ low \in 0..CliqueNodes /\ low <= lowLink[p] /\ low <= lowLink[v]
         /\ low = lowLink[p] \/ low = lowLink[v]
    <2>1. PICK a, b \in 0..CliqueNodes : a = lowLink[p] /\ b = lowLink[v] BY <1>1, <1>4
    <2>2. \E x \in {a, b} : \A y \in {a, b} : x <= y OBVIOUS
    <2>3. low \in {a, b} /\ \A y \in {a, b} : low <= y BY <2>1, <2>2, <1>14 DEF Min
    <2> QED BY <2>1, <2>3
  <1>17. lowLink'[p] = low /\ \A x \in CliqueIds \ {p} : lowLink'[x] = lowLink[x]
    BY <1>1, <1>15
  <1>18. \A i \in 1..(l - 2) : work[i].v # p
    <2> TAKE i \in 1..(l - 2)
    <2>1. index[work[i].v] < index[p] BY <1>4, <1>11, <1>12 DEF SearchInv, SearchOrder
    <2> QED BY <2>1, <1>7
  <1>19. CliqueTypeOK'
    <2>1. lowLink' \in [CliqueIds -> 0..CliqueNodes] BY <1>1, <1>15, <1>16
    <2> QED BY <2>1, <1>1, <1>4, <1>5 DEF CliqueTypeOK, Frames
  <1>20. SearchOrder'
    <2>1. \A i, k \in DOMAIN work : i < k => index[work[i].v] < index[work[k].v]
      BY DEF SearchInv, SearchOrder
    <2>2. \A i, k \in DOMAIN work' : i < k => index'[work'[i].v] < index'[work'[k].v]
      BY <2>1, <1>4
    <2>3. \A i \in DOMAIN work' : work'[i].v \in OnStack' BY <1>4, <1>6
    <2>4. \A i, k \in DOMAIN stack' : i < k => index'[stack'[i]] < index'[stack'[k]]
      BY <1>4, <1>5 DEF SearchInv, SearchOrder
    <2>5. /\ Met' = OnStack' \cup Found' /\ OnStack' \cap Found' = {}
          /\ \A x \in CliqueIds : index'[x] <= Cardinality(Met')
      BY <1>4, <1>6 DEF SearchInv, SearchOrder
    <2> QED BY <2>2, <2>3, <2>4, <2>5 DEF SearchOrder
  <1>21. SearchEdges'
    <2>1. \A i \in DOMAIN work' : i < Len(work') => <<work'[i].v, work'[i + 1].v>> \in edges'
      BY <1>2, <1>4 DEF SearchInv, SearchEdges
    <2>2. \A i \in DOMAIN work' : \A y \in work'[i].left : <<work'[i].v, y>> \in edges'
      BY <1>2, <1>4 DEF SearchInv, SearchEdges
    <2>3. ASSUME NEW x \in CliqueIds, NEW y \in CliqueIds, <<x, y>> \in edges, x \in Met
          PROVE  y \in Met \/ \E i \in DOMAIN work' : work'[i].v = x /\ y \in work'[i].left
      <3>1. y \in Met \/ \E i \in DOMAIN work : work[i].v = x /\ y \in work[i].left
        BY <2>3 DEF SearchInv, SearchEdges
      <3> QED BY <3>1, <1>4
    <2> QED BY <2>1, <2>2, <2>3, <1>4, <1>6 DEF SearchInv, SearchEdges
  <1>22. SearchReach'
    <2>1. \A i \in DOMAIN work', y \in OnStack :
            index[work'[i].v] <= index[y] => y \in Reach(edges, work'[i].v)
      BY <1>4 DEF SearchInv, SearchReach
    <2>2. ASSUME NEW y \in OnStack
          PROVE  \E i \in DOMAIN work' : /\ index[work'[i].v] <= index[y]
                                         /\ work'[i].v \in Reach(edges, y)
      <3>1. PICK i \in 1..l : index[work[i].v] <= index[y] /\ work[i].v \in Reach(edges, y)
        BY <1>4 DEF SearchInv, SearchReach
      <3>2. CASE i # l BY <3>1, <3>2, <1>4
      <3>3. CASE i = l
        <4>1. v \in Reach(edges, y) /\ index[v] <= index[y] BY <3>1, <3>3, <1>3
        <4>2. y \in CliqueIds /\ u \in CliqueIds BY <1>6
        <4>3. u \in Reach(edges, y) BY <4>1, <4>2, <1>1, <1>9, ReachOn
        <4>4. work[j].v \in Reach(edges, y) BY <4>2, <4>3, <1>1, <1>10, ReachOn
        <4>5. index[work[j].v] <= index[y] BY <4>1, <4>2, <1>4, <1>7, <1>8, <1>9, <1>10, <1>11
        <4> QED BY <4>4, <4>5, <1>4, <1>11
      <3> QED BY <3>2, <3>3
    <2> QED BY <2>1, <2>2, <1>4, <1>6 DEF SearchReach
  <1>23. \A i \in 1..(l - 1) : i # l - 1 => i \in 1..(l - 2) BY <1>4
  <1>24. SearchLinks'
    <2>1. ASSUME NEW i \in 1..(l - 1)
          PROVE  /\ lowLink'[work[i].v] <= index[work[i].v]
                 /\ \E x \in OnStack : /\ index[x] = lowLink'[work[i].v]
                                       /\ x \in Reach(edges, work[i].v)
      <3>1. /\ lowLink[work[i].v] <= index[work[i].v]
            /\ \E x \in OnStack : /\ index[x] = lowLink[work[i].v]
                                  /\ x \in Reach(edges, work[i].v)
        BY <1>4 DEF SearchInv, SearchLinks
      <3>2. CASE i = l - 1
        <4>1. u \in Reach(edges, p)
          <5>1. v \in Reach(edges, p) BY <1>1, <1>4, <1>13, ReachSelf, ReachClosed
          <5> QED BY <5>1, <1>1, <1>9, ReachOn
        <4>2. low <= index[p] BY <3>1, <3>2, <1>7, <1>12, <1>16
        <4>3. \E x \in OnStack : index[x] = low /\ x \in Reach(edges, p)
          BY <4>1, <3>1, <3>2, <1>9, <1>12, <1>16
        <4> QED BY <4>2, <4>3, <3>2, <1>12, <1>17
      <3>3. CASE i # l - 1
        <4>1. lowLink'[work[i].v] = lowLink[work[i].v] BY <3>3, <1>4, <1>17, <1>18, <1>23
        <4> QED BY <4>1, <3>1
      <3> QED BY <3>2, <3>3
    <2>2. ASSUME NEW i \in 1..(l - 1), NEW x \in OnStack, NEW y \in OnStack,
                 <<x, y>> \in edges, index[work[i].v] <= index[x],
                 i < l - 1 => index[x] < index[work[i + 1].v],
                 ~(x = work[i].v /\ y \in work[i].left)
          PROVE  lowLink'[work[i].v] <= index[y]
      <3>1. index[x] \in Nat /\ index[y] \in Nat BY <1>6, <1>7
      <3>2. CASE i = l - 1
        <4>1. CASE index[x] < index[v]
          <5>1. i \in DOMAIN work /\ work[i + 1].v = v BY <3>2, <1>3, <1>4
          <5>2. lowLink[work[i].v] <= index[y]
            BY <4>1, <5>1, <2>2 DEF SearchInv, SearchLinks
          <5>3. lowLink[p] <= index[y] BY <5>2, <3>2, <1>12
          <5> QED BY <5>3, <3>1, <3>2, <1>7, <1>12, <1>16, <1>17
        <4>2. CASE index[v] <= index[x]
          <5>1. lowLink[v] <= index[y] BY <4>2, <2>2, <1>4
          <5> QED BY <5>1, <3>1, <3>2, <1>4, <1>7, <1>12, <1>16, <1>17
        <4> QED BY <4>1, <4>2, <3>1, <1>4, <1>7
      <3>3. CASE i # l - 1
        <4>1. lowLink'[work[i].v] = lowLink[work[i].v] BY <3>3, <1>4, <1>17, <1>18, <1>23
        <4>2. i \in DOMAIN work /\ i < l - 1 BY <3>3, <1>4
        <4>3. lowLink[work[i].v] <= index[y] BY <4>2, <2>2 DEF SearchInv, SearchLinks
        <4> QED BY <4>1, <4>3
      <3> QED BY <3>2, <3>3
    <2>3. \A i \in 1..(l - 1) : i < l - 1 => work'[i + 1] = work[i + 1] BY <1>4
    <2> QED BY <2>1, <2>2, <2>3, <1>4, <1>6 DEF SearchLinks
  <1>25. SearchFound' BY <1>4, <1>5 DEF SearchInv, SearchFound
  <1> QED BY <1>19, <1>20, <1>21, <1>22, <1>24, <1>25 DEF SearchInv


\* The node is a root: those from it on leave the stack and are a component.
LEMMA RootKeeps ==
  ASSUME SearchInv, LeaveNode, lowLink[Frame.v] = index[Frame.v]
  PROVE  SearchInv'
  <1> USE CliqueAssumption DEF CliqueAssumption
  <1>1. /\ edges \in SUBSET (CliqueIds \X CliqueIds)
        /\ index \in [CliqueIds -> 0..CliqueNodes]
        /\ lowLink \in [CliqueIds -> 0..CliqueNodes]
        /\ stack \in Seq(CliqueIds) /\ work \in Seq(Frames)
        /\ sccs \subseteq SUBSET CliqueIds
    BY DEF SearchInv, CliqueTypeOK, Frames
  <1>2. PICK l : l = Len(work) OBVIOUS
  <1>3. PICK v : v = work[l].v OBVIOUS
  <1>4. /\ l \in Nat \ {0} /\ DOMAIN work = 1..l /\ v \in CliqueIds /\ v \in OnStack
        /\ Frame.v = v /\ work[l].left = {}
        /\ work' \in Seq(Frames) /\ Len(work') = l - 1 /\ DOMAIN work' = 1..(l - 1)
        /\ \A i \in 1..(l - 1) : work'[i] = work[i]
        /\ edges' = edges /\ index' = index
        /\ \A i \in 1..l : work[i].v \in CliqueIds /\ work[i].v \in OnStack
        /\ \A i \in 1..(l - 1) : index[work[i].v] < index[v]
        /\ \A x, y \in OnStack :
             <<x, y>> \in edges /\ index[v] <= index[x] => lowLink[v] <= index[y]
        /\ \A x, y \in CliqueIds :
             <<x, y>> \in edges /\ x \in OnStack /\ index[v] <= index[x] => y \in Met
    BY <1>2, <1>3, LeaveFacts
  <1>5. lowLink[v] = index[v] BY <1>4
  <1>6. \A x \in CliqueIds : index[x] \in Nat /\ lowLink[x] \in Nat BY <1>1
  <1>7. OnStack \subseteq CliqueIds BY <1>1 DEF OnStack, ToSet
  <1>8. PICK n \in Nat : n = Len(stack) /\ DOMAIN stack = 1..n BY <1>1
  <1>9. PICK at \in 1..n :
          /\ stack[at] = v
          /\ sccs' = sccs \cup {{stack[i] : i \in at..Len(stack)}}
          /\ stack' = SubSeq(stack, 1, at - 1)
    <2>1. \E i \in DOMAIN stack : stack[i] = v BY <1>4 DEF OnStack, ToSet
    <2>2. PICK a : a = CHOOSE i \in DOMAIN stack : stack[i] = v OBVIOUS
    <2>3. a \in DOMAIN stack /\ stack[a] = v BY <2>1, <2>2
    <2>4. /\ sccs' = sccs \cup {{stack[i] : i \in a..Len(stack)}}
          /\ stack' = SubSeq(stack, 1, a - 1)
      BY <2>2, <1>4, <1>5 DEF LeaveNode
    <2> QED BY <2>3, <2>4, <1>8
  <1>10. \A i, k \in 1..n : i < k => index[stack[i]] < index[stack[k]]
    BY <1>8 DEF SearchInv, SearchOrder
  <1>11. \A i \in 1..n : stack[i] \in OnStack /\ stack[i] \in CliqueIds
    <2>1. \A i \in DOMAIN stack : stack[i] \in OnStack BY DEF OnStack, ToSet
    <2>2. \A i \in DOMAIN stack : stack[i] \in CliqueIds BY <1>1
    <2> QED BY <2>1, <2>2, <1>8
  <1>12. \A i \in 1..n : (i < at <=> index[stack[i]] < index[v])
    <2> TAKE i \in 1..n
    <2>1. CASE i < at BY <2>1, <1>9, <1>10
    <2>2. CASE i = at BY <2>2, <1>4, <1>6, <1>9
    <2>3. CASE i > at
      <3>1. index[v] < index[stack[i]] BY <2>3, <1>9, <1>10
      <3> QED BY <2>3, <3>1, <1>4, <1>6, <1>11
    <2> QED BY <2>1, <2>2, <2>3
  <1>13. \A x \in OnStack : \E i \in 1..n : x = stack[i] BY <1>8 DEF OnStack, ToSet
  <1>14. PICK C : C = {stack[i] : i \in at..Len(stack)} OBVIOUS
  <1>15. C = {x \in OnStack : index[v] <= index[x]}
    <2>1. ASSUME NEW x \in C PROVE x \in OnStack /\ index[v] <= index[x]
      <3>1. PICK i \in at..n : x = stack[i] BY <1>8, <1>14
      <3>2. i \in 1..n /\ ~(i < at) BY <3>1
      <3> QED BY <3>1, <3>2, <1>4, <1>6, <1>11, <1>12
    <2>2. ASSUME NEW x \in OnStack, index[v] <= index[x] PROVE x \in C
      <3>1. PICK i \in 1..n : x = stack[i] BY <1>13
      <3>2. ~(i < at) BY <3>1, <2>2, <1>4, <1>6, <1>11, <1>12
      <3>3. i \in at..Len(stack) BY <3>2, <1>8
      <3> QED BY <3>1, <3>3, <1>14
    <2> QED BY <2>1, <2>2
  <1>16. /\ Len(stack') = at - 1 /\ DOMAIN stack' = 1..(at - 1) /\ stack' \in Seq(CliqueIds)
         /\ \A i \in 1..(at - 1) : i \in 1..n /\ stack'[i] = stack[i]
    <2>1. PICK k : k = at - 1 OBVIOUS
    <2>2. k \in 0..n BY <2>1
    <2>3. PICK t : t = stack' OBVIOUS
    <2>4. t = SubSeq(stack, 1, k) BY <2>1, <2>3, <1>9
    <2>5. \A i \in 1..k : i \in 1..n BY <2>2
    <2>6. t \in Seq(CliqueIds) /\ Len(t) = k /\ \A i \in 1..k : t[i] = stack[i]
      BY <2>2, <2>4, <1>1, <1>8, SubSeqProperties
    <2>7. DOMAIN t = 1..k BY <2>6, LenProperties
    <2> QED BY <2>1, <2>3, <2>5, <2>6, <2>7
  <1>17. OnStack' = {x \in OnStack : index[x] < index[v]}
    <2>1. \A x : x \in OnStack' <=> \E i \in 1..(at - 1) : x = stack'[i]
      BY <1>16 DEF OnStack, ToSet
    <2>2. ASSUME NEW x \in OnStack' PROVE x \in OnStack /\ index[x] < index[v]
      <3>1. PICK i \in 1..(at - 1) : x = stack'[i] BY <2>1
      <3> QED BY <3>1, <1>11, <1>12, <1>16
    <2>3. ASSUME NEW x \in OnStack, index[x] < index[v] PROVE x \in OnStack'
      <3>1. PICK i \in 1..n : x = stack[i] BY <1>13
      <3>2. i < at BY <3>1, <2>3, <1>12
      <3>3. i \in 1..(at - 1) BY <3>2
      <3> QED BY <3>1, <3>3, <2>1, <1>16
    <2> QED BY <2>2, <2>3
  <1>18. sccs' = sccs \cup {C} BY <1>9, <1>14
  <1>19. Found' = Found \cup C BY <1>18 DEF Found
  <1>20. Met' = Met BY <1>4 DEF Met
  <1>21. OnStack = OnStack' \cup C /\ OnStack' \cap C = {} /\ C \subseteq OnStack
    BY <1>4, <1>6, <1>7, <1>15, <1>17
  <1>22. lowLink' = lowLink
    <2>1. CASE l = 1 BY <2>1, <1>2 DEF LeaveNode
    <2>2. CASE l # 1
      <3>1. l - 1 \in DOMAIN work /\ l - 1 \in 1..(l - 1) BY <2>2, <1>4
      <3>2. PICK p \in CliqueIds : p = work[l - 1].v BY <3>1, <1>4
      <3>3. lowLink[p] <= index[p] BY <3>1, <3>2 DEF SearchInv, SearchLinks
      <3>4. lowLink[p] < lowLink[v] BY <3>1, <3>2, <3>3, <1>4, <1>5, <1>6
      <3>5. PICK a, b \in Nat : a = lowLink[p] /\ b = lowLink[v] BY <3>2, <1>4, <1>6
      <3>6. \A x \in {a, b} : (\A y \in {a, b} : x <= y) <=> x = a BY <3>4, <3>5
      <3>7. Min({a, b}) = a BY <3>6 DEF Min
      <3>8. lowLink' = [lowLink EXCEPT ![p] = Min({lowLink[p], lowLink[v]})]
        BY <2>2, <3>2, <1>2, <1>4 DEF LeaveNode
      <3> QED BY <3>2, <3>5, <3>7, <3>8, <1>1
    <2> QED BY <2>1, <2>2
  <1>23. CliqueTypeOK'
    <2>1. sccs' \subseteq SUBSET CliqueIds BY <1>1, <1>7, <1>18, <1>21
    <2> QED BY <2>1, <1>1, <1>4, <1>16, <1>22 DEF CliqueTypeOK, Frames
  <1>24. SearchOrder'
    <2>1. \A i, k \in DOMAIN work : i < k => index[work[i].v] < index[work[k].v]
      BY DEF SearchInv, SearchOrder
    <2>2. \A i, k \in DOMAIN work' : i < k => index'[work'[i].v] < index'[work'[k].v]
      BY <2>1, <1>4
    <2>3. \A i \in DOMAIN work' : work'[i].v \in OnStack' BY <1>4, <1>17
    <2>4. \A i, k \in DOMAIN stack' : i < k => index'[stack'[i]] < index'[stack'[k]]
      BY <1>4, <1>10, <1>16
    <2>5. Met = OnStack \cup Found /\ OnStack \cap Found = {} BY DEF SearchInv, SearchOrder
    <2>6. Met' = OnStack' \cup Found' BY <2>5, <1>19, <1>20, <1>21
    <2>7. OnStack' \cap Found' = {}
      <3> HIDE DEF OnStack, Found
      <3> QED BY <2>5, <1>19, <1>21
    <2>8. \A x \in CliqueIds : index'[x] <= Cardinality(Met')
      BY <1>4, <1>20 DEF SearchInv, SearchOrder
    <2> QED BY <2>2, <2>3, <2>4, <2>6, <2>7, <2>8 DEF SearchOrder
  <1>25. \A x, y \in CliqueIds : <<x, y>> \in edges /\ x \in Found' => y \in Found'
    <2> SUFFICES ASSUME NEW x \in CliqueIds, NEW y \in CliqueIds, <<x, y>> \in edges, x \in Found'
                 PROVE  y \in Found'
      OBVIOUS
    <2>1. CASE x \in Found BY <2>1, <1>19 DEF SearchInv, SearchEdges
    <2>2. CASE x \in C
      <3>1. x \in OnStack /\ index[v] <= index[x] BY <2>2, <1>15
      <3>2. y \in Met BY <3>1, <1>4
      <3>3. y \in Found \/ y \in OnStack BY <3>2 DEF SearchInv, SearchOrder
      <3>4. CASE y \in OnStack
        <4>1. index[v] <= index[y] BY <3>1, <3>4, <1>4, <1>5
        <4> QED BY <3>4, <4>1, <1>15, <1>19
      <3> QED BY <3>3, <3>4, <1>19
    <2> QED BY <2>1, <2>2, <1>19
  <1>26. SearchEdges'
    <2>1. \A i \in DOMAIN work' : i < Len(work') => <<work'[i].v, work'[i + 1].v>> \in edges'
      BY <1>2, <1>4 DEF SearchInv, SearchEdges
    <2>2. \A i \in DOMAIN work' : \A y \in work'[i].left : <<work'[i].v, y>> \in edges'
      BY <1>2, <1>4 DEF SearchInv, SearchEdges
    <2>3. ASSUME NEW x \in CliqueIds, NEW y \in CliqueIds, <<x, y>> \in edges, x \in Met
          PROVE  y \in Met \/ \E i \in DOMAIN work' : work'[i].v = x /\ y \in work'[i].left
      <3>1. y \in Met \/ \E i \in DOMAIN work : work[i].v = x /\ y \in work[i].left
        BY <2>3 DEF SearchInv, SearchEdges
      <3> QED BY <3>1, <1>4
    <2> QED BY <2>1, <2>2, <2>3, <1>4, <1>20, <1>25 DEF SearchEdges
  <1>27. SearchReach'
    <2>1. \A i \in DOMAIN work', y \in OnStack' :
            index[work'[i].v] <= index[y] => y \in Reach(edges, work'[i].v)
      BY <1>4, <1>17 DEF SearchInv, SearchReach
    <2>2. ASSUME NEW y \in OnStack'
          PROVE  \E i \in DOMAIN work' : /\ index[work'[i].v] <= index[y]
                                         /\ work'[i].v \in Reach(edges, y)
      <3>1. y \in OnStack /\ index[y] < index[v] BY <1>17
      <3>2. PICK i \in 1..l : index[work[i].v] <= index[y] /\ work[i].v \in Reach(edges, y)
        BY <3>1, <1>4 DEF SearchInv, SearchReach
      <3>3. i # l BY <3>1, <3>2, <1>3, <1>4, <1>6, <1>7
      <3> QED BY <3>2, <3>3, <1>4
    <2> QED BY <2>1, <2>2, <1>4 DEF SearchReach
  <1>28. SearchLinks'
    <2>1. ASSUME NEW i \in 1..(l - 1)
          PROVE  /\ lowLink[work[i].v] <= index[work[i].v]
                 /\ \E x \in OnStack' : /\ index[x] = lowLink[work[i].v]
                                        /\ x \in Reach(edges, work[i].v)
      <3>1. /\ lowLink[work[i].v] <= index[work[i].v]
            /\ \E x \in OnStack : /\ index[x] = lowLink[work[i].v]
                                  /\ x \in Reach(edges, work[i].v)
        BY <1>4 DEF SearchInv, SearchLinks
      <3>2. index[work[i].v] < index[v] /\ work[i].v \in CliqueIds BY <1>4
      <3> QED BY <3>1, <3>2, <1>4, <1>6, <1>17
    <2>2. ASSUME NEW i \in 1..(l - 1), NEW x \in OnStack', NEW y \in OnStack',
                 <<x, y>> \in edges, index[work[i].v] <= index[x],
                 i < l - 1 => index[x] < index[work[i + 1].v],
                 ~(x = work[i].v /\ y \in work[i].left)
          PROVE  lowLink[work[i].v] <= index[y]
      <3>1. x \in OnStack /\ y \in OnStack /\ index[x] < index[v] BY <1>17
      <3>2. i < l => index[x] < index[work[i + 1].v]
        <4>1. CASE i = l - 1
          <5>1. i + 1 = l BY <4>1, <1>4
          <5> QED BY <3>1, <5>1, <1>3
        <4>2. CASE i < l - 1 BY <4>2, <2>2
        <4> QED BY <4>1, <4>2, <1>4
      <3>3. i \in DOMAIN work BY <1>4
      <3> QED BY <3>1, <3>2, <3>3, <2>2, <1>2 DEF SearchInv, SearchLinks
    <2>3. \A i \in 1..(l - 1) : i < l - 1 => work'[i + 1] = work[i + 1] BY <1>4
    <2> QED BY <2>1, <2>2, <2>3, <1>4, <1>22 DEF SearchLinks
  <1>29. ASSUME NEW x \in C PROVE v \in Reach(edges, x) /\ x \in Reach(edges, v)
    <2>1. x \in OnStack /\ index[v] <= index[x] /\ x \in CliqueIds BY <1>7, <1>15
    <2>2. x \in Reach(edges, v) BY <2>1, <1>3, <1>4 DEF SearchInv, SearchReach
    <2>3. PICK i \in 1..l : work[i].v \in Reach(edges, x)
      BY <2>1, <1>4 DEF SearchInv, SearchReach
    <2>4. index[work[i].v] <= index[v]
      <3>1. CASE i = l BY <3>1, <1>3, <1>4, <1>6
      <3>2. CASE i # l
        <4>1. index[work[i].v] < index[v] BY <3>2, <1>4
        <4> QED BY <4>1, <1>4, <1>6
      <3> QED BY <3>1, <3>2
    <2>5. v \in Reach(edges, work[i].v) BY <2>4, <1>4 DEF SearchInv, SearchReach
    <2>6. v \in Reach(edges, x) BY <2>1, <2>3, <2>5, <1>1, ReachOn
    <2> QED BY <2>2, <2>6
  <1>30. \A x \in C : C = {w \in Reach(edges, x) : x \in Reach(edges, w)}
    <2> SUFFICES ASSUME NEW x \in C
                 PROVE  C = {w \in Reach(edges, x) : x \in Reach(edges, w)}
      OBVIOUS
    <2>1. x \in CliqueIds /\ x \in OnStack BY <1>7, <1>21
    <2>2. ASSUME NEW w \in C PROVE w \in Reach(edges, x) /\ x \in Reach(edges, w)
      <3>1. w \in CliqueIds BY <1>7, <1>21
      <3>2. w \in Reach(edges, x) BY <2>1, <1>1, <1>4, <1>29, ReachOn
      <3>3. x \in Reach(edges, w) BY <3>1, <1>1, <1>4, <1>29, ReachOn
      <3> QED BY <3>2, <3>3
    <2>3. ASSUME NEW w \in Reach(edges, x), x \in Reach(edges, w) PROVE w \in C
      <3>1. Reach(edges, x) \subseteq Found' BY <2>1, <1>1, <1>19, <1>25, ReachLeast
      <3>2. w \in CliqueIds BY <2>1, <1>1, ReachSelf
      <3>3. w \notin Found
        <4> SUFFICES ASSUME w \in Found PROVE FALSE OBVIOUS
        <4>1. \A y, z \in CliqueIds : <<y, z>> \in edges /\ y \in Found => z \in Found
          BY DEF SearchInv, SearchEdges
        <4>2. Reach(edges, w) \subseteq Found BY <4>1, <3>2, <1>1, ReachLeast
        <4> QED BY <4>2, <2>1, <2>3 DEF SearchInv, SearchOrder
      <3> QED BY <3>1, <3>3, <1>19
    <2> QED BY <2>2, <2>3
  <1>31. SearchFound' BY <1>4, <1>18, <1>30 DEF SearchInv, SearchFound
  <1> QED BY <1>23, <1>24, <1>26, <1>27, <1>28, <1>31 DEF SearchInv


LEMMA CliqueInitInv ==
  ASSUME CliqueInit
  PROVE  SearchInv
  <1> USE CliqueAssumption DEF CliqueAssumption
  <1>1. PICK start \in SUBSET (CliqueIds \X CliqueIds) : CliqueInitWith(start) BY DEF CliqueInit
  <1>2. /\ edges = start /\ index = [v \in CliqueIds |-> 0] /\ lowLink = [v \in CliqueIds |-> 0]
        /\ stack = <<>> /\ work = <<>> /\ sccs = {}
    BY <1>1 DEF CliqueInitWith
  <1>3. Met = {} /\ OnStack = {} /\ Found = {} BY <1>2 DEF Met, OnStack, Found, ToSet
  <1>4. DOMAIN stack = {} /\ DOMAIN work = {} BY <1>2
  <1>5. CliqueTypeOK BY <1>2 DEF CliqueTypeOK
  <1>6. SearchOrder
    <2>1. Cardinality(Met) = 0 BY <1>3, FS_EmptySet
    <2> QED BY <2>1, <1>2, <1>3, <1>4 DEF SearchOrder
  <1>7. SearchEdges BY <1>3, <1>4 DEF SearchEdges
  <1>8. SearchReach BY <1>3, <1>4 DEF SearchReach
  <1>9. SearchLinks BY <1>3, <1>4 DEF SearchLinks
  <1>10. SearchFound BY <1>2 DEF SearchFound
  <1> QED BY <1>5, <1>6, <1>7, <1>8, <1>9, <1>10 DEF SearchInv

LEMMA CliqueStep ==
  ASSUME SearchInv, [CliqueNext]_cliqueVars
  PROVE  SearchInv'
  <1> USE CliqueAssumption DEF CliqueAssumption
  <1>1. CASE StartSearch
    <2>1. work = <<>> /\ Met # CliqueIds /\ Met \subseteq CliqueIds BY <1>1 DEF StartSearch, Met
    <2>2. CliqueIds \ Met \in SUBSET Nat /\ CliqueIds \ Met # {}
      <3>1. CliqueIds \in SUBSET Nat BY DEF CliqueIds
      <3> QED BY <3>1, <2>1
    <2>3. PICK x \in CliqueIds \ Met : \A y \in CliqueIds \ Met : x <= y BY <2>2, LowestNumber
    <2>4. PICK v : v = Min(CliqueIds \ Met) OBVIOUS
    <2>5. v \in CliqueIds /\ index[v] = 0 BY <2>3, <2>4 DEF Min, Met
    <2>6. Enter(v, <<>>) BY <1>1, <2>4 DEF StartSearch
    <2>7. <<>> \in Seq(Frames) /\ Len(<<>>) = Len(work) /\ DOMAIN work = {} BY <2>1
    <2> QED BY <2>1, <2>5, <2>6, <2>7, EnterKeeps
  <1>2. CASE VisitSuccessor
    <2>1. PICK l : l = Len(work) OBVIOUS
    <2>2. work \in Seq(Frames) BY DEF SearchInv, CliqueTypeOK, Frames
    <2>3. l \in Nat \ {0} /\ DOMAIN work = 1..l /\ work[l] \in Frames
      BY <1>2, <2>1, <2>2 DEF VisitSuccessor
    <2>4. Frame = work[l] BY <2>1 DEF Frame, Last
    <2>5. PICK w : w = NextSuccessor OBVIOUS
    <2>6. w \in work[l].left /\ w \in CliqueIds /\ index[w] = 0
      <3>1. work[l].left \in SUBSET Nat /\ work[l].left # {} /\ work[l].left \subseteq CliqueIds
        BY <1>2, <2>3, <2>4 DEF VisitSuccessor, Frames, CliqueIds
      <3>2. PICK x \in work[l].left : \A y \in work[l].left : x <= y BY <3>1, LowestNumber
      <3>3. w \in work[l].left BY <2>4, <2>5, <3>2 DEF NextSuccessor, Min
      <3> QED BY <1>2, <3>1, <3>3, <2>5 DEF VisitSuccessor
    <2>7. PICK frames : frames = Passed OBVIOUS
    <2>8. PICK f : f = [work[l] EXCEPT !.left = @ \ {w}] OBVIOUS
    <2>9. f \in Frames /\ f.v = work[l].v /\ f.left = work[l].left \ {w}
      BY <2>3, <2>8 DEF Frames
    <2>10. frames = [work EXCEPT ![l] = f] BY <2>1, <2>5, <2>7, <2>8 DEF Passed
    <2>11. frames \in Seq(Frames) /\ Len(frames) = Len(work)
      BY <2>1, <2>2, <2>3, <2>9, <2>10
    <2>12. \A i \in DOMAIN work : frames[i] = IF i = l THEN f ELSE work[i] BY <2>10
    <2>13. \A i \in DOMAIN work : /\ frames[i].v = work[i].v
                                  /\ frames[i].left \subseteq work[i].left
                                  /\ work[i].left \subseteq frames[i].left \cup {w}
      BY <2>9, <2>12
    <2>14. <<work[Len(work)].v, w>> \in edges
      BY <2>1, <2>3, <2>6 DEF SearchInv, SearchEdges
    <2>15. Enter(w, frames) BY <1>2, <2>5, <2>7 DEF VisitSuccessor
    <2> QED BY <2>6, <2>11, <2>13, <2>14, <2>15, EnterKeeps
  <1>3. CASE PassSuccessor BY <1>3, FollowKeeps
  <1>4. CASE LeaveNode BY <1>4, LeaveKeeps, RootKeeps
  <1>5. CASE UNCHANGED cliqueVars
    <2>1. /\ edges' = edges /\ index' = index /\ lowLink' = lowLink
          /\ stack' = stack /\ work' = work /\ sccs' = sccs
      BY <1>5 DEF cliqueVars
    <2>2. OnStack' = OnStack /\ Met' = Met /\ Found' = Found
      BY <2>1 DEF OnStack, ToSet, Met, Found
    <2>3. CliqueTypeOK' BY <2>1 DEF SearchInv, CliqueTypeOK
    <2>4. SearchOrder' BY <2>1, <2>2 DEF SearchInv, SearchOrder
    <2>5. SearchEdges' BY <2>1, <2>2 DEF SearchInv, SearchEdges
    <2>6. SearchReach' BY <2>1, <2>2 DEF SearchInv, SearchReach
    <2>7. SearchLinks' BY <2>1, <2>2 DEF SearchInv, SearchLinks
    <2>8. SearchFound' BY <2>1 DEF SearchInv, SearchFound
    <2> QED BY <2>3, <2>4, <2>5, <2>6, <2>7, <2>8 DEF SearchInv
  <1> QED BY <1>1, <1>2, <1>3, <1>4, <1>5 DEF CliqueNext

\* At the end of the search every node is in the component that was found of it.
LEMMA SearchShows ==
  ASSUME SearchInv
  PROVE  CliquesAreFound
  <1> USE CliqueAssumption DEF CliqueAssumption
  <1>1. edges \in SUBSET (CliqueIds \X CliqueIds) /\ sccs \subseteq SUBSET CliqueIds
    BY DEF SearchInv, CliqueTypeOK
  <1>2. \A v : ReachedFrom(v) = Reach(edges, v) BY ReachedIs
  <1>3. \A v : MutuallyReached(v) = {w \in Reach(edges, v) : v \in Reach(edges, w)}
    BY <1>2 DEF MutuallyReached
  <1>4. \A scc \in sccs : \A v \in scc : scc = MutuallyReached(v)
    BY <1>3 DEF SearchInv, SearchFound
  <1>5. ASSUME work = <<>>, Met = CliqueIds
        PROVE  PenalizedNodes = {v \in CliqueIds :
                                   /\ Cardinality(MutuallyReached(v)) >= 2
                                   /\ \A w \in ReachedFrom(v) : v \in ReachedFrom(w)}
    <2>1. OnStack = {}
      <3>1. DOMAIN work = {} BY <1>5
      <3> QED BY <3>1 DEF SearchInv, SearchReach
    <2>2. UNION sccs = CliqueIds BY <2>1, <1>5 DEF SearchInv, SearchOrder, Found
    <2>3. ASSUME NEW scc \in sccs, NEW v \in scc
          PROVE  Penalizes(scc) <=> /\ Cardinality(MutuallyReached(v)) >= 2
                                    /\ \A w \in ReachedFrom(v) : v \in ReachedFrom(w)
      <3>1. scc = MutuallyReached(v) /\ v \in CliqueIds BY <1>1, <1>4, <2>3
      <3>2. \A w : w \in scc <=> w \in Reach(edges, v) /\ v \in Reach(edges, w)
        BY <3>1, <1>3
      <3>3. v \in Reach(edges, v) /\ Reach(edges, v) \subseteq CliqueIds BY <3>1, <1>1, ReachSelf
      <3>4. ASSUME \A e \in edges : e[1] \in scc => e[2] \in scc,
                   NEW w \in Reach(edges, v)
            PROVE  v \in Reach(edges, w)
        <4>1. \A x, y \in CliqueIds : <<x, y>> \in edges /\ x \in scc => y \in scc BY <3>4
        <4>2. Reach(edges, v) \subseteq scc BY <4>1, <3>1, <1>1, <2>3, ReachLeast
        <4> QED BY <4>2, <3>2
      <3>5. ASSUME \A w \in Reach(edges, v) : v \in Reach(edges, w),
                   NEW e \in edges, e[1] \in scc
            PROVE  e[2] \in scc
        <4>1. PICK x, y \in CliqueIds : e = <<x, y>> BY <1>1
        <4>2. x \in Reach(edges, v) BY <4>1, <3>2, <3>5
        <4>3. y \in Reach(edges, v) BY <4>1, <4>2, <3>1, <1>1, ReachClosed
        <4> QED BY <4>1, <4>3, <3>2, <3>5
      <3> QED BY <3>1, <3>4, <3>5, <1>2 DEF Penalizes
    <2>4. \A v \in CliqueIds : \E scc \in sccs : v \in scc BY <2>2
    <2>5. \A v : v \in PenalizedNodes <=> \E scc \in sccs : Penalizes(scc) /\ v \in scc
      BY DEF PenalizedNodes
    <2>6. \A scc \in sccs : scc \subseteq CliqueIds BY <1>1
    <2>7. \A v \in PenalizedNodes : /\ v \in CliqueIds
                                    /\ Cardinality(MutuallyReached(v)) >= 2
                                    /\ \A w \in ReachedFrom(v) : v \in ReachedFrom(w)
      BY <2>3, <2>5, <2>6
    <2>8. \A v \in CliqueIds : /\ Cardinality(MutuallyReached(v)) >= 2
                               /\ \A w \in ReachedFrom(v) : v \in ReachedFrom(w)
                               => v \in PenalizedNodes
      BY <2>3, <2>4, <2>5
    <2> QED BY <2>7, <2>8
  <1> QED BY <1>4, <1>5 DEF CliquesAreFound

\* When the depth-first search of findStronglyConnectedComponents has ended, the nodes
\* that it penalizes are those of cliques: every node of a component that is large enough
\* and that nothing leaves.
THEOREM CliqueSearchIsRight == CliqueSpec => []CliquesAreFound
  <1>1. CliqueInit => SearchInv BY CliqueInitInv
  <1>2. SearchInv /\ [CliqueNext]_cliqueVars => SearchInv' BY CliqueStep
  <1>3. SearchInv => CliquesAreFound BY SearchShows
  <1> QED BY <1>1, <1>2, <1>3, PTL DEF CliqueSpec

-----------------------------------------------------------------------------
(***************************************************************************)
(* ShownByTheLog: the user's own controls and the labels of others.        *)
(***************************************************************************)

\* What a fold makes of the subsets of A, which it takes apart by pick, if step says how
\* it goes on from one element less.
FoldOf(F, A, base, pick, step) ==
  \A s \in SUBSET A :
    F[s] = IF s = {} THEN base ELSE step[<<pick[s], F[s \ {pick[s]}]>>]

\* Every finite set can be folded.
LEMMA FoldExists ==
  ASSUME NEW A, IsFiniteSet(A), NEW R, NEW base \in R,
         NEW pick, \A s \in SUBSET A : s # {} => pick[s] \in s,
         NEW step, \A x \in A, v \in R : step[<<x, v>>] \in R
  PROVE  \E F \in [SUBSET A -> R] : FoldOf(F, A, base, pick, step)
  <1> DEFINE Small(k) == {s \in SUBSET A : Cardinality(s) <= k}
             Folds(k, F) ==
               /\ F \in [Small(k) -> R]
               /\ \A s \in Small(k) :
                    F[s] = IF s = {} THEN base ELSE step[<<pick[s], F[s \ {pick[s]}]>>]
             Can(k) == \E F : Folds(k, F)
  <1>1. \A s \in SUBSET A : IsFiniteSet(s) /\ Cardinality(s) \in Nat
    BY FS_Subset, FS_CardinalityType
  <1>2. \A s \in SUBSET A : s # {} => /\ s \ {pick[s]} \in SUBSET A
                                      /\ Cardinality(s \ {pick[s]}) = Cardinality(s) - 1
    BY <1>1, FS_RemoveElement
  <1>3. \E F : Folds(0, F)
    <2>1. \A s \in Small(0) : s = {} BY <1>1, FS_EmptySet
    <2>2. Folds(0, [s \in Small(0) |-> base]) BY <2>1
    <2> QED BY <2>2
  <1>4. ASSUME NEW k \in Nat, Can(k)
        PROVE  Can(k + 1)
    <2>a. PICK F : Folds(k, F) BY <1>4
    <2> DEFINE H == [s \in Small(k + 1) |->
                       IF s = {} THEN base ELSE step[<<pick[s], F[s \ {pick[s]}]>>]]
    <2>1. \A s \in Small(k + 1) : s # {} => pick[s] \in A /\ s \ {pick[s]} \in Small(k)
      BY <1>1, <1>2
    <2>2. \A s \in Small(k) : s \in Small(k + 1) BY <1>1
    <2>3. \A s \in Small(k) : H[s] = F[s] BY <2>a, <2>2
    <2>4. \A s \in Small(k) : F[s] \in R BY <2>a
    <2>5. H \in [Small(k + 1) -> R] BY <2>1, <2>4
    <2>6. \A s \in Small(k + 1) :
            H[s] = IF s = {} THEN base ELSE step[<<pick[s], H[s \ {pick[s]}]>>]
      BY <2>1, <2>3
    <2> QED BY <2>5, <2>6
  <1>5. Cardinality(A) \in Nat /\ Can(Cardinality(A))
    <2>1. Can(0) BY <1>3
    <2>2. Cardinality(A) \in Nat BY <1>1
    <2> HIDE DEF Can
    <2>3. {k \in Nat : ~Can(k)} = {}
      <3> SUFFICES ASSUME {k \in Nat : ~Can(k)} # {} PROVE FALSE OBVIOUS
      <3>1. PICK k \in {j \in Nat : ~Can(j)} : \A j \in {i \in Nat : ~Can(i)} : k <= j
        <4>1. {j \in Nat : ~Can(j)} \in SUBSET Nat OBVIOUS
        <4> QED BY <4>1, LowestNumber
      <3>2. k # 0 BY <2>1, <3>1
      <3>3. k - 1 \in Nat /\ ~(k <= k - 1) /\ (k - 1) + 1 = k BY <3>1, <3>2
      <3>4. Can(k - 1) BY <3>1, <3>3
      <3>5. Can((k - 1) + 1) BY <1>4, <3>3, <3>4
      <3> QED BY <3>1, <3>3, <3>5
    <2> QED BY <2>2, <2>3
  <1>6. PICK F : Folds(Cardinality(A), F) BY <1>5
  <1>7. Small(Cardinality(A)) = SUBSET A BY <1>1, FS_Subset
  <1> QED BY <1>6, <1>7 DEF FoldOf


\* A fold of the numbers up to n that takes the highest first.
Highest(n) == [s \in SUBSET (1..n) |-> Max(s)]

LEMMA HighestIn ==
  ASSUME NEW n \in Nat, NEW s \in SUBSET (1..n), s # {}
  PROVE  /\ Max(s) \in s /\ \A i \in s : i <= Max(s)
         /\ Highest(n)[s] \in s
  <1>1. {n - i : i \in s} \in SUBSET Nat /\ {n - i : i \in s} # {}
    <2>1. \A i \in s : n - i \in Nat OBVIOUS
    <2> QED BY <2>1
  <1>2. \E x \in s : \A y \in s : x >= y
    <2>1. PICK j \in {n - i : i \in s} : \A m \in {n - i : i \in s} : j <= m
      BY <1>1, LowestNumber
    <2>2. PICK x \in s : j = n - x BY <2>1
    <2>3. \A y \in s : n - x <= n - y BY <2>1, <2>2
    <2>4. \A y \in s : x >= y BY <2>3
    <2> QED BY <2>4
  <1>3. Max(s) \in s /\ \A i \in s : Max(s) >= i BY <1>2 DEF Max
  <1> QED BY <1>3 DEF Highest

LEMMA OrderedFold ==
  ASSUME NEW n \in Nat, NEW R, NEW base \in R, NEW step,
         \A x \in 1..n, v \in R : step[<<x, v>>] \in R
  PROVE  \E F \in [SUBSET (1..n) -> R] : FoldOf(F, 1..n, base, Highest(n), step)
  <1>1. IsFiniteSet(1..n) BY FS_Interval, 1 \in Int, n \in Int
  <1>2. \A s \in SUBSET (1..n) : s # {} => Highest(n)[s] \in s BY HighestIn
  <1> QED BY <1>1, <1>2, FoldExists

\* The highest of a prefix is its end.
LEMMA PrefixEnds ==
  ASSUME NEW n \in Nat, NEW k \in Nat, k < n
  PROVE  /\ 1..(k + 1) \in SUBSET (1..n) /\ 1..(k + 1) # {}
         /\ Max(1..(k + 1)) = k + 1 /\ (1..(k + 1)) \ {k + 1} = 1..k
  <1>1. 1..(k + 1) \in SUBSET (1..n) /\ k + 1 \in 1..(k + 1) OBVIOUS
  <1>2. PICK s \in SUBSET (1..n) : s = 1..(k + 1) BY <1>1
  <1>3. Max(s) \in s /\ \A i \in s : i <= Max(s) BY <1>1, <1>2, HighestIn
  <1>4. Max(1..(k + 1)) = k + 1 BY <1>2, <1>3
  <1>5. (1..(k + 1)) \ {k + 1} = 1..k OBVIOUS
  <1> QED BY <1>1, <1>4, <1>5

\* Loading the log applies its rows one after the other.
LEMMA ControlPrefixes ==
  ASSUME NEW rows \in Seq(Controls)
  PROVE  \E G : /\ G[0] = NoControls /\ Loaded(rows) = G[Len(rows)]
                /\ \A k \in 0..Len(rows) : G[k] \in ControlState
                /\ \A k \in Nat : k < Len(rows) => G[k + 1] = ApplyControl(G[k], rows[k + 1])
  <1> DEFINE n == Len(rows)
             A == 1..n
             step == [xv \in A \X ControlState |-> ApplyControl(xv[2], rows[xv[1]])]
             Steps(F) == F = [s \in SUBSET A |->
                                IF s = {} THEN NoControls
                                ELSE LET x == Max(s) IN ApplyControl(F[s \ {x}], rows[x])]
             iter == CHOOSE F : Steps(F)
  <1>0. n \in Nat /\ DOMAIN rows = A OBVIOUS
  <1>1. NoControls \in ControlState BY DEF NoControls, ControlState
  <1>2. \A x \in A, v \in ControlState : ApplyControl(v, rows[x]) \in ControlState
    <2> SUFFICES ASSUME NEW x \in A, NEW v \in ControlState
                 PROVE  ApplyControl(v, rows[x]) \in ControlState
      OBVIOUS
    <2>1. rows[x] \in Controls OBVIOUS
    <2>2. rows[x].kind \in ControlKinds BY <2>1, ControlAssumption DEF ControlAssumption, Control
    <2>3. PICK T : T = {{}} \cup {{EntryOf(c)} : c \in Controls} OBVIOUS
    <2>4. {EntryOf(rows[x])} \in T /\ {} \in T BY <2>1, <2>3
    <2>5. v \in [ControlKinds -> T] BY <2>3 DEF ControlState
    <2>6. ApplyControl(v, rows[x]) \in [ControlKinds -> T] BY <2>2, <2>4, <2>5 DEF ApplyControl
    <2> QED BY <2>3, <2>6 DEF ControlState
  <1>3. \A x \in A, v \in ControlState : step[<<x, v>>] = ApplyControl(v, rows[x]) OBVIOUS
  <1>4. PICK F \in [SUBSET A -> ControlState] : FoldOf(F, A, NoControls, Highest(n), step)
    <2>1. \A x \in A, v \in ControlState : step[<<x, v>>] \in ControlState BY <1>2, <1>3
    <2> HIDE DEF step
    <2> QED BY <1>0, <1>1, <2>1, OrderedFold
  <1>5. Steps(F)
    <2>1. ASSUME NEW s \in SUBSET A
          PROVE  F[s] = IF s = {} THEN NoControls
                        ELSE LET x == Max(s) IN ApplyControl(F[s \ {x}], rows[x])
      <3>1. F[s] = IF s = {} THEN NoControls
                   ELSE step[<<Highest(n)[s], F[s \ {Highest(n)[s]}]>>]
        BY <1>4 DEF FoldOf
      <3>2. CASE s # {}
        <4>1. Highest(n)[s] = Max(s) /\ Max(s) \in A BY <1>0, <3>2, HighestIn DEF Highest
        <4>2. F[s \ {Max(s)}] \in ControlState BY <1>4
        <4>3. step[<<Max(s), F[s \ {Max(s)}]>>] = ApplyControl(F[s \ {Max(s)}], rows[Max(s)])
          BY <1>3, <4>1, <4>2
        <4> QED BY <3>1, <3>2, <4>1, <4>3, Zenon
      <3> QED BY <3>1, <3>2
    <2> QED BY <1>4, <2>1
  <1>6. Steps(iter) BY <1>5
  <1>7. Loaded(rows) = iter[A] BY <1>0 DEF Loaded, FoldLeft, MapThenFoldSet
  <1>8. /\ iter[{}] = NoControls
        /\ \A s \in SUBSET A : s # {} => iter[s] = ApplyControl(iter[s \ {Max(s)}], rows[Max(s)])
    <2> HIDE DEF iter
    <2> QED BY <1>6
  <1>9. PICK I : I = iter OBVIOUS
  <1> DEFINE G == [k \in 0..n |-> I[1..k]]
  <1>10. G[0] = NoControls BY <1>8, <1>9
  <1>11. \A k \in Nat : k < n => G[k + 1] = ApplyControl(G[k], rows[k + 1])
    <2> SUFFICES ASSUME NEW k \in Nat, k < n
                 PROVE  G[k + 1] = ApplyControl(G[k], rows[k + 1])
      OBVIOUS
    <2>1. G[k + 1] = I[1..(k + 1)] /\ G[k] = I[1..k] BY <1>0
    <2>2. I[1..(k + 1)] = ApplyControl(I[(1..(k + 1)) \ {Max(1..(k + 1))}],
                                       rows[Max(1..(k + 1))])
      BY <1>0, <1>8, <1>9, PrefixEnds
    <2> QED BY <1>0, <2>1, <2>2, PrefixEnds
  <1>12. Loaded(rows) = G[n] BY <1>7, <1>9, <1>0
  <1>13. \A k \in 0..n : G[k] \in ControlState
    <2> HIDE DEF G, step
    <2> DEFINE Bad == {k \in Nat : k <= n /\ G[k] \notin ControlState}
    <2> SUFFICES ASSUME Bad # {} PROVE FALSE BY <1>0
    <2>1. PICK k \in Bad : \A j \in Bad : k <= j
      <3>1. Bad \in SUBSET Nat OBVIOUS
      <3> HIDE DEF Bad
      <3> QED BY <3>1, LowestNumber
    <2>2. k # 0 BY <2>1, <1>1, <1>10
    <2>3. k - 1 \in Nat /\ k - 1 < n /\ (k - 1) + 1 = k /\ ~(k <= k - 1) /\ k \in A
      BY <2>1, <2>2, <1>0
    <2>4. G[k - 1] \in ControlState BY <2>1, <2>3
    <2>5. G[k] = ApplyControl(G[k - 1], rows[k]) BY <1>11, <2>3
    <2>6. G[k] \in ControlState BY <1>2, <2>3, <2>4, <2>5
    <2> QED BY <2>1, <2>6
  <1> QED BY <1>10, <1>11, <1>12, <1>13

\* What the first m rows say last about a kind.
LastUpTo(rows, k, m) ==
  {i \in 1..m : rows[i].kind = k /\ \A j \in 1..m : rows[j].kind = k => j <= i}

SaidUpTo(rows, k, m) ==
  {EntryOf(rows[i]) : i \in {j \in LastUpTo(rows, k, m) : rows[j].action = "apply"}}

LEMMA OneMoreRow ==
  ASSUME NEW rows \in Seq(Controls), NEW m \in Nat, m < Len(rows), NEW kept \in ControlState,
         \A k \in ControlKinds : kept[k] = SaidUpTo(rows, k, m),
         NEW k \in ControlKinds
  PROVE  ApplyControl(kept, rows[m + 1])[k] = SaidUpTo(rows, k, m + 1)
  <1>1. PICK c \in Controls : c = rows[m + 1] OBVIOUS
  <1>2. PICK T : kept \in [ControlKinds -> T] BY DEF ControlState
  <1>3. \A i : i \in 1..(m + 1) <=> i \in 1..m \/ i = m + 1 OBVIOUS
  <1>4. CASE c.kind # k
    <2>1. ApplyControl(kept, c)[k] = kept[k] BY <1>2, <1>4 DEF ApplyControl
    <2>2. LastUpTo(rows, k, m + 1) = LastUpTo(rows, k, m) BY <1>1, <1>3, <1>4 DEF LastUpTo
    <2> QED BY <1>1, <2>1, <2>2 DEF SaidUpTo
  <1>5. CASE c.kind = k
    <2>1. LastUpTo(rows, k, m + 1) = {m + 1}
      <3>1. m + 1 \in LastUpTo(rows, k, m + 1) BY <1>1, <1>5 DEF LastUpTo
      <3>2. \A i \in LastUpTo(rows, k, m + 1) : i = m + 1
        <4> SUFFICES ASSUME NEW i \in LastUpTo(rows, k, m + 1) PROVE i = m + 1 OBVIOUS
        <4>1. i \in 1..(m + 1) /\ m + 1 <= i BY <1>1, <1>5 DEF LastUpTo
        <4> QED BY <4>1
      <3> QED BY <3>1, <3>2
    <2>2. CASE c.action = "apply"
      <3>1. SaidUpTo(rows, k, m + 1) = {EntryOf(c)} BY <1>1, <2>1, <2>2 DEF SaidUpTo
      <3>2. ApplyControl(kept, c)[k] = {EntryOf(c)} BY <1>2, <1>5, <2>2 DEF ApplyControl
      <3> QED BY <1>1, <3>1, <3>2
    <2>3. CASE c.action # "apply"
      <3>1. SaidUpTo(rows, k, m + 1) = {} BY <1>1, <2>1, <2>3 DEF SaidUpTo
      <3>2. ApplyControl(kept, c)[k] = {} BY <1>2, <1>5, <2>3 DEF ApplyControl
      <3> QED BY <1>1, <3>1, <3>2
    <2> QED BY <2>2, <2>3
  <1> QED BY <1>4, <1>5

\* The load of the controls leaves for each kind what the last row about it says.
LEMMA LoadSays ==
  ASSUME NEW rows \in Seq(Controls)
  PROVE  /\ Loaded(rows) \in ControlState
         /\ \A k \in ControlKinds :
              Loaded(rows)[k] = {EntryOf(rows[i]) : i \in {j \in LastRows(rows, k) :
                                                             rows[j].action = "apply"}}
  <1>1. PICK G : /\ G[0] = NoControls /\ Loaded(rows) = G[Len(rows)]
                 /\ \A m \in 0..Len(rows) : G[m] \in ControlState
                 /\ \A m \in Nat : m < Len(rows) => G[m + 1] = ApplyControl(G[m], rows[m + 1])
    BY ControlPrefixes
  <1>2. Len(rows) \in Nat /\ DOMAIN rows = 1..Len(rows) OBVIOUS
  <1> DEFINE Says(m) == \A k \in ControlKinds : G[m][k] = SaidUpTo(rows, k, m)
             Bad == {m \in Nat : m <= Len(rows) /\ ~Says(m)}
  <1>3. Bad = {}
    <2> SUFFICES ASSUME Bad # {} PROVE FALSE OBVIOUS
    <2>1. PICK m \in Bad : \A j \in Bad : m <= j
      <3>1. Bad \in SUBSET Nat OBVIOUS
      <3> HIDE DEF Bad
      <3> QED BY <3>1, LowestNumber
    <2>2. Says(0)
      <3>1. \A k \in ControlKinds : SaidUpTo(rows, k, 0) = {} BY DEF SaidUpTo, LastUpTo
      <3> QED BY <1>1, <3>1 DEF NoControls
    <2> HIDE DEF Says
    <2>3. m # 0 BY <2>1, <2>2
    <2>4. m - 1 \in Nat /\ m - 1 < Len(rows) /\ (m - 1) + 1 = m /\ ~(m <= m - 1)
      BY <2>1, <2>3, <1>2
    <2>5. PICK l \in Nat : l = m - 1 BY <2>4
    <2>6. Says(l) /\ l < Len(rows) /\ l + 1 = m BY <2>1, <2>4, <2>5
    <2>7. G[l] \in ControlState /\ G[m] = ApplyControl(G[l], rows[l + 1])
      BY <1>1, <1>2, <2>6
    <2>8. Says(l + 1)
      <3>1. \A k \in ControlKinds : G[l][k] = SaidUpTo(rows, k, l) BY <2>6 DEF Says
      <3>2. \A k \in ControlKinds :
              ApplyControl(G[l], rows[l + 1])[k] = SaidUpTo(rows, k, l + 1)
        BY <2>6, <2>7, <3>1, OneMoreRow
      <3> QED BY <2>6, <2>7, <3>2 DEF Says
    <2> QED BY <2>1, <2>6, <2>8
  <1>4. Says(Len(rows))
    <2> HIDE DEF Says
    <2> QED BY <1>2, <1>3
  <1>5. \A k \in ControlKinds : LastUpTo(rows, k, Len(rows)) = LastRows(rows, k)
    BY <1>2 DEF LastUpTo, LastRows
  <1> QED BY <1>1, <1>2, <1>4, <1>5 DEF SaidUpTo

-----------------------------------------------------------------------------
LEMMA MergeTyped ==
  ASSUME NEW x \in ControlState, NEW y \in ControlState, NEW strategy
  PROVE  Merged(x, y, strategy) \in ControlState
  <1>1. PICK T : T = {{}} \cup {{EntryOf(c)} : c \in Controls} OBVIOUS
  <1>2. x \in [ControlKinds -> T] /\ y \in [ControlKinds -> T] BY <1>1 DEF ControlState
  <1>3. Merged(x, y, strategy) \in [ControlKinds -> T] BY <1>2 DEF Merged
  <1> QED BY <1>1, <1>3 DEF ControlState

LEMMA ApplyTyped ==
  ASSUME NEW x \in ControlState, NEW c \in Controls
  PROVE  ApplyControl(x, c) \in ControlState
  <1>1. PICK T : T = {{}} \cup {{EntryOf(e)} : e \in Controls} OBVIOUS
  <1>2. x \in [ControlKinds -> T] /\ {EntryOf(c)} \in T /\ {} \in T BY <1>1 DEF ControlState
  <1>3. c.kind \in ControlKinds BY ControlAssumption DEF ControlAssumption, Control
  <1>4. ApplyControl(x, c) \in [ControlKinds -> T] BY <1>2, <1>3 DEF ApplyControl
  <1> QED BY <1>1, <1>4 DEF ControlState

LEMMA ControlInitTyped == ControlInit => ControlTypeOK
  <1>1. NoControls \in ControlState BY DEF NoControls, ControlState
  <1> QED BY <1>1, ControlAssumption DEF ControlInit, ControlTypeOK, ControlAssumption

LEMMA ControlStepTyped == ControlTypeOK /\ [ControlNext]_controlVars => ControlTypeOK'
  <1> SUFFICES ASSUME ControlTypeOK, [ControlNext]_controlVars PROVE ControlTypeOK' OBVIOUS
  <1> USE DEF ControlTypeOK
  <1>1. ASSUME NEW c \in Controls, AppendControl(c) PROVE ControlTypeOK'
    <2>1. controlLog' \in Seq(Controls \ MalformedControls)
      BY <1>1 DEF AppendControl, WellFormed
    <2>2. controlLog' \in Seq(Controls) BY <2>1
    <2>3. Loaded(controlLog') \in ControlState
      <3>1. PICK rows \in Seq(Controls) : rows = controlLog' BY <2>2
      <3> QED BY <3>1, LoadSays
    <2> QED BY <1>1, <2>1, <2>3 DEF AppendControl
  <1>2. ASSUME NEW c \in Controls, TakeSnapshot(c) PROVE ControlTypeOK'
    BY <1>2, ApplyTyped DEF TakeSnapshot
  <1>3. ASSUME NEW strategy, ImportSnapshot(strategy) PROVE ControlTypeOK'
    <2>1. NoControls \in ControlState BY DEF NoControls, ControlState
    <2> QED BY <1>3, <2>1, MergeTyped DEF ImportSnapshot
  <1>4. CASE ControlTick BY <1>4, ControlAssumption DEF ControlTick, ControlAssumption
  <1>5. CASE UNCHANGED controlVars BY <1>5 DEF controlVars
  <1> QED BY <1>1, <1>2, <1>3, <1>4, <1>5 DEF ControlNext

\* What is expired is not in force, whether it has been pruned or not.
LEMMA PruningShowsTheSame ==
  ASSUME NEW kept \in ControlState, NEW clock
  PROVE  Visibility(WithoutExpired(kept, clock), clock) = Visibility(kept, clock)
  <1>1. PICK w : w = WithoutExpired(kept, clock) OBVIOUS
  <1>2. \A k \in ControlKinds : InForce(w, k, clock) = InForce(kept, k, clock)
    BY <1>1 DEF WithoutExpired, InForce
  <1>3. InForce(w, "allow", clock) = InForce(kept, "allow", clock)
    BY <1>2 DEF ControlKinds
  <1> DEFINE applies(s) == {k \in ControlKinds : AppliesAnyway(k) \/ ~(InForce(s, "allow", clock) # {})}
             ranks(s) == {x.rank : x \in UNION {InForce(s, k, clock) : k \in applies(s)}}
  <1>4. applies(w) = applies(kept) BY <1>3
  <1>5. {InForce(w, k, clock) : k \in applies(w)} = {InForce(kept, k, clock) : k \in applies(kept)}
    BY <1>2, <1>4
  <1>6. ranks(w) = ranks(kept) BY <1>5
  <1>7. Visibility(w, clock) = CHOOSE r \in ranks(w) \cup {0} : \A other \in ranks(w) : other <= r
    BY DEF Visibility
  <1>8. Visibility(kept, clock) =
          CHOOSE r \in ranks(kept) \cup {0} : \A other \in ranks(kept) : other <= r
    BY DEF Visibility
  <1> HIDE DEF ranks
  <1> QED BY <1>1, <1>6, <1>7, <1>8

LEMMA VisibilityIsHighest ==
  ASSUME NEW kept \in ControlState, NEW clock, NEW k \in {"block", "mute", "hard"},
         NEW x \in InForce(kept, k, clock)
  PROVE  Visibility(kept, clock) >= x.rank
  <1> DEFINE applies == {j \in ControlKinds : AppliesAnyway(j) \/ ~(InForce(kept, "allow", clock) # {})}
             ranks == {y.rank : y \in UNION {InForce(kept, j, clock) : j \in applies}}
  <1>1. Visibility(kept, clock) = CHOOSE r \in ranks \cup {0} : \A other \in ranks : other <= r
    BY DEF Visibility
  <1>2. k \in applies BY DEF ControlKinds, AppliesAnyway
  <1>3. x.rank \in ranks BY <1>2
  <1>4. ranks \subseteq 0..5
    <2> SUFFICES ASSUME NEW j \in ControlKinds, NEW y \in InForce(kept, j, clock)
                 PROVE  y.rank \in 0..5
      OBVIOUS
    <2>1. y \in kept[j] BY DEF InForce
    <2>2. PICK c \in Controls : y = EntryOf(c) BY <2>1 DEF ControlState
    <2> QED BY <2>2, ControlAssumption DEF ControlAssumption, Control, Ranks, EntryOf
  <1> HIDE DEF ranks
  <1>5. \E r \in ranks \cup {0} : \A other \in ranks : other <= r
    <2>1. PICK T : T = {5 - r : r \in ranks} OBVIOUS
    <2>2. \A r \in ranks : 5 - r \in Nat BY <1>4
    <2>3. T \in SUBSET Nat /\ T # {} BY <1>3, <2>1, <2>2
    <2>4. PICK i \in T : \A j \in T : i <= j BY <2>3, LowestNumber
    <2>5. PICK r \in ranks : i = 5 - r BY <2>1, <2>4
    <2>6. \A other \in ranks : 5 - r <= 5 - other BY <2>1, <2>4, <2>5
    <2>7. \A other \in ranks : other <= r BY <1>4, <2>6
    <2> QED BY <2>7
  <1>6. PICK v : v = Visibility(kept, clock) OBVIOUS
  <1>7. v \in ranks \cup {0} /\ \A other \in ranks : other <= v BY <1>1, <1>5, <1>6
  <1>8. PICK r : r = x.rank OBVIOUS
  <1>a. r \in 0..5 BY <1>3, <1>4, <1>8
  <1>9. r \in Nat BY <1>a
  <1>10. v \in Nat BY <1>4, <1>7
  <1>11. r <= v BY <1>3, <1>7, <1>8
  <1>12. v >= r BY <1>9, <1>10, <1>11
  <1> QED BY <1>6, <1>8, <1>12

LEMMA SafetyIsKept == ControlTypeOK => AllowlistKeepsSafety
  BY VisibilityIsHighest DEF ControlTypeOK, AllowlistKeepsSafety

LEMMA RowIsShown ==
  ASSUME ControlTypeOK, NEW c \in Controls, AppendControl(c), Loadable(controlLog')
  PROVE  /\ \A k \in ControlKinds :
              controlState'[k] =
                {EntryOf(controlLog'[i]) : i \in {j \in LastRows(controlLog', k) :
                                                    controlLog'[j].action = "apply"}}
         /\ Visibility(WithoutExpired(controlState', controlNow), controlNow) =
              Visibility(controlState', controlNow)
  <1>1. controlLog' \in Seq(Controls) BY DEF ControlTypeOK, AppendControl
  <1>2. PICK rows \in Seq(Controls) : rows = controlLog' BY <1>1
  <1>3. controlState' = Loaded(rows) BY <1>2 DEF AppendControl
  <1>4. PICK kept : kept = controlState' OBVIOUS
  <1>5. kept \in ControlState BY <1>3, <1>4, LoadSays
  <1>6. Visibility(WithoutExpired(kept, controlNow), controlNow) = Visibility(kept, controlNow)
    BY <1>5, PruningShowsTheSame
  <1>7. \A k \in ControlKinds :
          kept[k] = {EntryOf(rows[i]) : i \in {j \in LastRows(rows, k) : rows[j].action = "apply"}}
    BY <1>3, <1>4, LoadSays
  <1> QED BY <1>2, <1>4, <1>6, <1>7

-----------------------------------------------------------------------------
LabelRows == Seq(LabelEvents)

LabelState ==
  [told: Nat, defined: SUBSET LabelEvents, active: SUBSET [sub: LabelEvents, place: Nat],
   ended: SUBSET LabelEvents, shown: SUBSET LabelEvents, revoked: SUBSET LabelEvents,
   profiles: SUBSET LabelEvents, notes: SUBSET LabelEvents]

LEMMA LabelApplied ==
  ASSUME NEW kept \in LabelState, NEW e \in LabelEvents
  PROVE  /\ ApplyLabel(kept, e) \in LabelState
         /\ ApplyLabel(kept, e).told = kept.told + 1
         /\ ApplyLabel(kept, e).active = Told(kept, e).active
         /\ ApplyLabel(kept, e).ended = Told(kept, e).ended
         /\ ApplyLabel(kept, e).shown = Told(kept, e).shown
         /\ ApplyLabel(kept, e).revoked = Told(kept, e).revoked
  <1>1. PICK t : t = Told(kept, e) OBVIOUS
  <1>2. Subscriptions(kept) \in SUBSET LabelEvents BY DEF Subscriptions, LabelState
  <1>3. \A S \in SUBSET LabelEvents : NamedBy(e, S) \in SUBSET S BY DEF NamedBy
  <1>4. t \in LabelState /\ t.told = kept.told
    <2>1. CASE ~Transitions(kept, e) BY <1>1, <2>1 DEF Told
    <2>2. CASE Transitions(kept, e) /\ e.kind = "define"
      <3>1. t = [kept EXCEPT !.defined = @ \cup {e}] BY <1>1, <2>2 DEF Told
      <3> QED BY <3>1 DEF LabelState
    <2>3. CASE Transitions(kept, e) /\ e.kind = "subscribe"
      <3>1. t = [kept EXCEPT !.active = @ \cup {[sub |-> e, place |-> kept.told]}]
        BY <1>1, <2>3 DEF Told
      <3> QED BY <3>1 DEF LabelState
    <2>4. CASE Transitions(kept, e) /\ e.kind = "unsubscribe"
      <3>1. PICK A : A = {s \in kept.active : s.sub.of # e.of} OBVIOUS
      <3>2. PICK E : E = kept.ended \cup NamedBy(e, Subscriptions(kept)) OBVIOUS
      <3>3. t = [kept EXCEPT !.active = A, !.ended = E]
        BY <1>1, <2>4, <3>1, <3>2 DEF Told, LabelState
      <3>4. A \in SUBSET [sub: LabelEvents, place: Nat] BY <3>1 DEF LabelState
      <3>5. E \in SUBSET LabelEvents BY <1>2, <1>3, <3>2 DEF LabelState
      <3> QED BY <3>3, <3>4, <3>5 DEF LabelState
    <2>5. CASE Transitions(kept, e) /\ e.kind = "apply"
      <3>1. t = [kept EXCEPT !.shown = @ \cup {e}] BY <1>1, <2>5 DEF Told
      <3> QED BY <3>1 DEF LabelState
    <2>6. CASE Transitions(kept, e) /\ e.kind = "revoke"
      <3>1. PICK N : N = NamedBy(e, kept.shown) OBVIOUS
      <3>2. t = [kept EXCEPT !.shown = @ \ N, !.revoked = @ \cup N]
        BY <1>1, <2>6, <3>1 DEF Told, LabelState
      <3>3. N \in SUBSET LabelEvents BY <1>3, <3>1 DEF LabelState
      <3> QED BY <3>2, <3>3 DEF LabelState
    <2>7. CASE Transitions(kept, e) /\ e.kind = "profile"
      <3>1. PICK N : N = (kept.profiles \ NamedBy(e, kept.profiles)) \cup {e} OBVIOUS
      <3>2. t = [kept EXCEPT !.profiles = N] BY <1>1, <2>7, <3>1 DEF Told, LabelState
      <3>3. N \in SUBSET LabelEvents BY <3>1 DEF LabelState
      <3> QED BY <3>2, <3>3 DEF LabelState
    <2>8. CASE Transitions(kept, e) /\ e.kind = "annotate"
      <3>1. PICK N : N = IF NamedBy(e, kept.notes) = {} THEN kept.notes \cup {e} ELSE kept.notes
        OBVIOUS
      <3>2. t = [kept EXCEPT !.notes = N] BY <1>1, <2>8, <3>1 DEF Told, LabelState
      <3>3. N \in SUBSET LabelEvents BY <3>1 DEF LabelState
      <3> QED BY <3>2, <3>3 DEF LabelState
    <2>9. e.kind \in LabelKinds BY LabelAssumption DEF LabelAssumption, LabelEvent
    <2> HIDE DEF LabelState
    <2> QED BY <2>1, <2>2, <2>3, <2>4, <2>5, <2>6, <2>7, <2>8, <2>9 DEF LabelKinds
  <1>5. ApplyLabel(kept, e) = [t EXCEPT !.told = @ + 1] BY <1>1 DEF ApplyLabel
  <1>6. [t EXCEPT !.told = @ + 1] \in LabelState BY <1>4 DEF LabelState
  <1> QED BY <1>1, <1>4, <1>5, <1>6 DEF LabelState

\* So does loading the labels.
LEMMA LabelPrefixes ==
  ASSUME NEW rows \in Seq(LabelEvents)
  PROVE  \E G : /\ G[0] = NoLabels /\ LoadedLabels(rows) = G[Len(rows)]
                /\ \A k \in 0..Len(rows) : G[k] \in LabelState
                /\ \A k \in Nat : k < Len(rows) => G[k + 1] = ApplyLabel(G[k], rows[k + 1])
  <1> DEFINE n == Len(rows)
             A == 1..n
             step == [xv \in A \X LabelState |-> ApplyLabel(xv[2], rows[xv[1]])]
             Steps(F) == F = [s \in SUBSET A |->
                                IF s = {} THEN NoLabels
                                ELSE LET x == Max(s) IN ApplyLabel(F[s \ {x}], rows[x])]
             iter == CHOOSE F : Steps(F)
  <1>0. n \in Nat /\ DOMAIN rows = A OBVIOUS
  <1>1. NoLabels \in LabelState BY DEF NoLabels, LabelState
  <1>2. \A x \in A, v \in LabelState : ApplyLabel(v, rows[x]) \in LabelState
    <2> SUFFICES ASSUME NEW x \in A, NEW v \in LabelState
                 PROVE  ApplyLabel(v, rows[x]) \in LabelState
      OBVIOUS
    <2>1. PICK e \in LabelEvents : e = rows[x] OBVIOUS
    <2> QED BY <2>1, LabelApplied
  <1>3. \A x \in A, v \in LabelState : step[<<x, v>>] = ApplyLabel(v, rows[x]) OBVIOUS
  <1>4. PICK F \in [SUBSET A -> LabelState] : FoldOf(F, A, NoLabels, Highest(n), step)
    <2>1. \A x \in A, v \in LabelState : step[<<x, v>>] \in LabelState BY <1>2, <1>3
    <2> HIDE DEF step
    <2> QED BY <1>0, <1>1, <2>1, OrderedFold
  <1>5. Steps(F)
    <2>1. ASSUME NEW s \in SUBSET A
          PROVE  F[s] = IF s = {} THEN NoLabels
                        ELSE LET x == Max(s) IN ApplyLabel(F[s \ {x}], rows[x])
      <3>1. F[s] = IF s = {} THEN NoLabels
                   ELSE step[<<Highest(n)[s], F[s \ {Highest(n)[s]}]>>]
        BY <1>4 DEF FoldOf
      <3>2. CASE s # {}
        <4>1. Highest(n)[s] = Max(s) /\ Max(s) \in A BY <1>0, <3>2, HighestIn DEF Highest
        <4>2. F[s \ {Max(s)}] \in LabelState BY <1>4
        <4>3. step[<<Max(s), F[s \ {Max(s)}]>>] = ApplyLabel(F[s \ {Max(s)}], rows[Max(s)])
          BY <1>3, <4>1, <4>2
        <4> QED BY <3>1, <3>2, <4>1, <4>3, Zenon
      <3> QED BY <3>1, <3>2
    <2> QED BY <1>4, <2>1
  <1>6. Steps(iter) BY <1>5
  <1>7. LoadedLabels(rows) = iter[A] BY <1>0 DEF LoadedLabels, FoldLeft, MapThenFoldSet
  <1>8. /\ iter[{}] = NoLabels
        /\ \A s \in SUBSET A : s # {} => iter[s] = ApplyLabel(iter[s \ {Max(s)}], rows[Max(s)])
    <2> HIDE DEF iter
    <2> QED BY <1>6
  <1>9. PICK I : I = iter OBVIOUS
  <1> DEFINE G == [k \in 0..n |-> I[1..k]]
  <1>10. G[0] = NoLabels BY <1>8, <1>9
  <1>11. \A k \in Nat : k < n => G[k + 1] = ApplyLabel(G[k], rows[k + 1])
    <2> SUFFICES ASSUME NEW k \in Nat, k < n
                 PROVE  G[k + 1] = ApplyLabel(G[k], rows[k + 1])
      OBVIOUS
    <2>1. G[k + 1] = I[1..(k + 1)] /\ G[k] = I[1..k] BY <1>0
    <2>2. I[1..(k + 1)] = ApplyLabel(I[(1..(k + 1)) \ {Max(1..(k + 1))}],
                                       rows[Max(1..(k + 1))])
      BY <1>0, <1>8, <1>9, PrefixEnds
    <2> QED BY <1>0, <2>1, <2>2, PrefixEnds
  <1>12. LoadedLabels(rows) = G[n] BY <1>7, <1>9, <1>0
  <1>13. \A k \in 0..n : G[k] \in LabelState
    <2> HIDE DEF G, step
    <2> DEFINE Bad == {k \in Nat : k <= n /\ G[k] \notin LabelState}
    <2> SUFFICES ASSUME Bad # {} PROVE FALSE BY <1>0
    <2>1. PICK k \in Bad : \A j \in Bad : k <= j
      <3>1. Bad \in SUBSET Nat OBVIOUS
      <3> HIDE DEF Bad
      <3> QED BY <3>1, LowestNumber
    <2>2. k # 0 BY <2>1, <1>1, <1>10
    <2>3. k - 1 \in Nat /\ k - 1 < n /\ (k - 1) + 1 = k /\ ~(k <= k - 1) /\ k \in A
      BY <2>1, <2>2, <1>0
    <2>4. G[k - 1] \in LabelState BY <2>1, <2>3
    <2>5. G[k] = ApplyLabel(G[k - 1], rows[k]) BY <1>11, <2>3
    <2>6. G[k] \in LabelState BY <1>2, <2>3, <2>4, <2>5
    <2> QED BY <2>1, <2>6
  <1> QED BY <1>10, <1>11, <1>12, <1>13

\* What can be read off the first m rows: the first of each label or subscription, the
\* labels in force and the standing subscriptions.
FirstsUpTo(rows, kind, m) ==
  {i \in 1..m : rows[i].kind = kind /\
     \A j \in 1..m : rows[j].kind = kind /\ rows[j].of = rows[i].of => i <= j}

InForceUpTo(rows, m) ==
  {i \in FirstsUpTo(rows, "apply", m) :
     ~\E j \in 1..m : /\ rows[j].kind = "revoke" /\ rows[j].of = rows[i].of
                      /\ j > i /\ rows[j].who = rows[i].who}

StandingUpTo(rows, m) ==
  {i \in FirstsUpTo(rows, "subscribe", m) :
     ~\E j \in 1..m : rows[j].kind = "unsubscribe" /\ rows[j].of = rows[i].of /\ j > i}

FollowsRows(rows, m, kept) ==
  /\ kept.told = m
  /\ kept.shown = {rows[i] : i \in InForceUpTo(rows, m)}
  /\ kept.shown \cup kept.revoked = {rows[i] : i \in FirstsUpTo(rows, "apply", m)}
  /\ kept.active = {[sub |-> rows[i], place |-> i - 1] : i \in StandingUpTo(rows, m)}
  /\ Subscriptions(kept) \cup kept.ended =
       {rows[i] : i \in FirstsUpTo(rows, "subscribe", m)}

LEMMA FirstOf ==
  ASSUME NEW rows, NEW kind, NEW m \in Nat, NEW j \in 1..m, rows[j].kind = kind
  PROVE  \E i \in FirstsUpTo(rows, kind, m) : rows[i].of = rows[j].of
  <1> DEFINE T == {i \in 1..m : rows[i].kind = kind /\ rows[i].of = rows[j].of}
  <1>1. T \in SUBSET Nat /\ j \in T OBVIOUS
  <1>2. PICK i \in T : \A l \in T : i <= l
    <2> HIDE DEF T
    <2> QED BY <1>1, LowestNumber
  <1>3. i \in FirstsUpTo(rows, kind, m) BY <1>2 DEF FirstsUpTo
  <1> QED BY <1>2, <1>3

LEMMA FirstIsOne ==
  ASSUME NEW rows, NEW kind, NEW m \in Nat, NEW i \in FirstsUpTo(rows, kind, m),
         NEW j \in FirstsUpTo(rows, kind, m), rows[i].of = rows[j].of
  PROVE  i = j
  <1>1. i \in 1..m /\ j \in 1..m /\ i <= j /\ j <= i BY DEF FirstsUpTo
  <1> QED BY <1>1

LEMMA FirstsGrow ==
  ASSUME NEW rows, NEW kind, NEW m \in Nat
  PROVE  FirstsUpTo(rows, kind, m + 1) =
           FirstsUpTo(rows, kind, m) \cup
             {i \in {m + 1} : rows[i].kind = kind /\
                \A j \in FirstsUpTo(rows, kind, m) : rows[j].of # rows[i].of}
  <1>1. \A i : i \in 1..(m + 1) <=> i \in 1..m \/ i = m + 1 OBVIOUS
  <1>2. \A i \in 1..m : i \in FirstsUpTo(rows, kind, m + 1) <=> i \in FirstsUpTo(rows, kind, m)
    <2> SUFFICES ASSUME NEW i \in 1..m
                 PROVE  i \in FirstsUpTo(rows, kind, m + 1) <=> i \in FirstsUpTo(rows, kind, m)
      OBVIOUS
    <2>1. i <= m + 1 /\ i \in 1..(m + 1) OBVIOUS
    <2> QED BY <1>1, <2>1 DEF FirstsUpTo
  <1>3. m + 1 \in FirstsUpTo(rows, kind, m + 1) <=>
          rows[m + 1].kind = kind /\
          \A j \in FirstsUpTo(rows, kind, m) : rows[j].of # rows[m + 1].of
    <2>1. ASSUME m + 1 \in FirstsUpTo(rows, kind, m + 1), NEW j \in FirstsUpTo(rows, kind, m),
                 rows[j].of = rows[m + 1].of
          PROVE  FALSE
      <3>1. j \in 1..m /\ rows[j].kind = kind BY DEF FirstsUpTo
      <3>2. m + 1 <= j BY <2>1, <1>1, <3>1 DEF FirstsUpTo
      <3> QED BY <3>1, <3>2
    <2>2. ASSUME rows[m + 1].kind = kind,
                 \A j \in FirstsUpTo(rows, kind, m) : rows[j].of # rows[m + 1].of
          PROVE  m + 1 \in FirstsUpTo(rows, kind, m + 1)
      <3>1. \A j \in 1..m : rows[j].kind = kind => rows[j].of # rows[m + 1].of
        BY <2>2, FirstOf
      <3>2. m + 1 \in 1..(m + 1) /\ m + 1 <= m + 1 OBVIOUS
      <3> QED BY <1>1, <2>2, <3>1, <3>2 DEF FirstsUpTo
    <2>3. m + 1 \in FirstsUpTo(rows, kind, m + 1) => rows[m + 1].kind = kind BY DEF FirstsUpTo
    <2> QED BY <2>1, <2>2, <2>3
  <1>4. \A i : i \in FirstsUpTo(rows, kind, m + 1) => i \in 1..m \/ i = m + 1
    BY <1>1 DEF FirstsUpTo
  <1>5. \A i : i \in FirstsUpTo(rows, kind, m) => i \in 1..m BY DEF FirstsUpTo
  <1> QED BY <1>2, <1>3, <1>4, <1>5

LEMMA InForceGrows ==
  ASSUME NEW rows, NEW m \in Nat
  PROVE  InForceUpTo(rows, m + 1) =
           {i \in InForceUpTo(rows, m) :
              ~(rows[m + 1].kind = "revoke" /\ rows[m + 1].of = rows[i].of
                /\ rows[m + 1].who = rows[i].who)}
           \cup {i \in FirstsUpTo(rows, "apply", m + 1) : i = m + 1}
  <1>1. \A i : i \in 1..(m + 1) <=> i \in 1..m \/ i = m + 1 OBVIOUS
  <1>2. \A i : i \in FirstsUpTo(rows, "apply", m) => i \in 1..m BY DEF FirstsUpTo
  <1>3. \A i : i \in FirstsUpTo(rows, "apply", m + 1) <=>
          i \in FirstsUpTo(rows, "apply", m) \/ (i = m + 1 /\ i \in FirstsUpTo(rows, "apply", m + 1))
    BY FirstsGrow
  <1>4. \A i \in 1..m : m + 1 > i OBVIOUS
  <1>5. \A i \in FirstsUpTo(rows, "apply", m) :
          (\E j \in 1..(m + 1) : /\ rows[j].kind = "revoke" /\ rows[j].of = rows[i].of
                                 /\ j > i /\ rows[j].who = rows[i].who)
          <=> \/ \E j \in 1..m : /\ rows[j].kind = "revoke" /\ rows[j].of = rows[i].of
                                 /\ j > i /\ rows[j].who = rows[i].who
              \/ /\ rows[m + 1].kind = "revoke" /\ rows[m + 1].of = rows[i].of
                 /\ rows[m + 1].who = rows[i].who
    BY <1>1, <1>2, <1>4
  <1>6. \A j \in 1..(m + 1) : ~(j > m + 1) OBVIOUS
  <1> QED BY <1>2, <1>3, <1>5, <1>6 DEF InForceUpTo

LEMMA StandingGrows ==
  ASSUME NEW rows, NEW m \in Nat
  PROVE  StandingUpTo(rows, m + 1) =
           {i \in StandingUpTo(rows, m) :
              ~(rows[m + 1].kind = "unsubscribe" /\ rows[m + 1].of = rows[i].of)}
           \cup {i \in FirstsUpTo(rows, "subscribe", m + 1) : i = m + 1}
  <1>1. \A i : i \in 1..(m + 1) <=> i \in 1..m \/ i = m + 1 OBVIOUS
  <1>2. \A i : i \in FirstsUpTo(rows, "subscribe", m) => i \in 1..m BY DEF FirstsUpTo
  <1>3. \A i : i \in FirstsUpTo(rows, "subscribe", m + 1) <=>
          \/ i \in FirstsUpTo(rows, "subscribe", m)
          \/ i = m + 1 /\ i \in FirstsUpTo(rows, "subscribe", m + 1)
    BY FirstsGrow
  <1>4. \A i \in 1..m : m + 1 > i OBVIOUS
  <1>5. \A i \in FirstsUpTo(rows, "subscribe", m) :
          (\E j \in 1..(m + 1) :
              rows[j].kind = "unsubscribe" /\ rows[j].of = rows[i].of /\ j > i)
          <=> \/ \E j \in 1..m :
                   rows[j].kind = "unsubscribe" /\ rows[j].of = rows[i].of /\ j > i
              \/ rows[m + 1].kind = "unsubscribe" /\ rows[m + 1].of = rows[i].of
    BY <1>1, <1>2, <1>4
  <1>6. \A j \in 1..(m + 1) : ~(j > m + 1) OBVIOUS
  <1> QED BY <1>2, <1>3, <1>5, <1>6 DEF StandingUpTo

LEMMA FollowsGrows ==
  ASSUME NEW rows, NEW m \in Nat, NEW e \in LabelEvents, e = rows[m + 1],
         NEW kept \in LabelState, FollowsRows(rows, m, kept)
  PROVE  FollowsRows(rows, m + 1, ApplyLabel(kept, e))
  <1>1. PICK A : A = FirstsUpTo(rows, "apply", m) OBVIOUS
  <1>2. PICK I : I = InForceUpTo(rows, m) OBVIOUS
  <1>3. PICK B : B = FirstsUpTo(rows, "subscribe", m) OBVIOUS
  <1>4. PICK S : S = StandingUpTo(rows, m) OBVIOUS
  <1>5. PICK p : p = m + 1 OBVIOUS
  <1>6. PICK t : t = Told(kept, e) OBVIOUS
  <1>7. /\ kept.told = m
        /\ kept.shown = {rows[i] : i \in I}
        /\ kept.shown \cup kept.revoked = {rows[i] : i \in A}
        /\ kept.active = {[sub |-> rows[i], place |-> i - 1] : i \in S}
        /\ Subscriptions(kept) \cup kept.ended = {rows[i] : i \in B}
    BY <1>1, <1>2, <1>3, <1>4 DEF FollowsRows
  <1>8. I \subseteq A /\ S \subseteq B BY <1>1, <1>2, <1>3, <1>4 DEF InForceUpTo, StandingUpTo
  <1>9. /\ \A i, j \in A : rows[i].of = rows[j].of => i = j
        /\ \A i, j \in B : rows[i].of = rows[j].of => i = j
    BY <1>1, <1>3, FirstIsOne
  <1>10. FirstsUpTo(rows, "apply", p) =
           A \cup {i \in {p} : e.kind = "apply" /\ \A j \in A : rows[j].of # e.of}
    <2>1. FirstsUpTo(rows, "apply", m + 1) =
            A \cup {i \in {m + 1} : rows[i].kind = "apply" /\ \A j \in A : rows[j].of # rows[i].of}
      BY <1>1, FirstsGrow
    <2> QED BY <1>5, <2>1
  <1>11. FirstsUpTo(rows, "subscribe", p) =
           B \cup {i \in {p} : e.kind = "subscribe" /\ \A j \in B : rows[j].of # e.of}
    <2>1. FirstsUpTo(rows, "subscribe", m + 1) =
            B \cup {i \in {m + 1} : rows[i].kind = "subscribe" /\ \A j \in B : rows[j].of # rows[i].of}
      BY <1>3, FirstsGrow
    <2> QED BY <1>5, <2>1
  <1>12. InForceUpTo(rows, p) =
           {i \in I : ~(e.kind = "revoke" /\ e.of = rows[i].of /\ e.who = rows[i].who)}
           \cup {i \in FirstsUpTo(rows, "apply", p) : i = p}
    BY <1>2, <1>5, InForceGrows
  <1>13. StandingUpTo(rows, p) =
           {i \in S : ~(e.kind = "unsubscribe" /\ e.of = rows[i].of)}
           \cup {i \in FirstsUpTo(rows, "subscribe", p) : i = p}
    BY <1>4, <1>5, StandingGrows
  <1>14. p \notin A /\ p \notin B
    <2>1. \A i \in 1..m : i # p BY <1>5
    <2> QED BY <2>1, <1>1, <1>3 DEF FirstsUpTo
  <1>15. Subscriptions(kept) = {rows[i] : i \in S}
    <2>1. \A s \in kept.active : \E i \in S : s.sub = rows[i] BY <1>7
    <2>2. ASSUME NEW i \in S PROVE \E s \in kept.active : s.sub = rows[i]
      <3>1. [sub |-> rows[i], place |-> i - 1] \in kept.active BY <1>7
      <3> QED BY <3>1
    <2> QED BY <2>1, <2>2 DEF Subscriptions
  <1> DEFINE Shows(x) ==
        /\ x.shown = {rows[i] : i \in InForceUpTo(rows, p)}
        /\ x.shown \cup x.revoked = {rows[i] : i \in FirstsUpTo(rows, "apply", p)}
             Lists(x) ==
        /\ x.active = {[sub |-> rows[i], place |-> i - 1] : i \in StandingUpTo(rows, p)}
        /\ Subscriptions(x) \cup x.ended = {rows[i] : i \in FirstsUpTo(rows, "subscribe", p)}
  \* What an event about something else leaves as it is.
  <1>16. ASSUME e.kind \notin {"apply", "revoke"}, t.shown = kept.shown,
                t.revoked = kept.revoked
         PROVE  Shows(t)
    <2>1. FirstsUpTo(rows, "apply", p) = A BY <1>10, <1>16
    <2>2. InForceUpTo(rows, p) = I BY <1>8, <1>12, <1>14, <1>16, <2>1
    <2> QED BY <1>7, <1>16, <2>1, <2>2
  <1>17. ASSUME e.kind \notin {"subscribe", "unsubscribe"}, t.active = kept.active,
                t.ended = kept.ended
         PROVE  Lists(t)
    <2>1. FirstsUpTo(rows, "subscribe", p) = B BY <1>11, <1>17
    <2>2. StandingUpTo(rows, p) = S BY <1>8, <1>13, <1>14, <1>17, <2>1
    <2>3. Subscriptions(t) = Subscriptions(kept) BY <1>17 DEF Subscriptions
    <2> QED BY <1>7, <1>17, <2>1, <2>2, <2>3
  <1>18. ASSUME e.kind = "apply"
         PROVE  Shows(t) /\ Lists(t)
    <2>1. t.active = kept.active /\ t.ended = kept.ended
      BY <1>6, <1>18 DEF Told, LabelState
    <2>2. Transitions(kept, e) <=> \A j \in A : rows[j].of # e.of
      BY <1>7, <1>18 DEF Transitions
    <2>3. CASE Transitions(kept, e)
      <3>1. t.shown = kept.shown \cup {e} /\ t.revoked = kept.revoked
        BY <1>6, <1>18, <2>3 DEF Told, LabelState
      <3>2. FirstsUpTo(rows, "apply", p) = A \cup {p} BY <1>10, <1>18, <2>2, <2>3
      <3>3. InForceUpTo(rows, p) = I \cup {p} BY <1>12, <1>18, <3>2, <1>8
      <3>4. rows[p] = e BY <1>5
      <3>5. Shows(t) BY <1>7, <3>1, <3>2, <3>3, <3>4
      <3> QED BY <3>5, <2>1, <1>17, <1>18
    <2>4. CASE ~Transitions(kept, e)
      <3>1. t.shown = kept.shown /\ t.revoked = kept.revoked BY <1>6, <2>4 DEF Told
      <3>2. FirstsUpTo(rows, "apply", p) = A BY <1>10, <2>2, <2>4
      <3>3. InForceUpTo(rows, p) = I BY <1>8, <1>12, <1>14, <1>18, <3>2
      <3>4. Shows(t) BY <1>7, <3>1, <3>2, <3>3
      <3> QED BY <3>4, <2>1, <1>17, <1>18
    <2> QED BY <2>3, <2>4
  <1>19. ASSUME e.kind = "revoke"
         PROVE  Shows(t) /\ Lists(t)
    <2>1. t.active = kept.active /\ t.ended = kept.ended
      BY <1>6, <1>19 DEF Told, LabelState
    <2>2. FirstsUpTo(rows, "apply", p) = A BY <1>10, <1>19
    <2>3. InForceUpTo(rows, p) = {i \in I : ~(e.of = rows[i].of /\ e.who = rows[i].who)}
      BY <1>8, <1>12, <1>14, <1>19, <2>2
    <2>4. CASE Transitions(kept, e)
      <3>1. PICK l \in I : rows[l].of = e.of /\ rows[l].who = e.who
        BY <1>7, <1>19, <2>4 DEF Transitions, AllowsRevocation
      <3>2. \A i \in I : e.of = rows[i].of => i = l BY <1>8, <1>9, <3>1
      <3>3. PICK N : N = NamedBy(e, kept.shown) OBVIOUS
      <3>4. t.shown = kept.shown \ N /\ t.revoked = kept.revoked \cup N
        BY <1>6, <1>19, <2>4, <3>3 DEF Told, LabelState
      <3>5. N = {x \in kept.shown : x.of = e.of} BY <3>3 DEF NamedBy
      <3>6. t.shown = {x \in kept.shown : x.of # e.of} BY <3>4, <3>5
      <3>7. t.shown = {rows[i] : i \in {j \in I : rows[j].of # e.of}} BY <1>7, <3>6
      <3>8. InForceUpTo(rows, p) = {j \in I : rows[j].of # e.of} BY <2>3, <3>1, <3>2
      <3>9. t.shown \cup t.revoked = kept.shown \cup kept.revoked BY <3>4, <3>5
      <3>10. Shows(t) BY <1>7, <2>2, <3>7, <3>8, <3>9
      <3> QED BY <3>10, <2>1, <1>17, <1>19
    <2>5. CASE ~Transitions(kept, e)
      <3>1. t.shown = kept.shown /\ t.revoked = kept.revoked BY <1>6, <2>5 DEF Told
      <3>2. \A i \in I : ~(e.of = rows[i].of /\ e.who = rows[i].who)
        BY <1>7, <1>19, <2>5 DEF Transitions, AllowsRevocation
      <3>3. InForceUpTo(rows, p) = I BY <2>3, <3>2
      <3>4. Shows(t) BY <1>7, <2>2, <3>1, <3>3
      <3> QED BY <3>4, <2>1, <1>17, <1>19
    <2> QED BY <2>4, <2>5
  <1>20. ASSUME e.kind = "subscribe"
         PROVE  Shows(t) /\ Lists(t)
    <2>1. t.shown = kept.shown /\ t.revoked = kept.revoked
      BY <1>6, <1>20 DEF Told, LabelState
    <2>2. Transitions(kept, e) <=> \A j \in B : rows[j].of # e.of
      <3>1. Transitions(kept, e) <=> NamedBy(e, {rows[i] : i \in B}) = {}
        BY <1>7, <1>20 DEF Transitions
      <3> QED BY <3>1 DEF NamedBy
    <2>3. CASE Transitions(kept, e)
      <3>1. t.active = kept.active \cup {[sub |-> e, place |-> kept.told]}
            /\ t.ended = kept.ended
        BY <1>6, <1>20, <2>3 DEF Told, LabelState
      <3>2. FirstsUpTo(rows, "subscribe", p) = B \cup {p} BY <1>11, <1>20, <2>2, <2>3
      <3>3. StandingUpTo(rows, p) = S \cup {p} BY <1>13, <1>20, <3>2, <1>8
      <3>4. rows[p] = e /\ p - 1 = m BY <1>5
      <3>5. [sub |-> e, place |-> kept.told] = [sub |-> rows[p], place |-> p - 1]
        BY <1>7, <3>4
      <3>6. t.active = {[sub |-> rows[i], place |-> i - 1] : i \in S \cup {p}}
        BY <1>7, <3>1, <3>5
      <3>7. Subscriptions(t) = Subscriptions(kept) \cup {e}
        <4>1. PICK s : s = [sub |-> e, place |-> kept.told] OBVIOUS
        <4>2. s.sub = e /\ t.active = kept.active \cup {s} BY <3>1, <4>1
        <4> QED BY <4>2 DEF Subscriptions
      <3>8. Lists(t) BY <1>7, <3>1, <3>2, <3>3, <3>4, <3>6, <3>7
      <3> QED BY <3>8, <2>1, <1>16, <1>20
    <2>4. CASE ~Transitions(kept, e)
      <3>1. t.active = kept.active /\ t.ended = kept.ended BY <1>6, <2>4 DEF Told
      <3>2. FirstsUpTo(rows, "subscribe", p) = B BY <1>11, <2>2, <2>4
      <3>3. StandingUpTo(rows, p) = S BY <1>8, <1>13, <1>14, <1>20, <3>2
      <3>4. Subscriptions(t) = Subscriptions(kept) BY <3>1 DEF Subscriptions
      <3>5. Lists(t) BY <1>7, <3>1, <3>2, <3>3, <3>4
      <3> QED BY <3>5, <2>1, <1>16, <1>20
    <2> QED BY <2>3, <2>4
  <1>21. ASSUME e.kind = "unsubscribe"
         PROVE  Shows(t) /\ Lists(t)
    <2>1. t.shown = kept.shown /\ t.revoked = kept.revoked
      BY <1>6, <1>21 DEF Told, LabelState
    <2>2. FirstsUpTo(rows, "subscribe", p) = B BY <1>11, <1>21
    <2>3. StandingUpTo(rows, p) = {i \in S : e.of # rows[i].of}
      BY <1>8, <1>13, <1>14, <1>21, <2>2
    <2>4. CASE Transitions(kept, e)
      <3>1. PICK N : N = NamedBy(e, Subscriptions(kept)) OBVIOUS
      <3>2. t.active = {s \in kept.active : s.sub.of # e.of} /\ t.ended = kept.ended \cup N
        BY <1>6, <1>21, <2>4, <3>1 DEF Told, LabelState
      <3>3. t.active = {[sub |-> rows[i], place |-> i - 1] : i \in {j \in S : e.of # rows[j].of}}
        BY <1>7, <3>2
      <3>4. N = {s \in Subscriptions(kept) : s.of = e.of} BY <3>1 DEF NamedBy
      <3>5. Subscriptions(t) = {s \in Subscriptions(kept) : s.of # e.of}
        BY <3>2 DEF Subscriptions
      <3>6. Subscriptions(t) \cup t.ended = Subscriptions(kept) \cup kept.ended
        BY <3>2, <3>4, <3>5
      <3>7. Lists(t) BY <1>7, <2>2, <2>3, <3>3, <3>6
      <3> QED BY <3>7, <2>1, <1>16, <1>21
    <2>5. CASE ~Transitions(kept, e)
      <3>1. t.active = kept.active /\ t.ended = kept.ended BY <1>6, <2>5 DEF Told
      <3>2. \A i \in S : e.of # rows[i].of
        <4>1. NamedBy(e, {rows[i] : i \in S}) = {} BY <1>15, <1>21, <2>5 DEF Transitions
        <4> QED BY <4>1 DEF NamedBy
      <3>3. StandingUpTo(rows, p) = S BY <2>3, <3>2
      <3>4. Subscriptions(t) = Subscriptions(kept) BY <3>1 DEF Subscriptions
      <3>5. Lists(t) BY <1>7, <2>2, <3>1, <3>3, <3>4
      <3> QED BY <3>5, <2>1, <1>16, <1>21
    <2> QED BY <2>4, <2>5
  <1>22. ASSUME e.kind \notin {"apply", "revoke", "subscribe", "unsubscribe"}
         PROVE  Shows(t) /\ Lists(t)
    <2>1. e.kind \in {"profile", "define", "annotate"}
      BY <1>22, LabelAssumption DEF LabelAssumption, LabelEvent, LabelKinds
    <2>2. /\ t.shown = kept.shown /\ t.revoked = kept.revoked
          /\ t.active = kept.active /\ t.ended = kept.ended
      BY <1>6, <2>1 DEF Told, LabelState
    <2> QED BY <1>16, <1>17, <1>22, <2>2
  <1>23. Shows(t) /\ Lists(t) BY <1>18, <1>19, <1>20, <1>21, <1>22
  <1>24. PICK u : u = ApplyLabel(kept, e) OBVIOUS
  <1>25. u.told = p /\ u.active = t.active /\ u.ended = t.ended /\ u.shown = t.shown
         /\ u.revoked = t.revoked
    BY <1>5, <1>6, <1>7, <1>24, LabelApplied
  <1>26. Subscriptions(u) = Subscriptions(t) BY <1>25 DEF Subscriptions
  <1> QED BY <1>5, <1>23, <1>24, <1>25, <1>26 DEF FollowsRows

\* The labels that are shown are those that the log, read as a whole, leaves in force.
LEMMA LoadFollows ==
  ASSUME NEW rows \in Seq(LabelEvents)
  PROVE  FollowsRows(rows, Len(rows), LoadedLabels(rows))
  <1>1. PICK G : /\ G[0] = NoLabels /\ LoadedLabels(rows) = G[Len(rows)]
                 /\ \A k \in 0..Len(rows) : G[k] \in LabelState
                 /\ \A k \in Nat : k < Len(rows) => G[k + 1] = ApplyLabel(G[k], rows[k + 1])
    BY LabelPrefixes
  <1>2. Len(rows) \in Nat /\ DOMAIN rows = 1..Len(rows) OBVIOUS
  <1> DEFINE Good(m) == FollowsRows(rows, m, G[m])
             Bad == {m \in Nat : m <= Len(rows) /\ ~Good(m)}
  <1>3. Bad = {}
    <2> SUFFICES ASSUME Bad # {} PROVE FALSE OBVIOUS
    <2>1. PICK m \in Bad : \A j \in Bad : m <= j
      <3>1. Bad \in SUBSET Nat OBVIOUS
      <3> HIDE DEF Bad
      <3> QED BY <3>1, LowestNumber
    <2>2. Good(0)
      <3>1. \A kind : FirstsUpTo(rows, kind, 0) = {} BY DEF FirstsUpTo
      <3>2. InForceUpTo(rows, 0) = {} /\ StandingUpTo(rows, 0) = {}
        BY <3>1 DEF InForceUpTo, StandingUpTo
      <3> QED BY <1>1, <3>1, <3>2 DEF FollowsRows, NoLabels, Subscriptions
    <2> HIDE DEF Good
    <2>3. m # 0 BY <2>1, <2>2
    <2>4. PICK l \in Nat : l = m - 1 BY <2>1, <2>3
    <2>5. l < Len(rows) /\ l + 1 = m /\ ~(m <= l) /\ l <= Len(rows) BY <1>2, <2>1, <2>4
    <2>6. Good(l) BY <2>1, <2>5
    <2>7. G[l] \in LabelState /\ G[m] = ApplyLabel(G[l], rows[l + 1]) BY <1>1, <1>2, <2>5
    <2>8. PICK e \in LabelEvents : e = rows[l + 1] BY <1>2, <2>5
    <2>9. FollowsRows(rows, l + 1, ApplyLabel(G[l], e))
      BY <2>6, <2>7, <2>8, FollowsGrows DEF Good
    <2>10. Good(m) BY <2>5, <2>7, <2>8, <2>9 DEF Good
    <2> QED BY <2>1, <2>10
  <1>4. Good(Len(rows))
    <2> HIDE DEF Good
    <2> QED BY <1>2, <1>3
  <1> QED BY <1>1, <1>4

LEMMA StackFollows ==
  ASSUME labelLog \in Seq(LabelEvents)
  PROVE  StackIsReadOffTheLog
  <1>1. PICK rows \in Seq(LabelEvents) : rows = labelLog OBVIOUS
  <1>2. PICK n \in Nat : n = Len(rows) OBVIOUS
  <1>3. DOMAIN rows = 1..n BY <1>2
  <1>4. PICK kept : kept = LoadedLabels(rows) OBVIOUS
  <1>5. FollowsRows(rows, n, kept) BY <1>2, <1>4, LoadFollows
  <1> DEFINE inForce == {i \in FirstRows("apply") :
                    ~\E j \in RowsOf("revoke", labelLog[i].of, labelLog) :
                       j > i /\ labelLog[j].who = labelLog[i].who}
             standing == {i \in FirstRows("subscribe") :
                     ~\E j \in RowsOf("unsubscribe", labelLog[i].of, labelLog) : j > i}
  <1>6. PICK I : I = inForce OBVIOUS
  <1>7. PICK S : S = standing OBVIOUS
  <1>8. \A kind : FirstRows(kind) = FirstsUpTo(rows, kind, n)
    BY <1>1, <1>3 DEF FirstRows, RowsOf, FirstsUpTo
  <1>9. I = InForceUpTo(rows, n) BY <1>1, <1>3, <1>6, <1>8 DEF InForceUpTo, RowsOf
  <1>10. S = StandingUpTo(rows, n) BY <1>1, <1>3, <1>7, <1>8 DEF StandingUpTo, RowsOf
  <1>11. kept.shown = {rows[i] : i \in I} BY <1>5, <1>9 DEF FollowsRows
  <1>12. kept.active = {[sub |-> rows[i], place |-> i - 1] : i \in S}
    BY <1>5, <1>10 DEF FollowsRows
  <1>13. S \subseteq 1..n BY <1>10 DEF StandingUpTo, FirstsUpTo
  <1> DEFINE Counts(l, s) == /\ rows[s].labeler = l
                             /\ \A t \in S : rows[t].labeler = l => t <= s
  <1>14. ASSUME NEW l, NEW e
         PROVE  e \in TrustedBy(kept, l) <=> \E s \in S : Counts(l, s) /\ e = rows[s]
    <2> DEFINE subs == {s \in kept.active : s.sub.labeler = l}
    <2>1. e \in TrustedBy(kept, l)
            <=> \E x \in subs : (\A y \in subs : y.place <= x.place) /\ e = x.sub
      BY DEF TrustedBy
    <2>2. \A x : x \in subs <=>
            \E s \in S : rows[s].labeler = l /\ x = [sub |-> rows[s], place |-> s - 1]
      <3>1. \A x : x \in kept.active <=> \E s \in S : x = [sub |-> rows[s], place |-> s - 1]
        BY <1>12
      <3> QED BY <3>1
    <2> HIDE DEF subs
    <2>3. ASSUME NEW s \in S, rows[s].labeler = l
          PROVE  (\A y \in subs : y.place <= s - 1) <=> Counts(l, s)
      <3>1. (\A y \in subs : y.place <= s - 1)
              <=> \A t \in S : rows[t].labeler = l => t - 1 <= s - 1
        <4>1. ASSUME \A y \in subs : y.place <= s - 1, NEW t \in S, rows[t].labeler = l
              PROVE  t - 1 <= s - 1
          <5>1. PICK y : y = [sub |-> rows[t], place |-> t - 1] OBVIOUS
          <5>2. y \in subs /\ y.place = t - 1 BY <2>2, <4>1, <5>1
          <5> QED BY <4>1, <5>2
        <4>2. ASSUME \A t \in S : rows[t].labeler = l => t - 1 <= s - 1, NEW y \in subs
              PROVE  y.place <= s - 1
          <5>1. PICK t \in S : rows[t].labeler = l /\ y = [sub |-> rows[t], place |-> t - 1]
            BY <2>2
          <5>2. y.place = t - 1 BY <5>1
          <5> QED BY <4>2, <5>1, <5>2
        <4> QED BY <4>1, <4>2
      <3>2. \A t \in S : t - 1 <= s - 1 <=> t <= s BY <1>13
      <3> QED BY <2>3, <3>1, <3>2
    <2>4. ASSUME NEW x \in subs, \A y \in subs : y.place <= x.place, e = x.sub
          PROVE  \E s \in S : Counts(l, s) /\ e = rows[s]
      <3>1. PICK s \in S : rows[s].labeler = l /\ x = [sub |-> rows[s], place |-> s - 1]
        BY <2>2
      <3>2. x.sub = rows[s] /\ x.place = s - 1 BY <3>1
      <3> QED BY <2>3, <2>4, <3>1, <3>2
    <2>5. ASSUME NEW s \in S, Counts(l, s), e = rows[s]
          PROVE  \E x \in subs : (\A y \in subs : y.place <= x.place) /\ e = x.sub
      <3>1. PICK x : x = [sub |-> rows[s], place |-> s - 1] OBVIOUS
      <3>2. x \in subs /\ x.sub = rows[s] /\ x.place = s - 1 BY <2>2, <2>5, <3>1
      <3> QED BY <2>3, <2>5, <3>2
    <2> QED BY <2>1, <2>4, <2>5
  <1>15. \A l : l \in Stack(kept) <=>
           \E k \in I : /\ l = rows[k]
                        /\ \E s \in S : Counts(rows[k].labeler, s) /\ rows[k].name \in rows[s].trusts
    <2>1. \A l : l \in Stack(kept) <=>
            l \in kept.shown /\ \E e \in TrustedBy(kept, l.labeler) : l.name \in e.trusts
      BY DEF Stack
    <2>2. \A l : (\E e \in TrustedBy(kept, l.labeler) : l.name \in e.trusts)
                 <=> \E s \in S : Counts(l.labeler, s) /\ l.name \in rows[s].trusts
      <3> HIDE DEF Counts
      <3> QED BY <1>14
    <2> HIDE DEF Counts
    <2> QED BY <1>11, <2>1, <2>2
  <1>16. Stack(LoadedLabels(labelLog)) =
           {labelLog[i] : i \in {k \in I :
              \E s \in S :
                /\ labelLog[s].labeler = labelLog[k].labeler
                /\ \A t \in S : labelLog[t].labeler = labelLog[s].labeler => t <= s
                /\ labelLog[k].name \in labelLog[s].trusts}}
    <2>1. \A k, s : Counts(rows[k].labeler, s) <=>
            /\ rows[s].labeler = rows[k].labeler
            /\ \A t \in S : rows[t].labeler = rows[s].labeler => t <= s
      OBVIOUS
    <2> HIDE DEF Counts
    <2> DEFINE Trusted(k) ==
                 \E s \in S :
                   /\ rows[s].labeler = rows[k].labeler
                   /\ \A t \in S : rows[t].labeler = rows[s].labeler => t <= s
                   /\ rows[k].name \in rows[s].trusts
    <2>2. \A k : Trusted(k) <=>
            \E s \in S : Counts(rows[k].labeler, s) /\ rows[k].name \in rows[s].trusts
      BY <2>1
    <2>3. Stack(kept) = {rows[i] : i \in {k \in I : Trusted(k)}}
      <3> HIDE DEF Trusted
      <3>1. \A l : l \in Stack(kept) <=> \E k \in I : l = rows[k] /\ Trusted(k)
        BY <1>15, <2>2
      <3> QED BY <3>1
    <2> QED BY <1>1, <1>4, <2>3
  <1> QED BY <1>6, <1>7, <1>16 DEF StackIsReadOffTheLog

LEMMA LogTyped ==
  ASSUME labelLog \in Seq(LabelEvents), [LabelNext]_labelVars
  PROVE  labelLog' \in Seq(LabelEvents)
BY DEF LabelNext, AppendLabel, labelVars

-----------------------------------------------------------------------------
\* What holds of the parts that ShownByTheLog is about.
ShownInv == ControlTypeOK /\ labelLog \in Seq(LabelEvents)

LEMMA ShownInit == SafetyInit => ShownInv
<1>1. LabelInit => labelLog \in Seq(LabelEvents) BY DEF LabelInit
<1> QED BY <1>1, ControlInitTyped DEF SafetyInit, ShownInv

LEMMA ShownSteps ==
  ASSUME [SafetyNext]_safetyVars
  PROVE  [ControlNext]_controlVars /\ [LabelNext]_labelVars
<1>1. CASE UNCHANGED safetyVars BY <1>1 DEF safetyVars, controlVars, labelVars
<1>2. CASE SafetyNext
  <2>1. Idles(part) BY <1>2 DEF SafetyNext
  <2>2. part # "controls" => UNCHANGED controlVars BY <2>1 DEF Idles
  <2>3. part # "labels" => UNCHANGED labelVars BY <2>1 DEF Idles
  <2>4. part = "controls" => ControlNext BY <1>2 DEF SafetyNext
  <2>5. part = "labels" => LabelNext BY <1>2 DEF SafetyNext
  <2> QED BY <2>2, <2>3, <2>4, <2>5
<1> QED BY <1>1, <1>2

LEMMA ShownStep == ShownInv /\ [SafetyNext]_safetyVars => ShownInv'
BY ShownSteps, ControlStepTyped, LogTyped DEF ShownInv

\* What the user sees is what the rows of the log say, read off as a whole: the labels of
\* others as loadLabelersState folds them, the user's own controls as
\* loadLocalControlState does, an import having written them before or not, and no
\* allowlist entry shows more than a block, a mute or a hard-safety preference allows.
THEOREM SafetyShowsTheLog == SafetySpec => ShownByTheLog
<1>1. SafetyInit => ShownInv BY ShownInit
<1>2. ShownInv /\ [SafetyNext]_safetyVars => ShownInv' BY ShownStep
<1>3. ShownInv => StackIsReadOffTheLog BY StackFollows DEF ShownInv
<1>4. ShownInv => AllowlistKeepsSafety BY SafetyIsKept DEF ShownInv
<1>5. ShownInv /\ [SafetyNext]_safetyVars =>
        [\A c \in Controls :
           AppendControl(c) /\ Loadable(controlLog') =>
             /\ \A k \in ControlKinds :
                  controlState'[k] =
                    {EntryOf(controlLog'[i]) : i \in {j \in LastRows(controlLog', k) :
                                                        controlLog'[j].action = "apply"}}
             /\ Visibility(WithoutExpired(controlState', controlNow), controlNow) =
                  Visibility(controlState', controlNow)]_controlVars
  BY RowIsShown DEF ShownInv
<1> QED BY <1>1, <1>2, <1>3, <1>4, <1>5, PTL
    DEF SafetySpec, ShownByTheLog, LastWordIsShown

(***************************************************************************)
(* StrangersGainNothing of Reputation, for any seeds and words.            *)
(*                                                                         *)
(* Who is known is all that the words of the known name, so that no edge   *)
(* of the trust graph leaves them. A vector that has nothing for the       *)
(* others has nothing for them after a step either, and for the known what *)
(* it has when the words of the others are taken out: be the step one of   *)
(* the iteration, the penalty or the first distribution. The distances are *)
(* those of ways that start at seeds and stay among the known.             *)
(***************************************************************************)

\* The seeds.
SeedsOf == {c.subject : c \in SeedContacts}

\* Who is known stays so along every word, and starts with the seeds.
LEMMA KnownIsClosed ==
  ASSUME NEW E
  PROVE  /\ Known(E) \subseteq Everyone(E) /\ SeedsOf \subseteq Known(E)
         /\ \A p \in Pairs(E) : p[1] \in Known(E) => p[2] \in Known(E)
<1>1. SeedsOf \subseteq Everyone(E) BY DEF SeedsOf, Everyone
<1>2. SeedsOf \subseteq Known(E) BY <1>1 DEF SeedsOf, Known
<1>3. \A p \in Pairs(E) : p[2] \in Everyone(E) BY DEF Everyone
<1>4. \A p \in Pairs(E) : p[1] \in Known(E) => p[2] \in Known(E) BY <1>3 DEF Known
<1> QED BY <1>2, <1>4 DEF Known

\* Of the words those are left that the known have said.
LEMMA WordsOfTheKnown ==
  ASSUME NEW E
  PROVE  /\ LiveAttestations(OfTheKnown(E)) = {a \in LiveAttestations(E) : a.by \in Known(E)}
         /\ LiveObservations(OfTheKnown(E)) = {o \in LiveObservations(E) : o.by \in Known(E)}
         /\ Pairs(OfTheKnown(E)) = {p \in Pairs(E) : p[1] \in Known(E)}
<1> DEFINE F == OfTheKnown(E)
<1>1. OfKind(F, "revocation") = OfKind(E, "revocation") BY DEF OfKind, OfTheKnown
<1>2. Revoked(F) = Revoked(E) BY <1>1 DEF Revoked
<1>3. LiveAttestations(F) = {a \in LiveAttestations(E) : a.by \in Known(E)}
  BY <1>2 DEF LiveAttestations, OfKind, OfTheKnown
<1>4. LiveObservations(F) = {o \in LiveObservations(E) : o.by \in Known(E)}
  BY DEF LiveObservations, OfKind, OfTheKnown
<1> DEFINE W == LiveAttestations(E) \cup LiveObservations(E)
           V == LiveAttestations(F) \cup LiveObservations(F)
<1>5. V = {e \in W : e.by \in Known(E)} BY <1>3, <1>4
<1>6. Pairs(F) = {<<e.by, e.about>> : e \in V} /\ Pairs(E) = {<<e.by, e.about>> : e \in W}
  BY DEF Pairs
<1>7. Pairs(F) = {p \in Pairs(E) : p[1] \in Known(E)}
  <2> HIDE DEF V, W
  <2> QED BY <1>5, <1>6
<1> QED BY <1>3, <1>4, <1>7

LEMMA EveryoneIsKnown ==
  ASSUME NEW E
  PROVE  Everyone(OfTheKnown(E)) = Known(E)
<1> DEFINE F == OfTheKnown(E)
<1>1. Pairs(F) = {p \in Pairs(E) : p[1] \in Known(E)} BY WordsOfTheKnown
<1> HIDE DEF F
<1>2. \A n : n \in Everyone(F) <=> n \in SeedsOf \/ \E p \in Pairs(F) : n = p[1] \/ n = p[2]
  BY DEF Everyone, SeedsOf
<1>3. Everyone(F) \subseteq Known(E) BY <1>1, <1>2, KnownIsClosed
<1>4. ASSUME NEW p \in Pairs(E), p[1] \in Everyone(F) PROVE p[2] \in Everyone(F)
  <2>1. p \in Pairs(F) BY <1>1, <1>3, <1>4
  <2> QED BY <1>2, <2>1
<1>5. SeedsOf \subseteq Everyone(F) BY <1>2
<1>6. Everyone(F) \in SUBSET Everyone(E) BY <1>3, KnownIsClosed
<1>7. ASSUME NEW n \in Known(E) PROVE n \in Everyone(F)
  BY <1>4, <1>5, <1>6, <1>7 DEF Known, SeedsOf
<1> QED BY <1>3, <1>7 DEF F

\* What a function makes of finitely many elements are finitely many.
LEMMA FiniteImage ==
  ASSUME NEW S, IsFiniteSet(S), NEW f
  PROVE  IsFiniteSet({f[x] : x \in S})
<1> DEFINE T == {f[x] : x \in S}
           g == [x \in S |-> f[x]]
<1>1. g \in Surjection(S, T) BY DEF Surjection
<1> HIDE DEF g, T
<1>2. IsFiniteSet(T) BY <1>1, FS_Surjection
<1> QED BY <1>2 DEF T

\* Whoever is named is a number, and they are finitely many.
LEMMA EveryoneIsFinite ==
  ASSUME RepTypeOK, NEW E \in SUBSET RepEvents, IsFiniteSet(E)
  PROVE  Everyone(E) \subseteq Nat /\ IsFiniteSet(Everyone(E))
<1> USE ReputationAssumption DEF ReputationAssumption
<1>1. SeedsOf \subseteq Nat /\ IsFiniteSet(SeedsOf)
  <2>1. IsFiniteSet(SeedContacts) /\ \A c \in SeedContacts : c.subject \in Nat
    <3>1. CASE Seeds = {}
      <4>1. SeedContacts = {[subject |-> Me, strength |-> 10, at |-> repNow]}
        BY <3>1 DEF SeedContacts
      <4>2. PICK c : c = [subject |-> Me, strength |-> 10, at |-> repNow] OBVIOUS
      <4>3. SeedContacts = {c} /\ c.subject \in Nat BY <4>1, <4>2
      <4> QED BY <4>3, FS_Singleton
    <3>2. CASE Seeds # {} BY <3>2 DEF SeedContacts
    <3> QED BY <3>1, <3>2
  <2>2. SeedsOf \subseteq Nat BY <2>1 DEF SeedsOf
  <2>3. IsFiniteSet(SeedsOf)
    <3> DEFINE f == [c \in SeedContacts |-> c.subject]
    <3>1. SeedsOf = {f[c] : c \in SeedContacts} BY DEF SeedsOf
    <3> HIDE DEF f
    <3> QED BY <2>1, <3>1, FiniteImage
  <2> QED BY <2>2, <2>3
<1> DEFINE W == LiveAttestations(E) \cup LiveObservations(E)
<1>2. W \subseteq E BY DEF LiveAttestations, LiveObservations, OfKind
<1>3. IsFiniteSet(W) BY <1>2, FS_Subset
<1>4. \A e \in W : e.by \in Nat /\ e.about \in Nat BY <1>2 DEF RepEvent
<1> HIDE DEF W
<1> DEFINE A == {e.by : e \in W}
           B == {e.about : e \in W}
<1>5. IsFiniteSet(A) /\ IsFiniteSet(B)
  <2> DEFINE f == [e \in W |-> e.by]
             g == [e \in W |-> e.about]
  <2>0. A = {f[e] : e \in W} /\ B = {g[e] : e \in W} OBVIOUS
  <2> HIDE DEF A, B, f, g
  <2>1. IsFiniteSet(A) BY <1>3, <2>0, FiniteImage
  <2>2. IsFiniteSet(B) BY <1>3, <2>0, FiniteImage
  <2> QED BY <2>1, <2>2
<1>6. A \subseteq Nat /\ B \subseteq Nat BY <1>4
<1>7. Pairs(E) = {<<e.by, e.about>> : e \in W} BY DEF Pairs, W
<1>8. UNION {{p[1], p[2]} : p \in Pairs(E)} = A \cup B
  <2>1. \A n : (\E p \in Pairs(E) : n = p[1] \/ n = p[2]) <=> n \in A \cup B
    <3>1. \A p : p \in Pairs(E) <=> \E e \in W : p = <<e.by, e.about>> BY <1>7
    <3>2. \A n : (\E p \in Pairs(E) : n = p[1] \/ n = p[2]) <=>
                 \E e \in W : n = e.by \/ n = e.about
      <4>1. \A p \in Pairs(E) : \E e \in W : p[1] = e.by /\ p[2] = e.about BY <3>1
      <4>2. ASSUME NEW e \in W PROVE \E p \in Pairs(E) : p[1] = e.by /\ p[2] = e.about
        <5>1. <<e.by, e.about>> \in Pairs(E) BY <3>1
        <5> QED BY <5>1
      <4> QED BY <4>1, <4>2
    <3> QED BY <3>2
  <2>2. \A n : n \in UNION {{p[1], p[2]} : p \in Pairs(E)} <=>
               \E p \in Pairs(E) : n = p[1] \/ n = p[2] OBVIOUS
  <2> HIDE DEF A, B
  <2> QED BY <2>1, <2>2
<1> HIDE DEF A, B
<1>9. IsFiniteSet(A \cup B) BY <1>5, FS_Union
<1>10. Everyone(E) = SeedsOf \cup (A \cup B) BY <1>8 DEF Everyone, SeedsOf
<1>11. IsFiniteSet(SeedsOf \cup (A \cup B)) BY <1>1, <1>9, FS_Union
<1> QED BY <1>1, <1>6, <1>10, <1>11

\* As long as they are fewer than the limit, nobody is left out.
LEMMA NobodyLeftOut ==
  ASSUME RepTypeOK, NEW E \in SUBSET RepEvents, IsFiniteSet(E),
         Cardinality(Nodes(E)) < MaxRepNodes
  PROVE  Nodes(E) = Everyone(E) /\ Nodes(OfTheKnown(E)) = Known(E)
<1> DEFINE all == Everyone(E)
           below(n) == {m \in all : m < n}
           T == {n \in all : Cardinality(below(n)) >= MaxRepNodes}
<1>1. all \subseteq Nat /\ IsFiniteSet(all) BY EveryoneIsFinite
<1>2. MaxRepNodes \in Nat BY ReputationAssumption DEF ReputationAssumption
<1>3. \A n : IsFiniteSet(below(n)) /\ Cardinality(below(n)) \in Nat
  BY <1>1, FS_Subset, FS_CardinalityType
<1>4. Nodes(E) = {n \in all : Cardinality(below(n)) < MaxRepNodes} BY DEF Nodes
<1> HIDE DEF all
<1>5. T = {}
  <2> SUFFICES ASSUME T # {} PROVE FALSE OBVIOUS
  <2>1. PICK n \in T : \A m \in T : n <= m
    <3>1. T \in SUBSET Nat BY <1>1
    <3> HIDE DEF T
    <3> QED BY <3>1, LowestNumber
  <2>2. below(n) \subseteq Nodes(E)
    <3> SUFFICES ASSUME NEW m \in all, m < n PROVE m \in Nodes(E) OBVIOUS
    <3>1. m \in Nat /\ n \in Nat /\ ~(n <= m) BY <1>1
    <3>2. m \notin T BY <2>1, <3>1
    <3>3. Cardinality(below(m)) \in Nat BY <1>3
    <3>4. Cardinality(below(m)) < MaxRepNodes BY <1>2, <3>2, <3>3
    <3> QED BY <1>4, <3>4
  <2>3. IsFiniteSet(Nodes(E)) BY <1>1, <1>4, FS_Subset
  <2>4. Cardinality(below(n)) <= Cardinality(Nodes(E)) BY <2>2, <2>3, FS_Subset
  <2>5. Cardinality(below(n)) >= MaxRepNodes OBVIOUS
  <2>6. Cardinality(Nodes(E)) \in Nat /\ Cardinality(below(n)) \in Nat
    BY <1>3, <2>3, FS_CardinalityType
  <2> QED BY <1>2, <2>4, <2>5, <2>6
<1>6. \A n \in all : Cardinality(below(n)) < MaxRepNodes
  <2> SUFFICES ASSUME NEW n \in all PROVE Cardinality(below(n)) < MaxRepNodes OBVIOUS
  <2>1. n \notin T BY <1>5
  <2>2. Cardinality(below(n)) \in Nat BY <1>3
  <2> QED BY <1>2, <2>1, <2>2
<1>7. Nodes(E) = all BY <1>4, <1>6
<1> DEFINE K == Known(E)
           under(n) == {m \in K : m < n}
<1>8. K \subseteq all BY KnownIsClosed DEF all
<1>9. Nodes(OfTheKnown(E)) = {n \in K : Cardinality(under(n)) < MaxRepNodes}
  BY EveryoneIsKnown DEF Nodes
<1> HIDE DEF K
<1>10. ASSUME NEW n \in K PROVE Cardinality(under(n)) < MaxRepNodes
  <2>1. n \in all /\ under(n) \subseteq below(n) BY <1>8
  <2>2. Cardinality(under(n)) <= Cardinality(below(n)) /\ IsFiniteSet(under(n))
    BY <1>3, <2>1, FS_Subset
  <2>3. Cardinality(under(n)) \in Nat /\ Cardinality(below(n)) \in Nat
    BY <1>3, <2>2, FS_CardinalityType
  <2>4. Cardinality(below(n)) < MaxRepNodes BY <1>6, <2>1
  <2> QED BY <1>2, <2>2, <2>3, <2>4
<1> QED BY <1>7, <1>9, <1>10 DEF K, all

\* The bursts of the known, and the edges that they make, are those of the whole log.
LEMMA EdgesOfTheKnown ==
  ASSUME NEW E
  PROVE  WeightedEdges(OfTheKnown(E)) = {e \in WeightedEdges(E) : e.by \in Known(E)}
<1> DEFINE F == OfTheKnown(E)
           K == Known(E)
           O == LiveObservations(E)
           N == LiveObservations(F)
           A == LiveAttestations(E)
           L == LiveAttestations(F)
           spoken(p, X) == {b \in Bursts(X) : <<b.by, b.about>> = p}
           words(p, X) == {a \in X : <<a.by, a.about>> = p}
<1>1. /\ N = {o \in O : o.by \in K} /\ L = {a \in A : a.by \in K}
      /\ Pairs(F) = {p \in Pairs(E) : p[1] \in K}
  BY WordsOfTheKnown
<1>2. \A o, S : BurstOf(o, S).by = o.by BY DEF BurstOf
<1> HIDE DEF F, K, O, N, A, L
<1>3. \A o \in N : {x \in N : InBucketOf(o, x)} = {x \in O : InBucketOf(o, x)}
  BY <1>1 DEF InBucketOf
<1>4. Bursts(N) = {b \in Bursts(O) : b.by \in K}
  <2>1. ASSUME NEW b \in Bursts(N) PROVE b \in Bursts(O) /\ b.by \in K
    <3>1. PICK o \in N : b = BurstOf(o, {x \in N : InBucketOf(o, x)}) BY DEF Bursts
    <3>2. o \in O /\ o.by \in K BY <1>1
    <3>3. b = BurstOf(o, {x \in O : InBucketOf(o, x)}) BY <1>3, <3>1
    <3>4. b \in Bursts(O) BY <3>2, <3>3 DEF Bursts
    <3> QED BY <1>2, <3>1, <3>2, <3>4
  <2>2. ASSUME NEW b \in Bursts(O), b.by \in K PROVE b \in Bursts(N)
    <3>1. PICK o \in O : b = BurstOf(o, {x \in O : InBucketOf(o, x)}) BY DEF Bursts
    <3>2. o \in N BY <1>1, <1>2, <2>2, <3>1
    <3>3. b = BurstOf(o, {x \in N : InBucketOf(o, x)}) BY <1>3, <3>1, <3>2
    <3> QED BY <3>2, <3>3 DEF Bursts
  <2> QED BY <2>1, <2>2
<1>5. \A p \in Pairs(F) : spoken(p, N) = spoken(p, O) /\ words(p, L) = words(p, A)
  <2> SUFFICES ASSUME NEW p \in Pairs(F)
               PROVE  spoken(p, N) = spoken(p, O) /\ words(p, L) = words(p, A)
    OBVIOUS
  <2>1. p[1] \in K BY <1>1
  <2>2. spoken(p, N) = spoken(p, O)
    <3>1. \A b : <<b.by, b.about>> = p => b.by = p[1] OBVIOUS
    <3> QED BY <1>4, <2>1, <3>1
  <2>3. \A a : <<a.by, a.about>> = p => a.by = p[1] OBVIOUS
  <2> QED BY <1>1, <2>1, <2>2, <2>3
<1>6. WeightedEdges(F) = {EdgeOf(p, spoken(p, N), words(p, L)) : p \in Pairs(F)}
  BY DEF WeightedEdges, N, L
<1>7. WeightedEdges(E) = {EdgeOf(p, spoken(p, O), words(p, A)) : p \in Pairs(E)}
  BY DEF WeightedEdges, O, A
<1> HIDE DEF spoken, words
<1>8. \A p, x, y : EdgeOf(p, x, y).by = p[1] BY DEF EdgeOf
<1>9. ASSUME NEW e PROVE e \in WeightedEdges(F) <=> e \in WeightedEdges(E) /\ e.by \in K
  <2>1. ASSUME e \in WeightedEdges(F) PROVE e \in WeightedEdges(E) /\ e.by \in K
    <3>1. PICK p \in Pairs(F) : e = EdgeOf(p, spoken(p, N), words(p, L)) BY <1>6, <2>1
    <3>2. p \in Pairs(E) /\ p[1] \in K BY <1>1
    <3>3. e = EdgeOf(p, spoken(p, O), words(p, A)) BY <1>5, <3>1
    <3> QED BY <1>7, <1>8, <3>2, <3>3
  <2>2. ASSUME e \in WeightedEdges(E), e.by \in K PROVE e \in WeightedEdges(F)
    <3>1. PICK p \in Pairs(E) : e = EdgeOf(p, spoken(p, O), words(p, A)) BY <1>7, <2>2
    <3>2. p \in Pairs(F) BY <1>1, <1>8, <2>2, <3>1
    <3>3. e = EdgeOf(p, spoken(p, N), words(p, L)) BY <1>5, <3>1, <3>2
    <3> QED BY <1>6, <3>2, <3>3
  <2> QED BY <2>1, <2>2
<1>10. WeightedEdges(F) = {e \in WeightedEdges(E) : e.by \in K} BY <1>9
<1> QED BY <1>10 DEF F, K

\* The ends of an edge are those of its pair.
LEMMA EdgesAreOfPairs ==
  ASSUME NEW E, NEW e \in WeightedEdges(E)
  PROVE  <<e.by, e.about>> \in Pairs(E)
<1>0. \A p, x, y : EdgeOf(p, x, y).by = p[1] /\ EdgeOf(p, x, y).about = p[2] BY DEF EdgeOf
<1>a. PICK p \in Pairs(E) :
        e = EdgeOf(p, {b \in Bursts(LiveObservations(E)) : <<b.by, b.about>> = p},
                   {a \in LiveAttestations(E) : <<a.by, a.about>> = p})
  BY DEF WeightedEdges
<1>1. e.by = p[1] /\ e.about = p[2] BY <1>0, <1>a
<1>2. p = <<p[1], p[2]>> BY DEF Pairs
<1> QED BY <1>1, <1>2

\* The trust graph of the known is the part of the graph that they span, and no edge
\* leaves it.
LEMMA GraphOfTheKnown ==
  ASSUME RepTypeOK, NEW E \in SUBSET RepEvents, IsFiniteSet(E),
         Cardinality(Nodes(E)) < MaxRepNodes
  PROVE  /\ TrustGraph(OfTheKnown(E)) = {e \in TrustGraph(E) : e.by \in Known(E)}
         /\ \A e \in TrustGraph(E) :
              /\ e.by \in Everyone(E) /\ e.about \in Everyone(E)
              /\ e.by \in Known(E) => e.about \in Known(E)
<1> DEFINE F == OfTheKnown(E)
           K == Known(E)
           positive == {e \in WeightedEdges(E) : e.weight > 0 /\ {e.by, e.about} \subseteq Nodes(E)}
           among == {e \in WeightedEdges(F) : e.weight > 0 /\ {e.by, e.about} \subseteq Nodes(F)}
           heavier(S, e) == {f \in S : f.by = e.by /\ Heavier(f, e)}
<1>1. Nodes(E) = Everyone(E) /\ Nodes(F) = K BY NobodyLeftOut
<1>2. TrustGraph(E) = {e \in positive : Cardinality(heavier(positive, e)) < MaxEdges}
  BY DEF TrustGraph
<1>3. TrustGraph(F) = {e \in among : Cardinality(heavier(among, e)) < MaxEdges}
  BY DEF TrustGraph
<1>4. \A e \in WeightedEdges(E) : e.by \in K => e.about \in K
  <2> SUFFICES ASSUME NEW e \in WeightedEdges(E), e.by \in K PROVE e.about \in K OBVIOUS
  <2>1. PICK p : p = <<e.by, e.about>> OBVIOUS
  <2>2. p \in Pairs(E) BY <2>1, EdgesAreOfPairs
  <2> QED BY <2>1, <2>2, KnownIsClosed
<1>5. WeightedEdges(F) = {e \in WeightedEdges(E) : e.by \in K} BY EdgesOfTheKnown
<1>6. K \subseteq Everyone(E) BY KnownIsClosed
<1> HIDE DEF F, K
<1>7. among = {e \in positive : e.by \in K} BY <1>1, <1>4, <1>5, <1>6
<1> HIDE DEF positive, among
<1>8. \A e \in among : heavier(among, e) = heavier(positive, e) BY <1>7
<1>9. TrustGraph(F) = {e \in TrustGraph(E) : e.by \in K}
  <2> HIDE DEF heavier
  <2> QED BY <1>2, <1>3, <1>7, <1>8
<1>10. ASSUME NEW e \in TrustGraph(E)
       PROVE  /\ e.by \in Everyone(E) /\ e.about \in Everyone(E)
              /\ e.by \in K => e.about \in K
  <2>1. e \in positive BY <1>2
  <2> QED BY <1>1, <1>4, <2>1 DEF positive
<1> QED BY <1>9, <1>10 DEF F, K

\* The sets that Within widens, step by step.
Widens(W, G, from, n) ==
  W[0] = from /\ \A k \in 1..n : W[k] = AStepFrom(G, W[k - 1])

LEMMA WideningExists ==
  ASSUME NEW G, NEW from, NEW m \in Nat
  PROVE  \E W : Widens(W, G, from, m)
<1> DEFINE T == {n \in Nat : ~\E W : Widens(W, G, from, n)}
<1> SUFFICES ASSUME T # {} PROVE FALSE OBVIOUS
<1>1. PICK n \in T : \A j \in T : n <= j
  <2>1. T \in SUBSET Nat OBVIOUS
  <2> HIDE DEF T
  <2> QED BY <2>1, LowestNumber
<1>2. n # 0
  <2>1. Widens([k \in {0} |-> from], G, from, 0) BY DEF Widens
  <2> QED BY <1>1, <2>1
<1>3. n - 1 \in Nat /\ ~(n <= n - 1) BY <1>1, <1>2
<1>4. PICK W : Widens(W, G, from, n - 1) BY <1>1, <1>3
<1>5. PICK V : V = [k \in 0..n |-> IF k = n THEN AStepFrom(G, W[n - 1]) ELSE W[k]] OBVIOUS
<1>6. V[0] = from BY <1>2, <1>4, <1>5 DEF Widens
<1>7. \A k \in 1..n : V[k] = AStepFrom(G, V[k - 1])
  <2> SUFFICES ASSUME NEW k \in 1..n PROVE V[k] = AStepFrom(G, V[k - 1]) OBVIOUS
  <2>1. V[k - 1] = W[k - 1] BY <1>5
  <2>2. CASE k = n BY <1>5, <2>1, <2>2
  <2>3. CASE k # n
    <3>1. k \in 1..(n - 1) BY <2>3
    <3>2. V[k] = W[k] BY <1>5, <2>3
    <3> QED BY <1>4, <2>1, <3>1, <3>2 DEF Widens
  <2> QED BY <2>2, <2>3
<1>8. Widens(V, G, from, n) BY <1>6, <1>7 DEF Widens
<1> QED BY <1>1, <1>8

LEMMA WithinIs ==
  ASSUME NEW G, NEW from, NEW m \in Nat
  PROVE  \E W : Widens(W, G, from, m) /\ Within(G, from, m) = W[m]
<1> DEFINE Steps(F) == F = [i \in 0..m |-> IF i = 0 THEN from ELSE AStepFrom(G, F[i - 1])]
           w == CHOOSE F : Steps(F)
<1>1. PICK W : Widens(W, G, from, m) BY WideningExists
<1>2. PICK V : V = [i \in 0..m |-> W[i]] OBVIOUS
<1>3. \A i \in 0..m : V[i] = IF i = 0 THEN from ELSE AStepFrom(G, V[i - 1])
  <2> SUFFICES ASSUME NEW i \in 0..m
               PROVE  V[i] = IF i = 0 THEN from ELSE AStepFrom(G, V[i - 1])
    OBVIOUS
  <2>1. V[i] = W[i] BY <1>2
  <2>2. CASE i = 0 BY <1>1, <2>1, <2>2 DEF Widens
  <2>3. CASE i # 0
    <3>1. V[i - 1] = W[i - 1] /\ i \in 1..m BY <1>2, <2>3
    <3> QED BY <1>1, <2>1, <2>3, <3>1 DEF Widens
  <2> QED BY <2>2, <2>3
<1>4. Steps(V) BY <1>2, <1>3
<1>5. Steps(w) BY <1>4
<1>6. Within(G, from, m) = w[m] BY Zenon DEF Within
<1>7. PICK Q : Q = w OBVIOUS
<1>8. Q = [i \in 0..m |-> IF i = 0 THEN from ELSE AStepFrom(G, Q[i - 1])] BY <1>5, <1>7
<1>9. Q[0] = from BY <1>8
<1>10. \A k \in 1..m : Q[k] = AStepFrom(G, Q[k - 1]) BY <1>8
<1> QED BY <1>6, <1>7, <1>9, <1>10 DEF Widens

\* In the part of a graph that no edge leaves, a widening from within it is the same and
\* stays there.
LEMMA WithinAgrees ==
  ASSUME NEW G, NEW S, \A e \in G : e.by \in S => e.about \in S,
         NEW from \in SUBSET S, NEW m \in Nat
  PROVE  /\ Within({e \in G : e.by \in S}, from, m) = Within(G, from, m)
         /\ Within(G, from, m) \subseteq S
<1> DEFINE H == {e \in G : e.by \in S}
<1>1. PICK W : Widens(W, G, from, m) /\ Within(G, from, m) = W[m] BY WithinIs
<1>2. PICK V : Widens(V, H, from, m) /\ Within(H, from, m) = V[m] BY WithinIs
<1>3. \A X \in SUBSET S : AStepFrom(H, X) = AStepFrom(G, X) /\ AStepFrom(G, X) \subseteq S
  BY DEF AStepFrom
<1> HIDE DEF H
<1> DEFINE T == {k \in Nat : k <= m /\ ~(V[k] = W[k] /\ W[k] \subseteq S)}
<1>4. T = {}
  <2> SUFFICES ASSUME T # {} PROVE FALSE OBVIOUS
  <2>1. PICK k \in T : \A j \in T : k <= j
    <3>1. T \in SUBSET Nat OBVIOUS
    <3> HIDE DEF T
    <3> QED BY <3>1, LowestNumber
  <2>2. k # 0 BY <1>1, <1>2, <2>1 DEF Widens
  <2>3. k - 1 \in Nat /\ k - 1 <= m /\ ~(k <= k - 1) /\ k \in 1..m BY <2>1, <2>2
  <2>4. V[k - 1] = W[k - 1] /\ W[k - 1] \subseteq S BY <2>1, <2>3
  <2>5. V[k] = AStepFrom(H, V[k - 1]) /\ W[k] = AStepFrom(G, W[k - 1])
    BY <1>1, <1>2, <2>3 DEF Widens
  <2>6. V[k] = W[k] /\ W[k] \subseteq S BY <1>3, <2>4, <2>5
  <2> QED BY <2>1, <2>6
<1>5. V[m] = W[m] /\ W[m] \subseteq S BY <1>4
<1> QED BY <1>1, <1>2, <1>5 DEF H

\* The vectors that Trust spreads, step by step.
Spreads(T, G, p, n) ==
  T[0] = p /\ \A k \in 1..n : T[k] = Spread(G, p, T[k - 1])

LEMMA SpreadingExists ==
  ASSUME NEW G, NEW p, NEW m \in Nat
  PROVE  \E T : Spreads(T, G, p, m)
<1> DEFINE N == {n \in Nat : ~\E T : Spreads(T, G, p, n)}
<1> SUFFICES ASSUME N # {} PROVE FALSE OBVIOUS
<1>1. PICK n \in N : \A j \in N : n <= j
  <2>1. N \in SUBSET Nat OBVIOUS
  <2> HIDE DEF N
  <2> QED BY <2>1, LowestNumber
<1>2. n # 0
  <2>1. Spreads([k \in {0} |-> p], G, p, 0) BY DEF Spreads
  <2> QED BY <1>1, <2>1
<1>3. n - 1 \in Nat /\ ~(n <= n - 1) BY <1>1, <1>2
<1>4. PICK W : Spreads(W, G, p, n - 1) BY <1>1, <1>3
<1>5. PICK V : V = [k \in 0..n |-> IF k = n THEN Spread(G, p, W[n - 1]) ELSE W[k]] OBVIOUS
<1>6. V[0] = p BY <1>2, <1>4, <1>5 DEF Spreads
<1>7. \A k \in 1..n : V[k] = Spread(G, p, V[k - 1])
  <2> SUFFICES ASSUME NEW k \in 1..n PROVE V[k] = Spread(G, p, V[k - 1]) OBVIOUS
  <2>1. V[k - 1] = W[k - 1] BY <1>5
  <2>2. CASE k = n BY <1>5, <2>1, <2>2
  <2>3. CASE k # n
    <3>1. k \in 1..(n - 1) BY <2>3
    <3>2. V[k] = W[k] BY <1>5, <2>3
    <3> QED BY <1>4, <2>1, <3>1, <3>2 DEF Spreads
  <2> QED BY <2>2, <2>3
<1>8. Spreads(V, G, p, n) BY <1>6, <1>7 DEF Spreads
<1> QED BY <1>1, <1>8

LEMMA TrustIs ==
  ASSUME NEW G, NEW p
  PROVE  \E T : Spreads(T, G, p, Iterations) /\ Trust(G, p) = T[Iterations]
<1> DEFINE m == Iterations
           Steps(F) == F = [k \in 0..m |-> IF k = 0 THEN p ELSE Spread(G, p, F[k - 1])]
           w == CHOOSE F : Steps(F)
<1>0. m \in Nat BY ReputationAssumption DEF ReputationAssumption
<1>1. PICK W : Spreads(W, G, p, m) BY <1>0, SpreadingExists
<1>2. PICK V : V = [i \in 0..m |-> W[i]] OBVIOUS
<1>3. \A i \in 0..m : V[i] = IF i = 0 THEN p ELSE Spread(G, p, V[i - 1])
  <2> SUFFICES ASSUME NEW i \in 0..m
               PROVE  V[i] = IF i = 0 THEN p ELSE Spread(G, p, V[i - 1])
    OBVIOUS
  <2>1. V[i] = W[i] BY <1>2
  <2>2. CASE i = 0 BY <1>1, <2>1, <2>2 DEF Spreads
  <2>3. CASE i # 0
    <3>1. V[i - 1] = W[i - 1] /\ i \in 1..m BY <1>0, <1>2, <2>3
    <3> QED BY <1>1, <2>1, <2>3, <3>1 DEF Spreads
  <2> QED BY <2>2, <2>3
<1>4. Steps(V) BY <1>2, <1>3
<1>5. Steps(w) BY <1>4
<1>6. Trust(G, p) = w[m] BY Zenon DEF Trust
<1>7. PICK Q : Q = w OBVIOUS
<1>8. Q = [k \in 0..m |-> IF k = 0 THEN p ELSE Spread(G, p, Q[k - 1])] BY <1>5, <1>7
<1>9. Q[0] = p BY <1>0, <1>8
<1>10. \A k \in 1..m : Q[k] = Spread(G, p, Q[k - 1]) BY <1>0, <1>8
<1> QED BY <1>6, <1>7, <1>9, <1>10 DEF Spreads

\* Nothing adds up to nothing.
LEMMA NoShares == SumOfShares({}) = 0
<1> DEFINE Steps(F) == F = [s \in SUBSET {} |->
                              IF s = {} THEN 0
                              ELSE LET x == CHOOSE x \in s : TRUE
                                   IN  x.share + F[s \ {x}]]
           w == CHOOSE F : Steps(F)
<1>1. Steps([s \in SUBSET {} |-> 0]) OBVIOUS
<1>2. Steps(w) BY <1>1
<1>3. SumOfShares({}) = w[{}] BY Zenon DEF SumOfShares, MapThenSumSet, MapThenFoldSet
<1>4. PICK Q : Q = w OBVIOUS
<1>5. Q[{}] = 0 BY <1>2, <1>4
<1> QED BY <1>3, <1>4, <1>5

\* Two vectors agree if they are the same for the nodes of S, and nothing for the others.
Agree(t, u, A, S) ==
  t = [n \in A |-> t[n]] /\ u = [n \in S |-> t[n]] /\ \A n \in A \ S : t[n] = 0

\* A graph on A of which no edge leaves S.
KeepsTo(G, A, S) ==
  S \subseteq A /\ \A e \in G : e.by \in A /\ e.about \in A /\ (e.by \in S => e.about \in S)

LEMMA SpreadAgrees ==
  ASSUME NEW G, NEW A, NEW S, KeepsTo(G, A, S),
         NEW p, NEW q, Agree(p, q, A, S), NEW t, NEW u, Agree(t, u, A, S)
  PROVE  Agree(Spread(G, p, t), Spread({e \in G : e.by \in S}, q, u), A, S)
<1> DEFINE H == {e \in G : e.by \in S}
           v == Spread(G, p, t)
           w == Spread(H, q, u)
<1>1. DOMAIN p = A /\ DOMAIN q = S /\ S \subseteq A BY DEF Agree, KeepsTo
<1>2. \A n \in S : q[n] = p[n] /\ u[n] = t[n] BY DEF Agree
<1>3. \A n \in A \ S : p[n] = 0 /\ t[n] = 0 BY DEF Agree
<1>4. v = [n \in A |-> (15 * p[n] + SumOfShares(Shares(G, t, n))) \div 100]
  BY <1>1 DEF Spread
<1>5. w = [n \in S |-> (15 * q[n] + SumOfShares(Shares(H, u, n))) \div 100]
  BY <1>1 DEF Spread
<1> DEFINE giving(X, y, n) == {f \in X : f.about = n /\ y[f.by] # 0}
<1>6. \A n : giving(H, u, n) = giving(G, t, n)
  <2> SUFFICES ASSUME NEW n, NEW f
               PROVE  f \in giving(H, u, n) <=> f \in giving(G, t, n)
    OBVIOUS
  <2>1. f \in G => f.by \in A BY DEF KeepsTo
  <2> QED BY <1>2, <1>3, <2>1
<1>7. \A n : \A e \in giving(G, t, n) : e.by \in S /\ e \in G
  BY <1>3 DEF KeepsTo
<1>8. ASSUME NEW n PROVE Shares(H, u, n) = Shares(G, t, n)
  <2> DEFINE Z == giving(G, t, n)
  <2>1. Shares(H, u, n) = {[from |-> e.by, share |-> ShareOf(H, e, 85 * u[e.by])] : e \in Z}
    BY <1>6 DEF Shares
  <2>2. Shares(G, t, n) = {[from |-> e.by, share |-> ShareOf(G, e, 85 * t[e.by])] : e \in Z}
    BY DEF Shares
  <2>3. \A e \in Z : e.by \in S BY <1>7
  <2> HIDE DEF Z
  <2>4. \A e \in Z : ShareOf(H, e, 85 * u[e.by]) = ShareOf(G, e, 85 * t[e.by])
    <3> SUFFICES ASSUME NEW e \in Z
                 PROVE  ShareOf(H, e, 85 * u[e.by]) = ShareOf(G, e, 85 * t[e.by])
      OBVIOUS
    <3>1. {f \in H : f.by = e.by} = {f \in G : f.by = e.by} BY <2>3
    <3>2. u[e.by] = t[e.by] BY <1>2, <2>3
    <3> QED BY <3>1, <3>2 DEF ShareOf
  <2> QED BY <2>1, <2>2, <2>4
<1> HIDE DEF H
<1>9. \A n \in S : w[n] = v[n] BY <1>1, <1>2, <1>4, <1>5, <1>8
<1>10. ASSUME NEW n \in A \ S PROVE v[n] = 0
  <2>1. giving(G, t, n) = {}
    <3> SUFFICES ASSUME NEW f \in giving(G, t, n) PROVE FALSE OBVIOUS
    <3>1. f.by \in S /\ f \in G /\ f.about = n BY <1>7
    <3> QED BY <3>1 DEF KeepsTo
  <2>2. Shares(G, t, n) = {} BY <2>1 DEF Shares
  <2>3. v[n] = (15 * p[n] + SumOfShares({})) \div 100 BY <1>4, <2>2
  <2>4. p[n] = 0 BY <1>3
  <2> HIDE DEF v
  <2> QED BY <2>3, <2>4, NoShares
<1>11. v = [n \in A |-> v[n]] BY <1>4
<1>12. w = [n \in S |-> v[n]] BY <1>5, <1>9
<1> HIDE DEF v, w
<1>13. Agree(v, w, A, S) BY <1>10, <1>11, <1>12 DEF Agree
<1> QED BY <1>13 DEF v, w, H

LEMMA TrustAgrees ==
  ASSUME NEW G, NEW A, NEW S, KeepsTo(G, A, S), NEW p, NEW q, Agree(p, q, A, S)
  PROVE  Agree(Trust(G, p), Trust({e \in G : e.by \in S}, q), A, S)
<1> DEFINE H == {e \in G : e.by \in S}
           m == Iterations
<1>0. m \in Nat BY ReputationAssumption DEF ReputationAssumption
<1>1. PICK T : Spreads(T, G, p, m) /\ Trust(G, p) = T[m] BY TrustIs
<1>2. PICK U : Spreads(U, H, q, m) /\ Trust(H, q) = U[m] BY TrustIs
<1>3. \A t, u : Agree(t, u, A, S) => Agree(Spread(G, p, t), Spread(H, q, u), A, S)
  BY SpreadAgrees
<1> HIDE DEF H
<1> DEFINE N == {k \in Nat : k <= m /\ ~Agree(T[k], U[k], A, S)}
<1>4. N = {}
  <2> SUFFICES ASSUME N # {} PROVE FALSE OBVIOUS
  <2>1. PICK k \in N : \A j \in N : k <= j
    <3>1. N \in SUBSET Nat OBVIOUS
    <3> HIDE DEF N
    <3> QED BY <3>1, LowestNumber
  <2>2. k # 0 BY <1>1, <1>2, <2>1 DEF Spreads
  <2>3. k - 1 \in Nat /\ k - 1 <= m /\ ~(k <= k - 1) /\ k \in 1..m BY <1>0, <2>1, <2>2
  <2>4. Agree(T[k - 1], U[k - 1], A, S) BY <2>1, <2>3
  <2>5. T[k] = Spread(G, p, T[k - 1]) /\ U[k] = Spread(H, q, U[k - 1])
    BY <1>1, <1>2, <2>3 DEF Spreads
  <2>6. Agree(T[k], U[k], A, S) BY <1>3, <2>4, <2>5
  <2> QED BY <2>1, <2>6
<1>5. Agree(T[m], U[m], A, S) BY <1>0, <1>4
<1> QED BY <1>1, <1>2, <1>5 DEF H

\* Every number has a root.
LEMMA RootIsNumber ==
  ASSUME NEW n \in Nat
  PROVE  Root(n) \in Nat
<1> DEFINE T == {r \in Nat : n < (r + 1) * (r + 1)}
<1>1. n \in T
  <2>1. (n + 1) * (n + 1) = n * n + 2 * n + 1 /\ n * n \in Nat OBVIOUS
  <2> QED BY <2>1
<1>2. PICK r \in T : \A j \in T : r <= j
  <2>1. T \in SUBSET Nat /\ T # {} BY <1>1
  <2> HIDE DEF T
  <2> QED BY <2>1, LowestNumber
<1>3. r \in 0..n /\ n < (r + 1) * (r + 1) BY <1>1, <1>2
<1>4. r * r <= n
  <2>1. CASE r = 0 BY <2>1
  <2>2. CASE r # 0
    <3>1. r - 1 \in Nat /\ ~(r <= r - 1) /\ (r - 1) + 1 = r BY <1>3, <2>2
    <3>2. ~(n < ((r - 1) + 1) * ((r - 1) + 1)) BY <1>2, <3>1
    <3>3. r * r \in Nat BY <1>3
    <3> QED BY <3>1, <3>2, <3>3
  <2> QED BY <2>1, <2>2
<1>5. Root(n) \in 0..n BY <1>3, <1>4 DEF Root
<1> QED BY <1>5

LEMMA ComponentAgrees ==
  ASSUME NEW G, NEW S, \A e \in G : e.by \in S => e.about \in S, NEW n \in S
  PROVE  /\ ComponentOf({e \in G : e.by \in S}, n) = ComponentOf(G, n)
         /\ ComponentOf(G, n) \subseteq S
<1> DEFINE H == {e \in G : e.by \in S}
<1>0. MaxRepNodes \in Nat BY ReputationAssumption DEF ReputationAssumption
<1>1. \A m \in S : /\ ReachableFrom(H, {m}) = ReachableFrom(G, {m})
                   /\ ReachableFrom(G, {m}) \subseteq S
  <2> SUFFICES ASSUME NEW m \in S
               PROVE  /\ ReachableFrom(H, {m}) = ReachableFrom(G, {m})
                      /\ ReachableFrom(G, {m}) \subseteq S
    OBVIOUS
  <2>1. {m} \in SUBSET S OBVIOUS
  <2> QED BY <1>0, <2>1, WithinAgrees DEF ReachableFrom
<1> HIDE DEF H
<1>2. ComponentOf(H, n) = ComponentOf(G, n) /\ ComponentOf(G, n) \subseteq S
  BY <1>1 DEF ComponentOf
<1> QED BY <1>2 DEF H

LEMMA PenalizedAgrees ==
  ASSUME NEW G, NEW A, IsFiniteSet(A), NEW S, KeepsTo(G, A, S), NEW t, NEW u, Agree(t, u, A, S)
  PROVE  Agree(Penalized(G, t), Penalized({e \in G : e.by \in S}, u), A, S)
<1> DEFINE H == {e \in G : e.by \in S}
           closed(X, c) == \A e \in X : e.by \in c => e.about \in c
           lowered(X, c, x) ==
             IF Cardinality(c) >= 2 /\ closed(X, c)
             THEN (x * Root(10000 \div Cardinality(c))) \div 100 ELSE x
           v == Penalized(G, t)
           w == Penalized(H, u)
<1>1. DOMAIN t = A /\ DOMAIN u = S /\ S \subseteq A BY DEF Agree, KeepsTo
<1>2. v = [n \in A |-> lowered(G, ComponentOf(G, n), t[n])] BY <1>1 DEF Penalized
<1>3. w = [n \in S |-> lowered(H, ComponentOf(H, n), u[n])] BY <1>1 DEF Penalized
<1>4. \A n \in S : ComponentOf(H, n) = ComponentOf(G, n) /\ ComponentOf(G, n) \subseteq S
  BY ComponentAgrees DEF KeepsTo
<1>5. \A n \in A : ComponentOf(G, n) \subseteq A
  BY ComponentAgrees DEF KeepsTo
<1>6. \A c \in SUBSET S : closed(H, c) <=> closed(G, c) OBVIOUS
<1> HIDE DEF H, closed
<1>7. \A n \in S : u[n] = t[n] BY DEF Agree
<1>8. ASSUME NEW n \in S PROVE w[n] = v[n]
  <2>1. closed(H, ComponentOf(G, n)) <=> closed(G, ComponentOf(G, n)) BY <1>4, <1>6
  <2>2. w[n] = lowered(H, ComponentOf(G, n), t[n]) BY <1>3, <1>4, <1>7
  <2>3. v[n] = lowered(G, ComponentOf(G, n), t[n]) BY <1>1, <1>2
  <2> HIDE DEF v, w
  <2> QED BY <2>1, <2>2, <2>3
<1>9. ASSUME NEW n \in A \ S PROVE v[n] = 0
  <2> DEFINE c == ComponentOf(G, n)
  <2>1. IsFiniteSet(c) /\ Cardinality(c) \in Nat BY <1>5, FS_Subset, FS_CardinalityType
  <2>2. v[n] = lowered(G, c, t[n]) /\ t[n] = 0 BY <1>2 DEF Agree
  <2> HIDE DEF c, v
  <2>3. CASE Cardinality(c) >= 2
    <3>1. 10000 \div Cardinality(c) \in Nat BY <2>1, <2>3
    <3>2. Root(10000 \div Cardinality(c)) \in Nat BY <3>1, RootIsNumber
    <3>3. PICK r \in Nat : r = Root(10000 \div Cardinality(c)) BY <3>2
    <3>4. (0 * r) \div 100 = 0 OBVIOUS
    <3> QED BY <2>2, <3>3, <3>4
  <2>4. CASE ~(Cardinality(c) >= 2) BY <2>2, <2>4
  <2> QED BY <2>3, <2>4
<1>10. v = [n \in A |-> v[n]] BY <1>2
<1>11. w = [n \in S |-> v[n]] BY <1>3, <1>8
<1> HIDE DEF v, w
<1>12. Agree(v, w, A, S) BY <1>9, <1>10, <1>11 DEF Agree
<1> QED BY <1>12 DEF v, w, H

\* Nobody but a seed has anything of his own.
LEMMA PersonalizationAgrees ==
  ASSUME NEW A, NEW S, S \subseteq A, SeedsOf \subseteq S
  PROVE  Agree(Personalization(A), Personalization(S), A, S)
<1> DEFINE own(n) ==
             IF n \in SeedsOf /\ SeedTotal(SeedsOf) > 0
             THEN (SeedWeight(n) * Scale) \div SeedTotal(SeedsOf) ELSE 0
<1>1. A \cap SeedsOf = SeedsOf /\ S \cap SeedsOf = SeedsOf OBVIOUS
<1>2. Personalization(A) = [n \in A |-> own(n)] BY <1>1 DEF Personalization, SeedsOf
<1>3. Personalization(S) = [n \in S |-> own(n)] BY <1>1 DEF Personalization, SeedsOf
<1>4. \A n \in A \ S : own(n) = 0 OBVIOUS
<1> HIDE DEF own
<1> QED BY <1>2, <1>3, <1>4 DEF Agree

LEMMA DistanceAgrees ==
  ASSUME NEW G, NEW S, \A e \in G : e.by \in S => e.about \in S,
         NEW H, H = {e \in G : e.by \in S}, NEW from \in SUBSET S
  PROVE  \A n : Distance(H, from, n) = Distance(G, from, n)
<1>0. MaxRepNodes \in Nat BY ReputationAssumption DEF ReputationAssumption
<1>1. \A k \in 0..MaxRepNodes : Within(H, from, k) = Within(G, from, k)
  <2> SUFFICES ASSUME NEW k \in 0..MaxRepNodes
               PROVE  Within({e \in G : e.by \in S}, from, k) = Within(G, from, k)
    OBVIOUS
  <2>1. k \in Nat BY <1>0
  <2> QED BY <2>1, WithinAgrees
<1>2. ReachableFrom(H, from) = ReachableFrom(G, from) BY <1>0, <1>1 DEF ReachableFrom
<1>3. \A n : {k \in 0..MaxRepNodes : n \in Within(H, from, k)}
              = {k \in 0..MaxRepNodes : n \in Within(G, from, k)} BY <1>1
<1> QED BY <1>2, <1>3, Zenon DEF Distance

\* The scores are those that the words of the known make.
LEMMA StrangersChangeNothing == RepTypeOK => StrangersGainNothing
<1> SUFFICES ASSUME RepTypeOK, Cardinality(Nodes(ToSet(repRows))) < MaxRepNodes
             PROVE  LocalScores(OfTheKnown(ToSet(repRows))) = LocalScores(ToSet(repRows))
  BY DEF StrangersGainNothing
<1> DEFINE E == ToSet(repRows)
           F == OfTheKnown(E)
           A == Everyone(E)
           K == Known(E)
           G == TrustGraph(E)
           H == TrustGraph(F)
<1>1. E \in SUBSET RepEvents /\ IsFiniteSet(E)
  <2>1. E = {repRows[i] : i \in 1..Len(repRows)} /\ Len(repRows) \in Nat
    BY DEF RepTypeOK, ToSet
  <2>2. IsFiniteSet(1..Len(repRows)) BY <2>1, FS_Interval
  <2>3. IsFiniteSet(E)
    <3> HIDE DEF E
    <3> QED BY <2>1, <2>2, FiniteImage
  <2>4. E \subseteq RepEvents BY <2>1 DEF RepTypeOK
  <2> QED BY <2>3, <2>4
<1>2. Nodes(E) = A /\ Nodes(F) = K BY <1>1, NobodyLeftOut
<1>3. K \subseteq A /\ SeedsOf \subseteq K BY KnownIsClosed
<1>4. IsFiniteSet(A) BY <1>1, EveryoneIsFinite
<1>5. H = {e \in G : e.by \in K} /\ KeepsTo(G, A, K)
  BY <1>1, <1>3, GraphOfTheKnown DEF KeepsTo
<1> HIDE DEF E, F, A, K, G, H
<1> DEFINE p == Personalization(A)
           q == Personalization(K)
           t == Trust(G, p)
           u == Trust(H, q)
           v == Penalized(G, t)
           w == Penalized(H, u)
           from(x) == {n \in DOMAIN x : x[n] > 0}
<1>6. Agree(p, q, A, K) BY <1>3, PersonalizationAgrees
<1>7. Agree(t, u, A, K)
  <2> HIDE DEF p, q
  <2> QED BY <1>5, <1>6, TrustAgrees
<1>8. Agree(v, w, A, K)
  <2> HIDE DEF t, u
  <2> QED BY <1>4, <1>5, <1>7, PenalizedAgrees
<1>9. LocalScores(E) = [n \in from(v) |-> [score |-> v[n], distance |-> Distance(G, from(p), n)]]
  BY <1>2 DEF LocalScores, G
<1>10. LocalScores(F) = [n \in from(w) |-> [score |-> w[n], distance |-> Distance(H, from(q), n)]]
  BY <1>2 DEF LocalScores, H
<1> HIDE DEF p, q, t, u, v, w
<1>11. from(q) = from(p) /\ from(p) \subseteq K BY <1>3, <1>6 DEF Agree
<1>12. from(w) = from(v) /\ \A n \in from(v) : w[n] = v[n] BY <1>3, <1>8 DEF Agree
<1> HIDE DEF from
<1>13. \A n : Distance(H, from(q), n) = Distance(G, from(p), n)
  <2>1. \A e \in G : e.by \in K => e.about \in K BY <1>5 DEF KeepsTo
  <2>2. PICK X \in SUBSET K : X = from(p) BY <1>11
  <2>3. H = {e \in G : e.by \in K} BY <1>5
  <2>4. \A n : Distance(H, X, n) = Distance(G, X, n)
    BY <2>1, <2>3, DistanceAgrees
  <2> QED BY <1>11, <2>2, <2>4
<1>14. LocalScores(F) = LocalScores(E) BY <1>9, <1>10, <1>12, <1>13
<1> QED BY <1>14 DEF E, F

\* StrangersGainNothing holds throughout: words of observers whom no chain of words from
\* the user's own seeds names change no score that computeReputation answers.
THEOREM RepStrangersGainNothing == RepSpec => []StrangersGainNothing
BY RepTypeCorrect, StrangersChangeNothing, PTL

=============================================================================
