------------------------------ MODULE ProofChain -----------------------------
(***************************************************************************)
(* The verification of a delegation and of those that it rests on: a       *)
(* zcap-ld capability with its chain of parents                            *)
(* (packages/zcap-ld-verifier/src/index.ts) and a UCAN with its proofs     *)
(* (packages/ucan-verifier/src/index.ts).  Both walk from the delegation   *)
(* that is registered, the leaf, to the roots, depth first, and each link  *)
(* is checked only against what the walk carries along from below it.      *)
(*                                                                         *)
(* A link names who holds it and who has signed it (the controller and the *)
(* verification method of a zcap, the audience and the issuer of a UCAN).  *)
(***************************************************************************)
EXTENDS Naturals, Sequences, FiniteSets, SequencesExt

CONSTANTS
  Parties,        \* those who hold and sign
  Deeds,          \* actions of a zcap, capabilities of a UCAN
  AnyDeed,        \* "*", which in a zcap stands for every action
  Places,         \* invocation targets: sequences of path segments
  Expiries,       \* times at which a link may expire
  ChainNow,       \* the time of the verification
  RecordIssuer,   \* the issuer of the registered proof
  RecordSubject,  \* and its subject
  MaxChainDepth,  \* how many links above the leaf are walked
  MaxLinks        \* bound: the links of a chain

NoExpiry == 0

ASSUME ChainAssumption ==
  /\ AnyDeed \in Deeds
  /\ Places \subseteq Seq(STRING)
  /\ Expiries \subseteq Nat \ {NoExpiry}
  /\ {RecordIssuer, RecordSubject} \subseteq Parties
  /\ MaxChainDepth \in Nat /\ MaxLinks \in Nat

VARIABLES
  pcScheme,   \* the scheme of the proof
  pcTrail,    \* the links that have passed, the leaf first, each with the number of
              \* the one below it
  pcAgenda,   \* what is to be verified next, with what is carried along
  pcVerdict   \* "open" during the walk, then the verdict

chainVars == <<pcScheme, pcTrail, pcAgenda, pcVerdict>>

\* Without deeds the actions of a zcap are absent, and inherited.  What is not sound
\* is malformed, its signature is wrong, or its time has not come.
ZcapLink ==
  [holder: Parties, signer: Parties, target: Places, deeds: SUBSET Deeds,
   expires: Expiries \cup {NoExpiry}, above: 0..1, sound: BOOLEAN]

UcanLink ==
  [holder: Parties, signer: Parties, deeds: SUBSET Deeds,
   expires: Expiries \cup {NoExpiry}, above: 0..2, sound: BOOLEAN]

\* The number of the link below, 0 for the leaf; how many may follow; and, in a zcap,
\* the deeds and the expiry that the link has to cover.
ChainContext == [below: Nat, left: Nat, deeds: SUBSET Deeds, expires: Nat]

ChainInit ==
  /\ pcScheme \in {"zcap-ld", "ucan"}
  /\ pcTrail = <<>>
  /\ pcAgenda = <<[below |-> 0, left |-> MaxChainDepth, deeds |-> {}, expires |-> NoExpiry]>>
  /\ pcVerdict = "open"

-----------------------------------------------------------------------------
(* One link against what is below it.                                      *)

Below(ctx) == pcTrail[ctx.below].link

coversInvocationTarget(parent, child) == IsPrefix(parent, child)

actionsCover(parent, child) ==
  \/ child = {} \/ parent = {} \/ AnyDeed \in parent
  \/ AnyDeed \notin child /\ child \subseteq parent

NotOutlived(expires, by) == expires # NoExpiry /\ by # NoExpiry => by <= expires

Unexpired(link) == link.expires # NoExpiry => ChainNow < link.expires

\* verifyZcapChain: with no link above it, it is the root.
ZcapHolds(ctx, link) ==
  /\ ctx.below # 0 =>
       /\ Below(ctx).signer = link.holder
       /\ coversInvocationTarget(link.target, Below(ctx).target)
  /\ actionsCover(link.deeds, ctx.deeds)
  /\ NotOutlived(link.expires, ctx.expires)
  /\ link.above = 0 => link.holder = RecordIssuer /\ link.signer = link.holder
  /\ ctx.below = 0 => link.holder = RecordSubject

\* verifyChain.  A UCAN carries nothing but the link just below, whose expiry may be
\* absent, and asks nothing of its roots.
UcanHolds(ctx, link) ==
  /\ ctx.below = 0 => link.signer = RecordIssuer
  /\ ctx.below # 0 =>
       /\ Below(ctx).signer = link.holder
       /\ NotOutlived(link.expires, Below(ctx).expires)
       /\ Below(ctx).deeds \subseteq link.deeds

\* Faulty variant: a link that leaves something to its parent drops what the links
\* below it have claimed.
InheritsNothing(link, ctx) == [deeds |-> link.deeds, expires |-> link.expires]

Inherits(link, ctx) ==
  [deeds |-> IF link.deeds = {} THEN ctx.deeds ELSE link.deeds,
   expires |-> IF link.expires = NoExpiry THEN ctx.expires ELSE link.expires]

-----------------------------------------------------------------------------
(* The walk.                                                               *)

Holds(ctx, link) ==
  /\ link.sound /\ Unexpired(link)
  /\ IF pcScheme = "ucan" THEN UcanHolds(ctx, link) ELSE ZcapHolds(ctx, link)

\* The links above are verified, each in full, before those that wait.
Onwards(ctx, link) ==
  LET claims == Inherits(link, ctx)
  IN  [i \in 1..link.above |->
         [below |-> Len(pcTrail) + 1, left |-> ctx.left - 1,
          deeds |-> claims.deeds, expires |-> claims.expires]]

PassLink(link) ==
  /\ pcVerdict = "open" /\ pcAgenda # <<>>
  /\ Len(pcTrail) + Len(pcAgenda) - 1 + link.above < MaxLinks
  /\ LET ctx == Head(pcAgenda) IN
     /\ Holds(ctx, link)
     /\ link.above > 0 => ctx.left > 0
     /\ pcTrail' = Append(pcTrail, [link |-> link, below |-> ctx.below])
     /\ pcAgenda' = Onwards(ctx, link) \o Tail(pcAgenda)
  /\ UNCHANGED <<pcScheme, pcVerdict>>

\* One link that does not hold, or links above the last level that is walked,
\* and the whole proof is invalid.
FailLink(link) ==
  /\ pcVerdict = "open" /\ pcAgenda # <<>>
  /\ LET ctx == Head(pcAgenda) IN
     \/ ~Holds(ctx, link)
     \/ link.above > 0 /\ ctx.left = 0
  /\ pcVerdict' = "invalid"
  /\ pcAgenda' = <<>>
  /\ UNCHANGED <<pcScheme, pcTrail>>

ConcludeWalk ==
  /\ pcVerdict = "open" /\ pcAgenda = <<>>
  /\ pcVerdict' = "verified"
  /\ UNCHANGED <<pcScheme, pcTrail, pcAgenda>>

ChainNext ==
  \/ ConcludeWalk
  \/ \E link \in IF pcScheme = "ucan" THEN UcanLink ELSE ZcapLink :
       PassLink(link) \/ FailLink(link)

ChainSpec == ChainInit /\ [][ChainNext]_chainVars

-----------------------------------------------------------------------------
(* Properties.                                                             *)

ChainTypeOK ==
  /\ pcVerdict \in {"open", "verified", "invalid"}
  /\ \A i \in DOMAIN pcAgenda : pcAgenda[i] \in ChainContext
  /\ \A i \in DOMAIN pcTrail : pcTrail[i].below < i

\* The links that the i-th has been walked from.
Descendants(i) ==
  LET from[j \in 0..Len(pcTrail)] ==
        IF j = 0 \/ pcTrail[j].below = 0 THEN {}
        ELSE {pcTrail[j].below} \cup from[pcTrail[j].below]
  IN  from[i]

\* What is verified was granted all the way.  Each link was signed by the holder
\* of the one above it.  A zcap leads from the issuer of the record, who signed
\* the root, to its subject, and no link claims a target, a deed or a time that any
\* link above it, however far, does not cover, though those between claim nothing.
\* A UCAN was signed by the issuer, and claims no capability that any of its
\* proofs lacks.  No link has expired, and none is further up than is walked.
GrantedAllTheWay ==
  pcVerdict = "verified" =>
    \A i \in DOMAIN pcTrail :
      LET Link(j) == pcTrail[j].link
          above == Link(i)
      IN
      /\ Unexpired(above)
      /\ Cardinality(Descendants(i)) <= MaxChainDepth
      /\ pcTrail[i].below # 0 => Link(pcTrail[i].below).signer = above.holder
      /\ pcScheme = "ucan" =>
           /\ Link(1).signer = RecordIssuer
           /\ \A j \in Descendants(i) : Link(j).deeds \subseteq above.deeds
      /\ pcScheme = "zcap-ld" =>
           /\ Link(1).holder = RecordSubject
           /\ above.above = 0 => above.holder = RecordIssuer /\ above.signer = RecordIssuer
           /\ \A j \in Descendants(i) :
                /\ IsPrefix(above.target, Link(j).target)
                /\ above.deeds = {} \/ AnyDeed \in above.deeds \/ Link(j).deeds \subseteq above.deeds
                /\ NotOutlived(above.expires, Link(j).expires)
=============================================================================
