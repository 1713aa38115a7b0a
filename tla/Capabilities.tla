----------------------------- MODULE Capabilities ----------------------------
(***************************************************************************)
(* Capability grants, their delegation and their revocation: the           *)
(* projection and the delegation graph of packages/capabilities.  Grants   *)
(* and revocations arrive in any order and more than once.                 *)
(*                                                                         *)
(* A grant is about one thing, its resource and its scope taken together.  *)
(***************************************************************************)
EXTENDS Naturals, Sequences, FiniteSets, Functions, SequencesExt, Relation

CONSTANTS
  Grants,       \* grants that arrive
  Revocations,  \* revocations that arrive
  MaxCapNow     \* bound: the last tick of the clock

\* Proofs name the parent grants that a delegated grant rests on.
Grant ==
  [id: STRING, issuer: STRING, audience: STRING, about: STRING, actions: SUBSET STRING,
   depth: Nat, notBefore: Nat, expires: Nat, proofs: SUBSET STRING]

Revocation == [id: STRING, of: STRING, by: STRING, at: Nat]

ASSUME CapabilityAssumption ==
  /\ Grants \subseteq Grant /\ Revocations \subseteq Revocation
  /\ \A g \in Grants : g.id \notin g.proofs
  /\ MaxCapNow \in Nat

Ids == {g.id : g \in Grants}

VARIABLES
  granted,      \* projection.grants: [grant, active, by] of each id, {} if none
  revoked,      \* projection.revocations: the last of each revocation id
  graph,        \* CapabilityDelegationGraph.grants: the last of each id
  graphRevoked, \* CapabilityDelegationGraph.revocations: all that have arrived
  capNow        \* wall clock

capVars == <<granted, revoked, graph, graphRevoked, capNow>>

CapInit ==
  /\ granted = [i \in Ids |-> {}]
  /\ revoked = {}
  /\ graph = [i \in Ids |-> {}]
  /\ graphRevoked = {}
  /\ capNow = 0

\* revocationsForCapability, and the ids of revocations.
RevocationsOf(i) == {r \in revoked : r.of = i}
RevocationIds(R) == {r.id : r \in R}

-----------------------------------------------------------------------------
(* The projection.                                                         *)

\* Faulty variant: only the revocations that are kept count, not that the grant is held
\* as revoked.
HeldByRevocationsKept(g) ==
  LET earlier == RevocationsOf(g.id)
  IN  [grant |-> IF earlier # {} /\ granted[g.id] # {}
                 THEN (CHOOSE h \in granted[g.id] : TRUE).grant ELSE g,
       active |-> earlier = {}, by |-> RevocationIds(earlier)]

\* A grant that was revoked, before it arrived or after, keeps what was first granted
\* under its id and is revoked; any other is replaced.
HeldAfterGrant(g) ==
  LET earlier == RevocationsOf(g.id)
      dead    == earlier # {} \/ \E h \in granted[g.id] : ~h.active
  IN  [grant |-> IF dead /\ granted[g.id] # {} THEN (CHOOSE h \in granted[g.id] : TRUE).grant
                 ELSE g,
       active |-> ~dead,
       by |-> IF dead THEN RevocationIds(earlier) \cup UNION {h.by : h \in granted[g.id]} ELSE {}]

\* applyCapabilityGrant, and addGrant of the graph that is built of the same grants.
ApplyGrant(g) ==
  /\ granted' = [granted EXCEPT ![g.id] = {HeldAfterGrant(g)}]
  /\ graph' = [graph EXCEPT ![g.id] = {g}]
  /\ UNCHANGED <<revoked, graphRevoked, capNow>>

\* applyCapabilityRevocation and addRevocation.  The projection has one place for a
\* revocation id, so a revocation of another grant under the same id takes the place
\* of this one; the graph lists all revocations of a grant.
ApplyRevocation(r) ==
  /\ revoked' = {q \in revoked : q.id # r.id} \cup {r}
  /\ graphRevoked' = graphRevoked \cup {r}
  /\ granted' = [i \in Ids |->
                   IF i = r.of THEN {[h EXCEPT !.active = FALSE, !.by = @ \cup {r.id}] : h \in granted[i]}
                   ELSE granted[i]]
  /\ UNCHANGED <<graph, capNow>>

-----------------------------------------------------------------------------
(* The delegation graph.                                                   *)

Held == UNION {graph[i] : i \in Ids}

Parents(g) == {p \in Held : p.id \in g.proofs}

\* detectDelegationCycle: of all the grants, not only of those asked about.
Cyclic ==
  LET above == TransitiveClosure([p \in Held \X Held |-> p[2].id \in p[1].proofs], Held)
  IN  \E g \in Held : above[g, g]

\* validateDelegationStep: c is no more than a part of what p grants.
Attenuates(p, c) ==
  /\ c.issuer = p.audience /\ c.about = p.about /\ c.actions \subseteq p.actions
  /\ c.expires <= p.expires
  /\ p.notBefore > 0 => c.notBefore >= p.notBefore
  /\ p.depth > 0 /\ c.depth < p.depth

\* What isDelegationPathValid asks of each grant of a path: only its own issuer's
\* revocation counts, and only from its date on.
InForceNow(g) ==
  /\ capNow < g.expires
  /\ g.notBefore <= capNow
  /\ ~\E r \in graphRevoked : r.of = g.id /\ r.by = g.issuer /\ r.at <= capNow

\* buildCapabilityProofGraph: the ways from a grant without proofs down to g on which no
\* grant comes twice.  A proof that is not held is no parent, and a grant that has only
\* such proofs leads nowhere.
PathsTo(g) ==
  {path \in SeqOf(Held, Cardinality(Held)) \ {<<>>} :
     /\ path[1].proofs = {}
     /\ Last(path) = g
     /\ \A k \in 1..(Len(path) - 1) : path[k] \in Parents(path[k + 1])
     /\ IsInjective(path)}

IsDelegationPathValid(path) ==
  /\ \A k \in 1..(Len(path) - 1) : Attenuates(path[k], path[k + 1])
  /\ \A k \in DOMAIN path : InForceNow(path[k])

\* isCapabilityAuthorized.
Authorized(g) == ~Cyclic /\ \E path \in PathsTo(g) : IsDelegationPathValid(path)

-----------------------------------------------------------------------------
CapTick ==
  /\ capNow < MaxCapNow
  /\ capNow' = capNow + 1
  /\ UNCHANGED <<granted, revoked, graph, graphRevoked>>

CapNext ==
  \/ \E g \in Grants : ApplyGrant(g)
  \/ \E r \in Revocations : ApplyRevocation(r)
  \/ CapTick

CapSpec == CapInit /\ [][CapNext]_capVars

-----------------------------------------------------------------------------
(* Properties.                                                             *)

\* What the projection holds.
CapTypeOK ==
  /\ \A i \in Ids :
       /\ Cardinality(granted[i]) <= 1
       /\ \A h \in granted[i] : h.grant \in Grants /\ h.grant.id = i
       /\ Cardinality(graph[i]) = Cardinality(granted[i])
       /\ \A g \in graph[i] : g \in Grants /\ g.id = i
  /\ revoked \subseteq graphRevoked /\ graphRevoked \subseteq Revocations
  /\ \A r, q \in revoked : r.id = q.id => r = q
  /\ capNow \in 0..MaxCapNow

\* The revocations of a grant that have arrived, and those of them whose place in the
\* projection a revocation of another grant, under the same id, has taken.
ArrivedFor(i) == {r \in graphRevoked : r.of = i}
Displaced(i) == {r \in ArrivedFor(i) : \E q \in revoked : q.id = r.id /\ q.of # i}

\* A grant is revoked if a revocation of it has arrived, before or after it and however
\* often either came, and only then, and it names the revocations that are kept of it
\* and none that is not of it.  The one way past this is in the code's key: a
\* revocation that is displaced before its grant comes does not revoke it.
RevocationsReachTheirGrant ==
  \A i \in Ids : \A h \in granted[i] :
    /\ h.active => h.by = {} /\ ArrivedFor(i) = Displaced(i)
    /\ ~h.active => h.by # {}
    /\ RevocationIds(RevocationsOf(i)) \subseteq h.by
    /\ h.by \subseteq RevocationIds(ArrivedFor(i))

\* A grant that is held as revoked stays so, as it was granted, whatever is granted under
\* its id afterwards and whatever becomes of the revocations in the projection.
RevokedForGood ==
  [][\A i \in Ids : \A h \in granted[i] :
       ~h.active => \E k \in granted'[i] :
                      ~k.active /\ k.grant = h.grant /\ h.by \subseteq k.by]_capVars

Ancestors(g) ==
  {p \in Held :
     \E path \in SeqOf(Held, Cardinality(Held)) :
       /\ Len(path) > 0 /\ path[1] = p /\ Last(path) = g
       /\ \A k \in 1..(Len(path) - 1) : path[k].id \in path[k + 1].proofs}

\* Whoever delegates, and however often, passes on no more than a grant without proofs
\* gave in the first place: an authorized grant has such an ancestor, about the same
\* thing, that allows every one of its actions and is in force as long as it is.
NoMoreThanTheRoot ==
  \A g \in Held :
    Authorized(g) =>
      \E root \in Ancestors(g) :
        /\ root.proofs = {} /\ InForceNow(root)
        /\ g.about = root.about /\ g.actions \subseteq root.actions
        /\ g.expires <= root.expires /\ g.depth <= root.depth

\* What is held is what was granted and not revoked, and no more than the root of it.
DelegationIsBounded ==
  []RevocationsReachTheirGrant /\ RevokedForGood /\ []NoMoreThanTheRoot
=============================================================================
