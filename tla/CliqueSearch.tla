---------------------------- MODULE CliqueSearch ----------------------------
(***************************************************************************)
(* findStronglyConnectedComponents and applyCliquePenalty of               *)
(* packages/trust-safety/src/reputation-graph/sybil-hardening.ts: Tarjan's *)
(* search with a stack of frames of its own.                               *)
(*                                                                         *)
(* A step is one round of the inner loop; nodes are their indexes.         *)
(***************************************************************************)
EXTENDS Naturals, Sequences, FiniteSets, FiniteSetsExt, SequencesExt

CONSTANT CliqueNodes   \* how many nodes there are

ASSUME CliqueAssumption == CliqueNodes \in Nat

CliqueIds == 1..CliqueNodes

VARIABLES
  edges,      \* the edges of positive weight: pairs of an observer and a subject
  index,      \* the order in which the search met a node, 0 before it did
  lowLink,    \* the least index that is known to be reachable
  stack,      \* the nodes that belong to no component yet
  work,       \* the frames: [v, left], left the successors after the cursor
  sccs        \* the components that were found

cliqueVars == <<edges, index, lowLink, stack, work, sccs>>

\* Before the search of a graph.
CliqueInitWith(graph) ==
  /\ edges = graph
  /\ index = [v \in CliqueIds |-> 0]
  /\ lowLink = [v \in CliqueIds |-> 0]
  /\ stack = <<>>
  /\ work = <<>>
  /\ sccs = {}

CliqueInit == \E graph \in SUBSET (CliqueIds \X CliqueIds) : CliqueInitWith(graph)

-----------------------------------------------------------------------------
\* getSortedSuccessors; their order is that of their numbers.
Successors(v) == {w \in CliqueIds : <<v, w>> \in edges}

Met == {v \in CliqueIds : index[v] # 0}

\* A node gets the next index and a frame.
Enter(v, frames) ==
  /\ index' = [index EXCEPT ![v] = Cardinality(Met) + 1]
  /\ lowLink' = [lowLink EXCEPT ![v] = Cardinality(Met) + 1]
  /\ stack' = Append(stack, v)
  /\ work' = Append(frames, [v |-> v, left |-> Successors(v)])
  /\ UNCHANGED <<edges, sccs>>

\* The outer loop: the first node that was not met.
StartSearch ==
  /\ work = <<>>
  /\ Met # CliqueIds
  /\ Enter(Min(CliqueIds \ Met), <<>>)

Frame == Last(work)

\* successors[frame.cursor].
NextSuccessor == Min(Frame.left)

\* The frames after the cursor has moved.
Passed == [work EXCEPT ![Len(work)].left = @ \ {NextSuccessor}]

VisitSuccessor ==
  /\ work # <<>>
  /\ Frame.left # {}
  /\ index[NextSuccessor] = 0
  /\ Enter(NextSuccessor, Passed)

\* Faulty variant: a successor counts although its component is complete.
LowestOfAll(v, w) == Min({lowLink[v], index[w]})

\* A successor on the stack lowers the link.
Lowest(v, w) == IF w \in ToSet(stack) THEN Min({lowLink[v], index[w]}) ELSE lowLink[v]

PassSuccessor ==
  /\ work # <<>>
  /\ Frame.left # {}
  /\ index[NextSuccessor] # 0
  /\ lowLink' = [lowLink EXCEPT ![Frame.v] = Lowest(Frame.v, NextSuccessor)]
  /\ work' = Passed
  /\ UNCHANGED <<edges, index, stack, sccs>>

\* The last successor was passed: the root of a component takes it off the stack, and
\* the link goes to the frame below.
LeaveNode ==
  /\ work # <<>>
  /\ Frame.left = {}
  /\ LET v == Frame.v
         at == CHOOSE i \in DOMAIN stack : stack[i] = v
     IN IF lowLink[v] = index[v]
        THEN /\ sccs' = sccs \cup {{stack[i] : i \in at..Len(stack)}}
             /\ stack' = SubSeq(stack, 1, at - 1)
        ELSE UNCHANGED <<sccs, stack>>
  /\ work' = Front(work)
  /\ lowLink' = IF Len(work) = 1 THEN lowLink
                ELSE LET parent == work[Len(work) - 1].v
                     IN [lowLink EXCEPT ![parent] = Min({@, lowLink[Frame.v]})]
  /\ UNCHANGED <<edges, index>>

CliqueNext == StartSearch \/ VisitSuccessor \/ PassSuccessor \/ LeaveNode

CliqueSpec == CliqueInit /\ [][CliqueNext]_cliqueVars

-----------------------------------------------------------------------------
\* The components that applyCliquePenalty takes from their members' scores: of two or
\* more, with no edge to another node.
Penalizes(scc) ==
  /\ Cardinality(scc) >= 2
  /\ \A e \in edges : e[1] \in scc => e[2] \in scc

PenalizedNodes == UNION {scc \in sccs : Penalizes(scc)}

-----------------------------------------------------------------------------
(* Properties.                                                             *)

ReachedFrom(v) ==
  LET reach[k \in 0..CliqueNodes] ==
        IF k = 0 THEN {v}
        ELSE reach[k - 1] \cup {e[2] : e \in {f \in edges : f[1] \in reach[k - 1]}}
  IN reach[CliqueNodes]

MutuallyReached(v) == {w \in ReachedFrom(v) : v \in ReachedFrom(w)}

CliqueTypeOK ==
  /\ edges \subseteq CliqueIds \X CliqueIds
  /\ index \in [CliqueIds -> 0..CliqueNodes]
  /\ lowLink \in [CliqueIds -> 0..CliqueNodes]
  /\ stack \in Seq(CliqueIds)
  /\ work \in Seq([v: CliqueIds, left: SUBSET CliqueIds])
  /\ sccs \subseteq SUBSET CliqueIds

\* Whatever component the search has found is the set of the nodes that reach one
\* another, and at its end it has found them all: the penalty for cliques falls on the
\* nodes whose every way out comes back, and on no other.
CliquesAreFound ==
  /\ \A scc \in sccs : \A v \in scc : scc = MutuallyReached(v)
  /\ work = <<>> /\ Met = CliqueIds =>
       PenalizedNodes = {v \in CliqueIds : /\ Cardinality(MutuallyReached(v)) >= 2
                                           /\ \A w \in ReachedFrom(v) : v \in ReachedFrom(w)}
=============================================================================
