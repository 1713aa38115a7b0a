----------------------------- MODULE MlsProvider -----------------------------
(***************************************************************************)
(* The keys of a group on its devices: TsMlsProvider of                    *)
(* packages/mls-provider/src/provider.ts over its store.  Each operation   *)
(* loads the state, has the MLS library compute the next one, saves it and *)
(* only then returns what is to be sent or shown; operations of a group    *)
(* wait for each other, and joins for those of the same key package.       *)
(* The library is external: a state is the sequence of commits it stands   *)
(* on, and a message belongs to the state it was made in.  Provider and    *)
(* store are one of each on a device, and there is one group.              *)
(***************************************************************************)
EXTENDS Naturals, Sequences, FiniteSets, SequencesExt

CONSTANTS
  Members,       \* devices
  KeyPackages,   \* [id, owner]: what generateKeyPackage may come up with
  Slots,         \* calls that may be under way at a time on a device
  NoState,       \* no state of the group is stored
  MaxCommits, MaxTexts, MaxLost   \* bounds: commits, messages; calls that are lost

ASSUME MlsProviderAssumption ==
  /\ {MaxCommits, MaxTexts, MaxLost} \subseteq Nat
  /\ KeyPackages \subseteq [id: Nat \ {0}, owner: Members]

VARIABLES
  mpStore,     \* the stored state of the group, of each device
  mpPrivate,   \* the private halves of key packages in the store
  mpPublic,    \* key packages that were given out
  mpCalls,     \* what each call is about to do
  mpWires,     \* commits, welcomes and messages that were returned to be sent
  mpCount,     \* [commits, texts, lost]: those there have been
  mpShown,     \* history: the messages that were shown, and to which leaf
  mpTwice,     \* history: devices that showed a leaf a message again or joined by
               \* one key package again
  mpJoined,    \* history: key packages that a state was saved for
  mpLoose      \* history: devices on which a join ran beside another call, or was
               \* lost after it had saved

mpHistory == <<mpShown, mpTwice, mpJoined, mpLoose>>
mpVars == <<mpStore, mpPrivate, mpPublic, mpCalls, mpWires, mpCount, mpHistory>>

\* A state: the commits it stands on, the leaves of the group, the device's own,
\* whether that is still one of them, the messages it sent in this epoch, those it has
\* opened, and the epoch it came in at.  A leaf is the key package that was added; a
\* device may have several.
StateAt(commits, leaves, own) ==
  [commits |-> commits, leaves |-> leaves, own |-> own, active |-> TRUE, sent |-> 0,
   opened |-> {}, since |-> Len(commits)]

CreatorLeaf(d) == [id |-> 0, owner |-> d]

\* The lock of the group; that of a key package is its id, which is not 0.
GroupLock == {0}

\* A call: the lock it holds, its next step, the state it saves, what it returns and
\* the key package it joins by.
NoCall == [lock |-> {}, step |-> "idle", next |-> NoState, out |-> {}, by |-> {}]

ProviderInit ==
  /\ mpStore = [d \in Members |-> NoState]
  /\ mpPrivate = {}
  /\ mpPublic = {}
  /\ mpCalls = [d \in Members |-> [c \in Slots |-> NoCall]]
  /\ mpWires = {}
  /\ mpCount = [commits |-> 0, texts |-> 0, lost |-> 0]
  /\ mpShown = {} /\ mpTwice = {} /\ mpJoined = {} /\ mpLoose = {}

-----------------------------------------------------------------------------
(* withLock.                                                               *)

\* Faulty variant: nothing waits.
LockAlwaysFree(d, lock) == lock # {}

LockFree(d, lock) == \A c \in Slots : mpCalls[d][c].lock # lock

Begins(d, c, lock, step, next, out, by) ==
  /\ mpCalls[d][c] = NoCall
  /\ LockFree(d, lock)
  /\ mpCalls' = [mpCalls EXCEPT ![d][c] =
       [lock |-> lock, step |-> step, next |-> next, out |-> out, by |-> by]]
  /\ mpLoose' =
       IF \E b \in Slots \ {c} :
            mpCalls[d][b] # NoCall /\ lock \cup mpCalls[d][b].lock # GroupLock
       THEN mpLoose \cup {d} ELSE mpLoose

Ends(d, c) == mpCalls' = [mpCalls EXCEPT ![d][c] = NoCall]

Unheard == UNCHANGED <<mpShown, mpTwice, mpJoined>>

\* The state a group operation loads; a device that was removed has no use of it.
Loaded(d) == {s \in {mpStore[d]} : s # NoState /\ s.active}

-----------------------------------------------------------------------------
(* The operations of a group: the state is loaded and the next one computed.*)

GenerateKeyPackage(k) ==
  /\ k \notin mpPublic
  /\ mpPrivate' = mpPrivate \cup {k}
  /\ mpPublic' = mpPublic \cup {k}
  /\ UNCHANGED <<mpStore, mpCalls, mpWires, mpCount, mpHistory>>

NextCommit == mpCount.commits + 1

CountCommit ==
  /\ mpCount.commits < MaxCommits
  /\ mpCount' = [mpCount EXCEPT !.commits = @ + 1]

CreateGroup(d, c) ==
  /\ mpStore[d] = NoState
  /\ CountCommit
  /\ Begins(d, c, GroupLock, "save",
            StateAt(<<NextCommit>>, {CreatorLeaf(d)}, CreatorLeaf(d)), {}, {})
  /\ Unheard
  /\ UNCHANGED <<mpStore, mpPrivate, mpPublic, mpWires>>

\* commitLocked: of addMembers, removeMember or rotateOwnLeaf.
Commit(d, c, added, removed) ==
  \E s \in Loaded(d) :
    LET next == [s EXCEPT !.commits = Append(@, NextCommit), !.sent = 0,
                          !.leaves = (@ \cup added) \ removed]
        commit == [type |-> "commit", on |-> s.commits, by |-> s.own, next |-> next.commits,
                   leaves |-> next.leaves]
        welcome == [type |-> "welcome", to |-> added, commits |-> next.commits,
                    leaves |-> next.leaves]
    IN  /\ CountCommit
        /\ Begins(d, c, GroupLock, "save", next,
                  {commit} \cup (IF added = {} THEN {} ELSE {welcome}), {})
        /\ Unheard
        /\ UNCHANGED <<mpStore, mpPrivate, mpPublic, mpWires>>

\* The library takes no leaf twice.
AddMembers(d, c, k) ==
  /\ k \in mpPublic
  /\ \A s \in Loaded(d) : k \notin s.leaves
  /\ Commit(d, c, {k}, {})

\* One leaf of the member goes, though it may have others.
RemoveMember(d, c, leaf) ==
  /\ leaf.owner # d
  /\ \E s \in Loaded(d) : leaf \in s.leaves
  /\ Commit(d, c, {}, {leaf})

RotateOwnLeaf(d, c) == Commit(d, c, {}, {})

\* A message is sealed with the next key of the device in the epoch.
EncryptApplicationMessage(d, c) ==
  \E s \in Loaded(d) :
    /\ mpCount.texts < MaxTexts
    /\ mpCount' = [mpCount EXCEPT !.texts = @ + 1]
    /\ Begins(d, c, GroupLock, "save", [s EXCEPT !.sent = @ + 1],
              {[type |-> "text", on |-> s.commits, by |-> s.own, key |-> s.sent,
                id |-> mpCount.texts + 1]}, {})
    /\ Unheard
    /\ UNCHANGED <<mpStore, mpPrivate, mpPublic, mpWires>>

\* A commit is taken only on the state it was made on.
ProcessCommit(d, c, w) ==
  \E s \in Loaded(d) :
    /\ w.type = "commit" /\ w.by # s.own /\ w.on = s.commits
    /\ Begins(d, c, GroupLock, "save",
              [s EXCEPT !.commits = w.next, !.leaves = w.leaves,
                        !.active = s.own \in w.leaves, !.sent = 0], {}, {})
    /\ Unheard
    /\ UNCHANGED <<mpStore, mpPrivate, mpPublic, mpWires, mpCount>>

\* A message of this epoch or one before that the device was in opens once.
ProcessText(d, c, w) ==
  \E s \in Loaded(d) :
    /\ w.type = "text" /\ w.by # s.own
    /\ IsPrefix(w.on, s.commits) /\ s.since <= Len(w.on)
    /\ w \notin s.opened
    /\ Begins(d, c, GroupLock, "save", [s EXCEPT !.opened = @ \cup {w}],
              {[type |-> "shown", to |-> s.own, text |-> w]}, {})
    /\ Unheard
    /\ UNCHANGED <<mpStore, mpPrivate, mpPublic, mpWires, mpCount>>

SaveState(d, c) ==
  /\ mpCalls[d][c].step = "save"
  /\ mpStore' = [mpStore EXCEPT ![d] = mpCalls[d][c].next]
  /\ mpCalls' = [mpCalls EXCEPT ![d][c].step = "return"]
  /\ UNCHANGED <<mpPrivate, mpPublic, mpWires, mpCount, mpHistory>>

Returns(d, c) ==
  LET out == mpCalls[d][c].out
      shown == {w \in out : w.type = "shown"}
  IN  /\ mpCalls[d][c].step = "return"
      /\ Ends(d, c)
      /\ mpWires' = mpWires \cup (out \ shown)
      /\ mpShown' = mpShown \cup shown
      /\ mpTwice' = IF shown \cap mpShown # {} THEN mpTwice \cup {d} ELSE mpTwice
      /\ UNCHANGED <<mpStore, mpPrivate, mpPublic, mpCount, mpJoined, mpLoose>>

DeleteGroup(d) ==
  /\ mpStore[d] # NoState
  /\ LockFree(d, GroupLock)
  /\ mpStore' = [mpStore EXCEPT ![d] = NoState]
  /\ UNCHANGED <<mpPrivate, mpPublic, mpCalls, mpWires, mpCount, mpHistory>>

-----------------------------------------------------------------------------
(* joinFromWelcome holds the lock of its key package, not that of the group. *)

JoinFromWelcome(d, c, k, w) ==
  /\ w.type = "welcome" /\ k \in w.to /\ k.owner = d
  /\ k \in mpPrivate
  /\ Begins(d, c, {k.id}, "check", StateAt(w.commits, w.leaves, k), {}, {k})
  /\ Unheard
  /\ UNCHANGED <<mpStore, mpPrivate, mpPublic, mpWires, mpCount>>

\* MLS_GROUP_EXISTS: the key package is kept.
JoinChecks(d, c) ==
  /\ mpCalls[d][c].step = "check"
  /\ IF mpStore[d] = NoState THEN mpCalls' = [mpCalls EXCEPT ![d][c].step = "join"]
     ELSE Ends(d, c)
  /\ UNCHANGED <<mpStore, mpPrivate, mpPublic, mpWires, mpCount, mpHistory>>

JoinSaves(d, c) ==
  /\ mpCalls[d][c].step = "join"
  /\ mpStore' = [mpStore EXCEPT ![d] = mpCalls[d][c].next]
  /\ mpCalls' = [mpCalls EXCEPT ![d][c].step = "consume"]
  /\ mpJoined' = mpJoined \cup mpCalls[d][c].by
  /\ mpTwice' = IF mpCalls[d][c].by \cap mpJoined # {} THEN mpTwice \cup {d} ELSE mpTwice
  /\ UNCHANGED <<mpPrivate, mpPublic, mpWires, mpCount, mpShown, mpLoose>>

JoinConsumes(d, c) ==
  /\ mpCalls[d][c].step = "consume"
  /\ mpPrivate' = mpPrivate \ mpCalls[d][c].by
  /\ Ends(d, c)
  /\ UNCHANGED <<mpStore, mpPublic, mpWires, mpCount, mpHistory>>

-----------------------------------------------------------------------------
\* The store rejects, or the device stops: what has been saved stays.
CallIsLost(d, c) ==
  /\ mpCalls[d][c] # NoCall
  /\ mpCount.lost < MaxLost
  /\ mpCount' = [mpCount EXCEPT !.lost = @ + 1]
  /\ Ends(d, c)
  /\ mpLoose' = IF mpCalls[d][c].step = "consume" THEN mpLoose \cup {d} ELSE mpLoose
  /\ Unheard
  /\ UNCHANGED <<mpStore, mpPrivate, mpPublic, mpWires>>

ProviderNext ==
  \/ \E k \in KeyPackages : GenerateKeyPackage(k)
  \/ \E d \in Members : DeleteGroup(d)
  \/ \E d \in Members, c \in Slots :
       \/ CreateGroup(d, c) \/ RotateOwnLeaf(d, c) \/ EncryptApplicationMessage(d, c)
       \/ \E k \in KeyPackages : AddMembers(d, c, k)
       \/ \E k \in KeyPackages \cup {CreatorLeaf(m) : m \in Members} : RemoveMember(d, c, k)
       \/ \E w \in mpWires : ProcessCommit(d, c, w) \/ ProcessText(d, c, w)
       \/ SaveState(d, c) \/ Returns(d, c)
       \/ \E w \in mpWires, k \in KeyPackages : JoinFromWelcome(d, c, k, w)
       \/ JoinChecks(d, c) \/ JoinSaves(d, c) \/ JoinConsumes(d, c)
       \/ CallIsLost(d, c)

ProviderSpec == ProviderInit /\ [][ProviderNext]_mpVars

-----------------------------------------------------------------------------
(* Properties.                                                             *)

ProviderTypeOK ==
  /\ mpPrivate \subseteq mpPublic /\ mpPublic \subseteq KeyPackages
  /\ \A d \in Members : \A s \in Loaded(d) : s.own.owner = d /\ s.own \in s.leaves
  /\ {mpTwice, mpLoose} \subseteq SUBSET Members

Texts == {w \in mpWires : w.type = "text"}

\* No key of the group is used twice: whatever calls overlap and are lost between their
\* load, their save and their return, no two messages are sealed with one key of a leaf,
\* no leaf is shown a message again and no key package is joined by again.  So it is
\* unless a join ran beside another call of its device, for which it does not wait, or
\* was lost after it had saved the state and before the key package was deleted.
NoKeyIsUsedTwice ==
  \A d \in Members \ mpLoose :
    /\ d \notin mpTwice
    /\ \A v, w \in Texts :
         v.by.owner = d /\ v.by = w.by /\ v.on = w.on /\ v.key = w.key => v = w
=============================================================================
