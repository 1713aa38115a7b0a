-------------------------- MODULE ClientPartsProofs --------------------------
(***************************************************************************)
(* The parts of the client beside its outbox: what the MLS provider and    *)
(* the block store promise, for any devices, key packages, fetchers, calls *)
(* and requests at a time, limits and bounds.                              *)
(*                                                                         *)
(* NoKeyIsUsedTwice of MlsProvider.                                        *)
(* A device that is not loose has one call under way at most: calls of the *)
(* group wait for each other, and a join that ran beside a call has made   *)
(* the device loose.  So what a call computes from the stored state is     *)
(* still true of that state when the call saves and returns: a message is  *)
(* sealed with a key that the state has counted, one that is shown is      *)
(* among those the state has opened, and a key package whose private half  *)
(* is in the store has not been joined by.  Keys of an earlier epoch, and  *)
(* those of another group, are never come back to: a path only gets longer *)
(* or starts at a new number.                                              *)
(*                                                                         *)
(* SourcesAreTriedAgain of BlockStore.  A request that is under way has    *)
(* been through all fetchers before the one it is at, so that none is left *)
(* out when there is no next one; and a breaker that probes has the        *)
(* request, at this fetcher and marked as its probe: whatever it answers,  *)
(* and whatever another one answers, ends the probe.                       *)
(***************************************************************************)
EXTENDS MlsProvider, BlockStore, WellFoundedInduction, TLAPS

Leaf == [id: Nat, owner: Members]

\* The commits a state stands on; the first names the group.
Path == Seq(Nat) \ {<<>>}

Text == [type: {"text"}, on: Path, by: Leaf, key: Nat, id: Nat]

CommitWire == [type: {"commit"}, on: Path, by: Leaf, next: Path, leaves: SUBSET Leaf]

Welcome == [type: {"welcome"}, to: SUBSET Leaf, commits: Path, leaves: SUBSET Leaf]

Wire == Text \cup CommitWire \cup Welcome

ShownText == [type: {"shown"}, to: Leaf, text: Text]

State ==
  [commits: Path, leaves: SUBSET Leaf, own: Leaf, active: BOOLEAN, sent: Nat,
   opened: SUBSET Text, since: Nat]

Call ==
  [lock: SUBSET Nat, step: {"idle", "save", "return", "check", "join", "consume"},
   next: State \cup {NoState}, out: SUBSET (Wire \cup ShownText), by: SUBSET KeyPackages]

\* The group that a path belongs to has been created.
Rooted(path) == path[1] <= mpCount.commits

\* The paths of what is sent; a commit adds one to the path it was made on.
WireIsRooted(w) ==
  /\ w.type = "text" => Rooted(w.on)
  /\ w.type = "commit" =>
       Rooted(w.on) /\ Rooted(w.next) /\ w.next[1] = w.on[1] /\ Len(w.next) = Len(w.on) + 1
  /\ w.type = "welcome" => Rooted(w.commits)

\* A state of a device.
StateIsOf(s, d) == s \in State /\ s.own.owner = d /\ Rooted(s.commits)

\* A call of the group, and a join.
GroupCall(call, d) ==
  /\ call.lock = GroupLock /\ call.by = {} /\ call.step \in {"save", "return"}
  /\ StateIsOf(call.next, d)
  /\ \A w \in call.out :
       /\ WireIsRooted(w)
       /\ w.type = "text" => w.by.owner = d
       /\ w.type = "shown" => w.to.owner = d /\ Rooted(w.text.on)

JoinCall(call, d) ==
  \E k \in KeyPackages :
    /\ k.owner = d /\ call.lock = {k.id} /\ call.by = {k} /\ call.out = {}
    /\ call.step \in {"check", "join", "consume"}
    /\ StateIsOf(call.next, d) /\ call.next.own = k

ProviderTypes ==
  /\ mpStore \in [Members -> State \cup {NoState}]
  /\ \A d \in Members : mpStore[d] # NoState => StateIsOf(mpStore[d], d)
  /\ mpCalls \in [Members -> [Slots -> Call]]
  /\ \A d \in Members, c \in Slots :
       mpCalls[d][c] # NoCall => GroupCall(mpCalls[d][c], d) \/ JoinCall(mpCalls[d][c], d)
  /\ \A d \in Members, c \in Slots : mpCalls[d][c].by \subseteq mpPublic
  /\ mpPrivate \subseteq mpPublic /\ mpPublic \subseteq KeyPackages
  /\ mpWires \subseteq Wire /\ \A w \in mpWires : WireIsRooted(w)
  /\ mpShown \subseteq ShownText
  /\ \A x \in mpShown : Rooted(x.text.on)
  /\ mpCount \in [commits: Nat, texts: Nat, lost: Nat]
  /\ mpTwice \subseteq Members /\ mpLoose \subseteq Members
  /\ mpJoined \subseteq mpPublic

\* A message was sealed before what the state will seal next; one was shown to the leaf
\* and the state knows, or it belongs to another group.
Sealed(w, s) ==
  \/ w.on[1] # s.commits[1]
  \/ Len(w.on) < Len(s.commits)
  \/ Len(w.on) = Len(s.commits) /\ w.key < s.sent

Fits(s) ==
  /\ \A w \in Texts : w.by = s.own => Sealed(w, s)
  /\ \A x \in mpShown : x.to = s.own => x.text \in s.opened \/ x.text.on[1] # s.commits[1]

\* What a call returns has not been there before.
IsNew(call) ==
  /\ \A w \in call.out : w.type = "text" =>
       /\ w.by = call.next.own /\ w.on = call.next.commits /\ w.key < call.next.sent
       /\ \A v \in Texts : v.by = w.by /\ v.on = w.on => v.key < w.key
       /\ \A v \in call.out : v.type = "text" => v = w
  /\ \A x \in call.out : x.type = "shown" =>
       x.to = call.next.own /\ x.text \in call.next.opened /\ x \notin mpShown

\* Of a leaf that the device does not have yet nothing is known.
LeafIsUnused(k) ==
  /\ \A w \in Texts : w.by # k
  /\ \A x \in mpShown : x.to # k

\* The device has the leaf.
IsJoined(k) == k \in KeyPackages => k \in mpJoined

OneCall(d) ==
  \A b, c \in Slots : mpCalls[d][b] # NoCall /\ mpCalls[d][c] # NoCall => b = c

\* What is so on a device that is not loose.
CallsFit(d) ==
  \A c \in Slots : mpCalls[d][c] # NoCall =>
    /\ Fits(mpCalls[d][c].next)
    /\ IsNew(mpCalls[d][c])
    /\ mpCalls[d][c].step = "return" => mpStore[d] = mpCalls[d][c].next
    /\ mpCalls[d][c].step \in {"save", "return"} => IsJoined(mpCalls[d][c].next.own)
    /\ mpCalls[d][c].step \in {"check", "join"} => mpCalls[d][c].by \cap mpJoined = {}

StoreFits(d) ==
  mpStore[d] # NoState =>
    Fits(mpStore[d]) /\ IsJoined(mpStore[d].own)

KeysAreSpent(d) ==
  \A k \in KeyPackages : k.owner = d =>
    /\ k \notin mpJoined => LeafIsUnused(k)
    /\ k \in mpJoined /\ k \in mpPrivate =>
         \E c \in Slots : mpCalls[d][c].step = "consume" /\ mpCalls[d][c].by = {k}

TextsDiffer(d) ==
  \A v, w \in Texts : v.by.owner = d /\ v.by = w.by /\ v.on = w.on /\ v.key = w.key => v = w

IsTight(d) ==
  /\ OneCall(d) /\ CallsFit(d) /\ StoreFits(d) /\ KeysAreSpent(d) /\ TextsDiffer(d)
  /\ d \notin mpTwice

ProviderInv == ProviderTypes /\ \A d \in Members \ mpLoose : IsTight(d)
-----------------------------------------------------------------------------
(* States, calls and what they return.                                     *)

\* Of what is sent, what has the type of a message or of a commit is one.
LEMMA KindOfWire ==
  ASSUME NEW w \in Wire
  PROVE  /\ w.type = "text" => w \in Text
         /\ w.type = "commit" => w \in CommitWire
         /\ w.type = "welcome" => w \in Welcome
         /\ w.type # "shown"
BY DEF Wire, Text, CommitWire, Welcome

\* A path has a number that names its group and a length.
LEMMA PathHasRoot ==
  ASSUME NEW p \in Path
  PROVE  p \in Seq(Nat) /\ p[1] \in Nat /\ Len(p) \in Nat \ {0}
BY DEF Path

\* A commit makes a path longer by one.
LEMMA PathGrows ==
  ASSUME NEW p \in Path, NEW n \in Nat
  PROVE  Append(p, n) \in Path /\ Append(p, n)[1] = p[1] /\ Len(Append(p, n)) = Len(p) + 1
BY PathHasRoot DEF Path

\* A path that begins another one is of the same group.
LEMMA PrefixHasRoot ==
  ASSUME NEW p \in Path, NEW q \in Path, IsPrefix(p, q)
  PROVE  p[1] = q[1]
<1>1. SubSeq(p, 1, Len(p)) = SubSeq(q, 1, Len(p)) /\ Len(p) <= Len(q)
  BY DEF IsPrefix
<1>2. /\ p \in Seq(Nat) /\ q \in Seq(Nat)
      /\ 1 \in 1..Len(p) /\ Len(p) \in Nat /\ Len(q) \in Nat
  BY PathHasRoot
<1>3. SubSeq(p, 1, Len(p))[1] = p[1]
  BY <1>2
<1>4. SubSeq(q, 1, Len(p))[1] = q[1]
  BY <1>1, <1>2
<1> QED BY <1>1, <1>3, <1>4

\* The parts of a state.
LEMMA PartsOfState ==
  ASSUME NEW s \in State
  PROVE  /\ s.commits \in Path /\ s.leaves \subseteq Leaf /\ s.own \in Leaf
         /\ s.active \in BOOLEAN /\ s.sent \in Nat /\ s.opened \subseteq Text /\ s.since \in Nat
BY DEF State

\* What sending and opening a message make of a state.
LEMMA StateSends ==
  ASSUME NEW s \in State,
         NEW t, t = [s EXCEPT !.sent = @ + 1]
  PROVE  /\ t \in State /\ t.commits = s.commits /\ t.own = s.own /\ t.sent = s.sent + 1
         /\ t.opened = s.opened
BY DEF State

\* A message is opened.
LEMMA StateOpens ==
  ASSUME NEW s \in State, NEW w \in Text,
         NEW t, t = [s EXCEPT !.opened = @ \cup {w}]
  PROVE  /\ t \in State /\ t.commits = s.commits /\ t.own = s.own /\ t.sent = s.sent
         /\ t.opened = s.opened \cup {w}
BY DEF State

\* The state of a group that was created or joined.
LEMMA StateBegins ==
  ASSUME NEW p \in Path, NEW leaves \in SUBSET Leaf, NEW own \in Leaf,
         NEW t, t = StateAt(p, leaves, own)
  PROVE  /\ t \in State /\ t.commits = p /\ t.own = own /\ t.sent = 0 /\ t.opened = {}
BY PathHasRoot DEF State, StateAt

\* The parts of a call.
LEMMA PartsOfCall ==
  ASSUME NEW call \in Call
  PROVE  /\ call.lock \subseteq Nat /\ call.next \in State \cup {NoState}
         /\ call.step \in {"idle", "save", "return", "check", "join", "consume"}
         /\ call.out \subseteq Wire \cup ShownText /\ call.by \subseteq KeyPackages
BY DEF Call

\* A call goes on to its next step.
LEMMA CallSteps ==
  ASSUME NEW call \in Call, NEW step \in {"return", "join", "consume"}
  PROVE  LET t == [call EXCEPT !.step = step]
         IN  /\ t \in Call /\ t.lock = call.lock /\ t.step = step /\ t.next = call.next
             /\ t.out = call.out /\ t.by = call.by
BY DEF Call

\* The parts of a call that begins.
LEMMA CallBegins ==
  ASSUME NEW lock \in SUBSET Nat, NEW step \in {"save", "check"}, NEW next \in State,
         NEW out \in SUBSET (Wire \cup ShownText), NEW by \in SUBSET KeyPackages
  PROVE  LET t == [lock |-> lock, step |-> step, next |-> next, out |-> out, by |-> by]
         IN  /\ t \in Call /\ t # NoCall /\ t.lock = lock /\ t.step = step /\ t.next = next
             /\ t.out = out /\ t.by = by
BY DEF Call, NoCall

\* The idle call is a call.
LEMMA NoCallIsCall ==
  NoCall \in Call /\ NoCall.by = {} /\ NoCall.step = "idle" /\ NoCall.lock = {}
BY DEF Call, NoCall

\* One call changes and no other.
LEMMA OneCallChanges ==
  ASSUME mpCalls \in [Members -> [Slots -> Call]],
         NEW d \in Members, NEW c \in Slots, NEW call \in Call,
         mpCalls' = [mpCalls EXCEPT ![d][c] = call]
  PROVE  /\ mpCalls' \in [Members -> [Slots -> Call]]
         /\ mpCalls'[d][c] = call
         /\ \A e \in Members : e # d => mpCalls'[e] = mpCalls[e]
         /\ \A b \in Slots : b # c => mpCalls'[d][b] = mpCalls[d][b]
<1> HIDE DEF Call
<1> QED BY DEF Call

\* The step of a call changes and nothing else of it.
LEMMA OneStepChanges ==
  ASSUME mpCalls \in [Members -> [Slots -> Call]],
         NEW d \in Members, NEW c \in Slots, NEW step \in {"return", "join", "consume"},
         mpCalls' = [mpCalls EXCEPT ![d][c].step = step]
  PROVE  /\ [mpCalls[d][c] EXCEPT !.step = step] \in Call
         /\ mpCalls' = [mpCalls EXCEPT ![d][c] = [mpCalls[d][c] EXCEPT !.step = step]]
<1>1. mpCalls[d] \in [Slots -> Call] /\ mpCalls[d][c] \in Call
  OBVIOUS
<1>2. [mpCalls[d][c] EXCEPT !.step = step] \in Call
  BY <1>1, CallSteps
<1> QED BY <1>1, <1>2
-----------------------------------------------------------------------------
(* What a step of one device leaves to the others.                         *)

\* The step is one of device d: what others have and have said stays, and what is new is
\* of its leaves.
OnlyOf(d) ==
  /\ \A e \in Members \ {d} : mpCalls'[e] = mpCalls[e] /\ mpStore'[e] = mpStore[e]
  /\ mpTwice' \subseteq mpTwice \cup {d} /\ mpLoose \subseteq mpLoose'
  /\ mpWires \subseteq mpWires'
  /\ \A w \in mpWires' \ mpWires : w.type = "text" => w.by.owner = d
  /\ mpShown \subseteq mpShown' /\ \A x \in mpShown' \ mpShown : x.to.owner = d
  /\ mpJoined \subseteq mpJoined' /\ \A k \in mpJoined' \ mpJoined : k.owner = d
  /\ mpPrivate' \subseteq mpPrivate

\* Nothing was sent, shown or joined.
NothingSaid == UNCHANGED <<mpWires, mpShown, mpJoined>>

\* What has the owner of another device is in the messages if it was.
LEMMA TextsOfOthers ==
  ASSUME NEW d, OnlyOf(d), NEW w \in Texts', w.by.owner # d
  PROVE  w \in Texts
BY DEF OnlyOf, Texts

\* A state of another device fits what was said.
LEMMA FitsForOthers ==
  ASSUME NEW d, OnlyOf(d), NEW s, s.own.owner # d, Fits(s)
  PROVE  Fits(s)'
<1>1. ASSUME NEW w \in Texts', w.by = s.own
      PROVE  Sealed(w, s)
  BY <1>1, TextsOfOthers DEF Fits
<1>2. ASSUME NEW x \in mpShown', x.to = s.own
      PROVE  x.text \in s.opened \/ x.text.on[1] # s.commits[1]
  BY <1>2 DEF Fits, OnlyOf
<1> QED BY <1>1, <1>2 DEF Fits, Sealed

\* What a call of a device is about to return is new, whatever another does.
LEMMA NewForOthers ==
  ASSUME NEW d, OnlyOf(d), NEW call, call.next.own.owner # d, IsNew(call)
  PROVE  IsNew(call)'
<1>1. ASSUME NEW w \in call.out, w.type = "text"
      PROVE  /\ w.by = call.next.own /\ w.on = call.next.commits /\ w.key < call.next.sent
             /\ \A v \in Texts' : v.by = w.by /\ v.on = w.on => v.key < w.key
             /\ \A v \in call.out : v.type = "text" => v = w
  <2>1. w.by = call.next.own
    BY <1>1 DEF IsNew
  <2>2. \A v \in Texts' : v.by = w.by => v \in Texts
    BY <2>1, TextsOfOthers
  <2> QED BY <1>1, <2>2 DEF IsNew
<1>2. ASSUME NEW x \in call.out, x.type = "shown"
      PROVE  x.to = call.next.own /\ x.text \in call.next.opened /\ x \notin mpShown'
  BY <1>2 DEF IsNew, OnlyOf
<1> QED BY <1>1, <1>2 DEF IsNew

\* The device of a call.
LEMMA CallHasOwner ==
  ASSUME ProviderTypes, NEW d \in Members, NEW c \in Slots, mpCalls[d][c] # NoCall
  PROVE  StateIsOf(mpCalls[d][c].next, d)
BY DEF ProviderTypes, GroupCall, JoinCall

\* A device on which all was well is left so by what another one does.
LEMMA OthersStayTight ==
  ASSUME ProviderTypes, NEW d \in Members, OnlyOf(d),
         NEW e \in Members \ mpLoose', e # d, IsTight(e)
  PROVE  IsTight(e)'
<1>1. /\ mpCalls'[e] = mpCalls[e] /\ mpStore'[e] = mpStore[e]
      /\ \A k : k.owner = e => (k \in mpJoined' <=> k \in mpJoined)
  BY DEF OnlyOf
<1>2. OneCall(e)'
  BY <1>1 DEF IsTight, OneCall
<1>3. CallsFit(e)'
  <2> SUFFICES ASSUME NEW c \in Slots, NEW call, call = mpCalls[e][c], call # NoCall
               PROVE  /\ Fits(call.next)'
                      /\ IsNew(call)'
                      /\ call.step = "return" => mpStore[e] = call.next
                      /\ call.step \in {"save", "return"} => IsJoined(call.next.own)'
                      /\ call.step \in {"check", "join"} => call.by \cap mpJoined' = {}
    BY <1>1 DEF CallsFit
  <2>1. /\ Fits(call.next) /\ IsNew(call)
        /\ call.step = "return" => mpStore[e] = call.next
        /\ call.step \in {"save", "return"} => IsJoined(call.next.own)
        /\ call.step \in {"check", "join"} => call.by \cap mpJoined = {}
    BY DEF IsTight, CallsFit
  <2>2. call.next.own.owner = e
    BY CallHasOwner DEF StateIsOf
  <2>3. Fits(call.next)'
    BY <2>1, <2>2, FitsForOthers
  <2>4. IsNew(call)'
    BY <2>1, <2>2, NewForOthers
  <2>5. IsJoined(call.next.own) => IsJoined(call.next.own)'
    BY <1>1, <2>2 DEF IsJoined
  <2>6. call.step \in {"check", "join"} => \A k \in call.by : k.owner = e
    BY DEF ProviderTypes, GroupCall, JoinCall
  <2>7. call.step \in {"check", "join"} => call.by \cap mpJoined' = {}
    BY <1>1, <2>1, <2>6
  <2> QED BY <2>1, <2>3, <2>4, <2>5, <2>7
<1>4. StoreFits(e)'
  <2> SUFFICES ASSUME NEW s, s = mpStore[e], s # NoState
               PROVE  Fits(s)' /\ IsJoined(s.own)'
    BY <1>1 DEF StoreFits
  <2>1. Fits(s) /\ IsJoined(s.own)
    BY DEF IsTight, StoreFits
  <2>2. s.own.owner = e
    BY DEF ProviderTypes, StateIsOf
  <2> QED BY <1>1, <2>1, <2>2, FitsForOthers DEF IsJoined
<1>5. KeysAreSpent(e)'
  <2> SUFFICES ASSUME NEW k \in KeyPackages, k.owner = e
               PROVE  /\ k \notin mpJoined' => LeafIsUnused(k)'
                      /\ k \in mpJoined' /\ k \in mpPrivate' =>
                           \E c \in Slots : mpCalls[e][c].step = "consume" /\ mpCalls[e][c].by = {k}
    BY <1>1 DEF KeysAreSpent
  <2>1. LeafIsUnused(k) => LeafIsUnused(k)'
    BY TextsOfOthers DEF LeafIsUnused, OnlyOf
  <2> QED BY <1>1, <2>1 DEF IsTight, KeysAreSpent, OnlyOf
<1>6. TextsDiffer(e)'
  <2> SUFFICES ASSUME NEW v \in Texts', NEW w \in Texts',
                      v.by.owner = e, v.by = w.by, v.on = w.on, v.key = w.key
               PROVE  v = w
    BY DEF TextsDiffer, Texts
  <2>1. v \in Texts /\ w \in Texts
    BY TextsOfOthers
  <2> QED BY <2>1 DEF IsTight, TextsDiffer
<1>7. e \notin mpTwice'
  BY DEF IsTight, OnlyOf
<1> QED BY <1>2, <1>3, <1>4, <1>5, <1>6, <1>7 DEF IsTight
-----------------------------------------------------------------------------
(* The types.                                                              *)

\* Groups are not forgotten.
CountGrows ==
  /\ mpCount' \in [commits: Nat, texts: Nat, lost: Nat]
  /\ mpCount.commits <= mpCount'.commits

\* What is rooted stays so.
LEMMA StaysRooted ==
  ASSUME mpCount \in [commits: Nat, texts: Nat, lost: Nat], CountGrows
  PROVE  /\ \A p \in Path : Rooted(p) => Rooted(p)'
         /\ \A w \in Wire : WireIsRooted(w) => WireIsRooted(w)'
         /\ \A s, d : StateIsOf(s, d) => StateIsOf(s, d)'
<1>1. ASSUME NEW p \in Path, Rooted(p)
      PROVE  Rooted(p)'
  BY <1>1, PathHasRoot DEF Rooted, CountGrows
<1>2. ASSUME NEW w \in Wire, WireIsRooted(w)
      PROVE  WireIsRooted(w)'
  <2>1. /\ w.type = "text" => w.on \in Path
        /\ w.type = "commit" => w.on \in Path /\ w.next \in Path
        /\ w.type = "welcome" => w.commits \in Path
    BY KindOfWire DEF Text, CommitWire, Welcome
  <2> QED BY <1>1, <1>2, <2>1 DEF WireIsRooted
<1>3. ASSUME NEW s, NEW d, StateIsOf(s, d)
      PROVE  StateIsOf(s, d)'
  BY <1>1, <1>3, PartsOfState DEF StateIsOf
<1> QED BY <1>1, <1>2, <1>3

\* A call of its device is one still.
LEMMA CallsStayTyped ==
  ASSUME mpCount \in [commits: Nat, texts: Nat, lost: Nat], CountGrows,
         NEW d, NEW call \in Call
  PROVE  /\ GroupCall(call, d) => GroupCall(call, d)'
         /\ JoinCall(call, d) => JoinCall(call, d)'
<1>1. ASSUME NEW w \in call.out, WireIsRooted(w)
      PROVE  WireIsRooted(w)'
  <2>1. w \in Wire \/ w.type = "shown"
    BY PartsOfCall DEF ShownText
  <2>2. CASE w \in Wire
    BY <1>1, <2>2, StaysRooted
  <2>3. CASE w.type = "shown"
    BY <2>3 DEF WireIsRooted
  <2> QED BY <2>1, <2>2, <2>3
<1>2. ASSUME NEW w \in call.out, w.type = "shown"
      PROVE  w.text.on \in Path
  BY <1>2, PartsOfCall, KindOfWire DEF ShownText, Text
<1>3. GroupCall(call, d) => GroupCall(call, d)'
  BY <1>1, <1>2, StaysRooted DEF GroupCall
<1>4. JoinCall(call, d) => JoinCall(call, d)'
  BY StaysRooted DEF JoinCall
<1> QED BY <1>3, <1>4

\* The types hold after a step of a device in which one of its calls changes.
LEMMA TypesKept ==
  ASSUME ProviderTypes, NEW d \in Members, OnlyOf(d), NEW c \in Slots, NEW call \in Call,
         mpCalls' = [mpCalls EXCEPT ![d][c] = call],
         call # NoCall => GroupCall(call, d)' \/ JoinCall(call, d)',
         call.by \subseteq mpPublic, mpPublic' = mpPublic, CountGrows,
         mpStore' = mpStore \/ \E s : StateIsOf(s, d)' /\ mpStore' = [mpStore EXCEPT ![d] = s],
         mpWires' \subseteq Wire, \A w \in mpWires' \ mpWires : WireIsRooted(w)',
         mpShown' \subseteq ShownText, \A x \in mpShown' \ mpShown : Rooted(x.text.on)',
         mpLoose' \subseteq Members, mpJoined' \subseteq mpPublic
  PROVE  ProviderTypes'
<1>0. /\ mpCount \in [commits: Nat, texts: Nat, lost: Nat]
      /\ mpCalls \in [Members -> [Slots -> Call]]
  BY DEF ProviderTypes
<1>1. /\ mpStore' \in [Members -> State \cup {NoState}]
      /\ \A e \in Members : \A s : s = mpStore'[e] /\ s # NoState => StateIsOf(s, e)'
  <2>1. /\ mpStore \in [Members -> State \cup {NoState}]
        /\ \A e \in Members : \A s : s = mpStore[e] /\ s # NoState => StateIsOf(s, e)'
    BY <1>0, StaysRooted DEF ProviderTypes
  <2>2. CASE mpStore' = mpStore
    BY <2>1, <2>2
  <2>3. CASE \E s : StateIsOf(s, d)' /\ mpStore' = [mpStore EXCEPT ![d] = s]
    <3>1. PICK s : StateIsOf(s, d)' /\ mpStore' = [mpStore EXCEPT ![d] = s]
      BY <2>3
    <3>2. s \in State
      BY <3>1 DEF StateIsOf
    <3> QED BY <2>1, <3>1, <3>2
  <2> QED BY <2>2, <2>3
<1>2. /\ mpCalls' \in [Members -> [Slots -> Call]]
      /\ \A e \in Members, b \in Slots : \A x : x = mpCalls'[e][b] /\ x # NoCall =>
           GroupCall(x, e)' \/ JoinCall(x, e)'
      /\ \A e \in Members, b \in Slots : mpCalls'[e][b].by \subseteq mpPublic
  <2>1. /\ mpCalls' \in [Members -> [Slots -> Call]]
        /\ mpCalls'[d][c] = call
        /\ \A e \in Members : e # d => mpCalls'[e] = mpCalls[e]
        /\ \A b \in Slots : b # c => mpCalls'[d][b] = mpCalls[d][b]
    BY <1>0, OneCallChanges
  <2>2. ASSUME NEW e \in Members, NEW b \in Slots, NEW x, x = mpCalls[e][b], x # NoCall
        PROVE  GroupCall(x, e)' \/ JoinCall(x, e)'
    <3>1. x \in Call
      BY <1>0, <2>2
    <3>2. GroupCall(x, e) \/ JoinCall(x, e)
      BY <2>2 DEF ProviderTypes
    <3> QED BY <1>0, <3>1, <3>2, CallsStayTyped
  <2>3. \A e \in Members, b \in Slots : mpCalls[e][b].by \subseteq mpPublic
    BY DEF ProviderTypes
  <2> QED BY <2>1, <2>2, <2>3
<1>3. \A w \in mpWires' : WireIsRooted(w)'
  BY <1>0, StaysRooted DEF ProviderTypes
<1>4. \A x \in mpShown' : Rooted(x.text.on)'
  <2>1. \A x \in mpShown : x.text.on \in Path
    BY DEF ProviderTypes, ShownText, Text
  <2> QED BY <1>0, <2>1, StaysRooted DEF ProviderTypes
<1> QED BY <1>1, <1>2, <1>3, <1>4 DEF ProviderTypes, OnlyOf, CountGrows
-----------------------------------------------------------------------------
(* Calls begin.                                                            *)

\* A lock of the group or of a key package.
IsLock(lock) == lock = GroupLock \/ \E k \in KeyPackages : lock = {k.id}

\* A device that is not loose begins a call only when it has none.
LEMMA BeginsAlone ==
  ASSUME ProviderTypes, NEW d \in Members, NEW c \in Slots, NEW lock, IsLock(lock),
         NEW step, NEW next, NEW out, NEW by, Begins(d, c, lock, step, next, out, by),
         d \notin mpLoose', NEW b \in Slots
  PROVE  mpCalls[d][b] = NoCall
<1> SUFFICES ASSUME b # c, mpCalls[d][b] # NoCall
             PROVE  FALSE
  BY DEF Begins
<1>1. lock \cup mpCalls[d][b].lock = GroupLock /\ mpCalls[d][b].lock # lock
  BY DEF Begins, LockFree
<1>2. IsLock(mpCalls[d][b].lock)
  BY DEF ProviderTypes, GroupCall, JoinCall, IsLock
<1>3. \A k \in KeyPackages : k.id # 0
  BY MlsProviderAssumption
<1> QED BY <1>1, <1>2, <1>3 DEF IsLock, GroupLock

\* The device on which a call begins that fits is as well as it was.
LEMMA BeginsTight ==
  ASSUME ProviderTypes, NEW d \in Members, NEW c \in Slots, IsTight(d),
         NEW call \in Call, call # NoCall, call.step \in {"save", "check"},
         mpCalls' = [mpCalls EXCEPT ![d][c] = call],
         \A b \in Slots : mpCalls[d][b] = NoCall,
         UNCHANGED <<mpStore, mpPrivate, mpWires>>, Unheard,
         Fits(call.next), IsNew(call), call.step = "save" => IsJoined(call.next.own),
         call.step = "check" => call.by \cap mpJoined = {}
  PROVE  IsTight(d)'
<1>1. /\ mpCalls'[d][c] = call
      /\ \A b \in Slots : b # c => mpCalls'[d][b] = NoCall
  BY OneCallChanges DEF ProviderTypes
<1>2. Texts' = Texts
  BY DEF Texts
<1>3. OneCall(d)'
  BY <1>1 DEF OneCall
<1>4. CallsFit(d)'
  <2>1. Fits(call.next)' /\ IsNew(call)' /\ (IsJoined(call.next.own) => IsJoined(call.next.own)')
    BY <1>2 DEF Fits, Sealed, IsNew, IsJoined, Unheard
  <2> QED BY <1>1, <2>1 DEF CallsFit, Unheard
<1>5. StoreFits(d)'
  BY <1>2 DEF StoreFits, Fits, Sealed, IsJoined, IsTight, Unheard
<1>6. KeysAreSpent(d)'
  <2>1. \A b \in Slots : mpCalls[d][b].step # "consume"
    BY NoCallIsCall
  <2> QED BY <1>2, <2>1 DEF KeysAreSpent, LeafIsUnused, IsTight, Unheard
<1>7. TextsDiffer(d)'
  BY <1>2 DEF TextsDiffer, IsTight
<1> QED BY <1>3, <1>4, <1>5, <1>6, <1>7 DEF IsTight, Unheard

\* All is well after a call has begun that fits.
LEMMA BeginsWell ==
  ASSUME ProviderInv, NEW d \in Members, NEW c \in Slots, NEW lock \in SUBSET Nat, IsLock(lock),
         NEW step \in {"save", "check"}, NEW next \in State,
         NEW out \in SUBSET (Wire \cup ShownText), NEW by \in SUBSET KeyPackages,
         Begins(d, c, lock, step, next, out, by), NEW call,
         call = [lock |-> lock, step |-> step, next |-> next, out |-> out, by |-> by],
         GroupCall(call, d)' \/ JoinCall(call, d)', by \subseteq mpPublic,
         UNCHANGED <<mpStore, mpPrivate, mpPublic, mpWires>>, Unheard, CountGrows,
         d \notin mpLoose' =>
           /\ Fits(next) /\ IsNew(call) /\ (step = "save" => IsJoined(next.own))
           /\ step = "check" => by \cap mpJoined = {}
  PROVE  ProviderInv'
<1>1. /\ call \in Call /\ call # NoCall /\ call.step = step /\ call.next = next
      /\ call.by = by
  BY CallBegins
<1>2. mpCalls' = [mpCalls EXCEPT ![d][c] = call] /\ mpLoose \subseteq mpLoose'
      /\ mpLoose' \subseteq mpLoose \cup {d}
  BY DEF Begins
<1>3. ProviderTypes
  BY DEF ProviderInv
<1>4. OnlyOf(d)
  BY <1>1, <1>2, <1>3, OneCallChanges DEF OnlyOf, ProviderTypes, Unheard
<1>5. ProviderTypes'
  BY <1>1, <1>2, <1>3, <1>4, TypesKept DEF ProviderTypes, Unheard
<1>6. ASSUME NEW e \in Members \ mpLoose'
      PROVE  IsTight(e)'
  <2>1. IsTight(e)
    BY <1>2 DEF ProviderInv
  <2>2. CASE e # d
    BY <1>3, <1>4, <2>1, <2>2, OthersStayTight
  <2>3. CASE e = d
    <3>1. \A b \in Slots : mpCalls[d][b] = NoCall
      BY <1>3, <2>3, BeginsAlone
    <3> QED BY <1>1, <1>2, <1>3, <2>1, <2>3, <3>1, BeginsTight
  <2> QED BY <2>2, <2>3
<1> QED BY <1>5, <1>6 DEF ProviderInv
\* All is well after a call of the group has begun that fits.
LEMMA GroupCallBegins ==
  ASSUME ProviderInv, NEW d \in Members, NEW c \in Slots, NEW next, NEW out,
         Begins(d, c, GroupLock, "save", next, out, {}),
         StateIsOf(next, d)', out \in SUBSET (Wire \cup ShownText),
         \A w \in out : /\ WireIsRooted(w)'
                        /\ w.type = "text" => w.by.owner = d
                        /\ w.type = "shown" => w.to.owner = d /\ Rooted(w.text.on)',
         UNCHANGED <<mpStore, mpPrivate, mpPublic, mpWires>>, Unheard, CountGrows,
         d \notin mpLoose =>
           Fits(next) /\ IsJoined(next.own)
           /\ IsNew([lock |-> GroupLock, step |-> "save", next |-> next, out |-> out, by |-> {}])
  PROVE  ProviderInv'
<1>1. PICK call :
        call = [lock |-> GroupLock, step |-> "save", next |-> next, out |-> out, by |-> {}]
  OBVIOUS
<1>2. /\ next \in State /\ GroupLock \in SUBSET Nat
  BY DEF StateIsOf, GroupLock
<1>3. /\ call.lock = GroupLock /\ call.by = {} /\ call.step = "save" /\ call.next = next
      /\ call.out = out
  BY <1>1
<1>4. GroupCall(call, d)'
  BY <1>3 DEF GroupCall
<1>5. mpLoose \subseteq mpLoose'
  BY DEF Begins
<1>6. IsLock(GroupLock) /\ {} \in SUBSET KeyPackages /\ {} \subseteq mpPublic
  BY DEF IsLock
<1>7. d \notin mpLoose' => Fits(next) /\ IsNew(call) /\ IsJoined(next.own)
  BY <1>1, <1>5
<1>8. "save" \in {"save", "check"} /\ "save" # "check"
  OBVIOUS
<1> QED BY ZenonT(40), <1>1, <1>2, <1>4, <1>6, <1>7, <1>8, BeginsWell

\* What a call of the group loads.
LEMMA WhatIsLoaded ==
  ASSUME ProviderInv, NEW d \in Members, NEW s \in Loaded(d)
  PROVE  /\ s = mpStore[d] /\ s \in State /\ StateIsOf(s, d) /\ Rooted(s.commits)
         /\ d \notin mpLoose => Fits(s) /\ IsJoined(s.own)
BY DEF Loaded, ProviderInv, ProviderTypes, StateIsOf, IsTight, StoreFits

\* What has been counted, and that counting goes up.
LEMMA CountIsTyped ==
  ASSUME ProviderInv
  PROVE  /\ mpCount \in [commits: Nat, texts: Nat, lost: Nat]
         /\ mpCount.commits \in Nat /\ mpCount.texts \in Nat
         /\ CountCommit => CountGrows /\ mpCount'.commits = mpCount.commits + 1
         /\ UNCHANGED mpCount => CountGrows
BY DEF ProviderInv, ProviderTypes, CountCommit, CountGrows

\* What was sent is of the groups there have been.
LEMMA TextsAreRooted ==
  ASSUME ProviderInv
  PROVE  /\ \A w \in Texts : w \in Text /\ w.on[1] <= mpCount.commits
         /\ \A x \in mpShown : x.text \in Text /\ x.text.on[1] <= mpCount.commits
<1>1. \A w \in Texts : w \in Text /\ WireIsRooted(w)
  BY KindOfWire DEF Texts, ProviderInv, ProviderTypes
<1>2. \A x \in mpShown : x.text \in Text
  BY DEF ProviderInv, ProviderTypes, ShownText
<1> QED BY <1>1, <1>2 DEF WireIsRooted, Rooted, Texts, ProviderInv, ProviderTypes

\* A new group has a number that nothing sent so far was sent in.
LEMMA CreateGroupKeepsInv ==
  ASSUME ProviderInv, NEW d \in Members, NEW c \in Slots, CreateGroup(d, c)
  PROVE  ProviderInv'
<1>1. PICK n : n = NextCommit
  OBVIOUS
<1>2. /\ n \in Nat /\ mpCount.commits < n /\ mpCount'.commits = n /\ CountGrows
  BY <1>1, CountIsTyped DEF NextCommit, CreateGroup
<1>3. PICK next : next = StateAt(<<n>>, {CreatorLeaf(d)}, CreatorLeaf(d))
  OBVIOUS
<1>4. <<n>> \in Path /\ <<n>>[1] = n
  BY <1>2 DEF Path
<1>5. /\ CreatorLeaf(d) \in Leaf /\ {CreatorLeaf(d)} \in SUBSET Leaf 
      /\ CreatorLeaf(d).owner = d /\ CreatorLeaf(d).id = 0
  BY DEF CreatorLeaf, Leaf
<1>6. /\ next \in State /\ next.commits = <<n>> /\ next.own = CreatorLeaf(d)
  <2>1. PICK p, own, leaves : p = <<n>> /\ own = CreatorLeaf(d) /\ leaves = {CreatorLeaf(d)}
    OBVIOUS
  <2>2. p \in Path /\ own \in Leaf /\ leaves \in SUBSET Leaf /\ next = StateAt(p, leaves, own)
    BY <1>3, <1>4, <1>5, <2>1
  <2>3. next \in State /\ next.commits = p /\ next.own = own
    BY SMTT(30), <2>2, StateBegins
  <2> QED BY <2>1, <2>3
<1>7. StateIsOf(next, d)'
  BY <1>2, <1>4, <1>5, <1>6 DEF StateIsOf, Rooted
<1>8. Fits(next)
  <2>1. next.commits[1] = n
    BY <1>4, <1>6
  <2>2. \A w \in Texts : w.on[1] # n
    BY <1>2, TextsAreRooted, CountIsTyped
  <2>3. \A x \in mpShown : x.text.on[1] # n
    BY <1>2, TextsAreRooted, CountIsTyped
  <2> QED BY <2>1, <2>2, <2>3 DEF Fits, Sealed
<1>9. IsJoined(next.own)
  BY <1>5, <1>6, MlsProviderAssumption DEF IsJoined
<1>10. /\ Begins(d, c, GroupLock, "save", next, {}, {})
       /\ Unheard /\ UNCHANGED <<mpStore, mpPrivate, mpPublic, mpWires>>
  BY <1>1, <1>3 DEF CreateGroup
<1>11. IsNew([lock |-> GroupLock, step |-> "save", next |-> next, out |-> {}, by |-> {}])
  BY DEF IsNew
<1> QED BY <1>2, <1>7, <1>8, <1>9, <1>10, <1>11, GroupCallBegins
\* The state that is one commit further fits as the one before it did.
LEMMA FitsOneFurther ==
  ASSUME ProviderInv, NEW s \in State, NEW t \in State, Fits(s),
         t.own = s.own, t.opened = s.opened, t.commits[1] = s.commits[1],
         Len(t.commits) = Len(s.commits) + 1
  PROVE  Fits(t)
<1>1. Len(s.commits) \in Nat
  BY PathHasRoot, PartsOfState
<1>2. \A w \in Texts : Len(w.on) \in Nat
  BY TextsAreRooted, PathHasRoot DEF Text
<1>3. \A w \in Texts : Sealed(w, s) => Sealed(w, t)
  BY <1>1, <1>2 DEF Sealed
<1> QED BY <1>3 DEF Fits

\* Key packages may be leaves.
LEMMA KeyPackagesAreLeaves ==
  /\ KeyPackages \subseteq Leaf
  /\ \A m \in Members : CreatorLeaf(m) \in Leaf
BY MlsProviderAssumption DEF Leaf, CreatorLeaf

\* A commit leaves the epoch, so that its keys are used no more.
LEMMA CommitKeepsInv ==
  ASSUME ProviderInv, NEW d \in Members, NEW c \in Slots,
         NEW added \in SUBSET Leaf, NEW removed \in SUBSET Leaf, Commit(d, c, added, removed)
  PROVE  ProviderInv'
<1>1. PICK n : n = NextCommit
  OBVIOUS
<1>2. PICK s, next, commit, welcome, out :
        /\ s \in Loaded(d)
        /\ next = [s EXCEPT !.commits = Append(s.commits, n), !.sent = 0,
                            !.leaves = (s.leaves \cup added) \ removed]
        /\ commit = [type |-> "commit", on |-> s.commits, by |-> s.own,
                     next |-> next.commits, leaves |-> next.leaves]
        /\ welcome = [type |-> "welcome", to |-> added, commits |-> next.commits,
                      leaves |-> next.leaves]
        /\ out = {commit} \cup (IF added = {} THEN {} ELSE {welcome})
        /\ CountCommit /\ Begins(d, c, GroupLock, "save", next, out, {})
        /\ Unheard /\ UNCHANGED <<mpStore, mpPrivate, mpPublic, mpWires>>
  BY <1>1 DEF Commit
<1>3. /\ s \in State /\ StateIsOf(s, d) /\ Rooted(s.commits)
      /\ d \notin mpLoose => Fits(s) /\ IsJoined(s.own)
  BY <1>2, WhatIsLoaded
<1>4. /\ n \in Nat /\ mpCount.commits < n /\ mpCount'.commits = n /\ CountGrows
  BY <1>1, <1>2, CountIsTyped DEF NextCommit
<1>5. s.commits \in Path /\ s.leaves \subseteq Leaf /\ s.own \in Leaf /\ s.own.owner = d
  BY <1>3, PartsOfState DEF StateIsOf
<1>6. PICK path, leaves : path = Append(s.commits, n) /\ leaves = (s.leaves \cup added) \ removed
  OBVIOUS
<1>7. path \in Path /\ path[1] = s.commits[1] /\ Len(path) = Len(s.commits) + 1
  BY <1>4, <1>5, <1>6, PathGrows
<1>8. leaves \in SUBSET Leaf /\ next = [s EXCEPT !.commits = path, !.sent = 0, !.leaves = leaves]
  BY <1>2, <1>5, <1>6
<1>9. /\ next \in State /\ next.commits = path /\ next.own = s.own /\ next.opened = s.opened
      /\ next.leaves = leaves
  BY <1>3, <1>7, <1>8 DEF State
<1>10. Rooted(path)' /\ Rooted(s.commits)'
  BY <1>3, <1>4, <1>5, <1>7, StaysRooted, CountIsTyped DEF Rooted
<1>11. StateIsOf(next, d)'
  BY <1>5, <1>9, <1>10 DEF StateIsOf
<1>12. /\ commit \in CommitWire /\ commit.type = "commit" /\ commit.on = s.commits
       /\ commit.next = path
  BY <1>2, <1>5, <1>7, <1>8, <1>9 DEF CommitWire
<1>13. /\ welcome \in Welcome /\ welcome.type = "welcome" /\ welcome.commits = path
  BY <1>2, <1>5, <1>7, <1>8, <1>9 DEF Welcome
<1>14. out \subseteq {commit, welcome} /\ out \in SUBSET (Wire \cup ShownText)
  BY <1>2, <1>12, <1>13 DEF Wire
<1>15. \A w \in out : WireIsRooted(w)' /\ w.type # "text" /\ w.type # "shown"
  BY <1>7, <1>10, <1>12, <1>13, <1>14 DEF WireIsRooted
<1>16. IsNew([lock |-> GroupLock, step |-> "save", next |-> next, out |-> out, by |-> {}])
  BY <1>15 DEF IsNew
<1>17. d \notin mpLoose => Fits(next) /\ IsJoined(next.own)
  BY <1>3, <1>7, <1>9, FitsOneFurther
<1> QED BY <1>2, <1>4, <1>11, <1>14, <1>15, <1>16, <1>17, GroupCallBegins

\* A message is sealed with a key behind all those the leaf used in the epoch.
LEMMA EncryptKeepsInv ==
  ASSUME ProviderInv, NEW d \in Members, NEW c \in Slots, EncryptApplicationMessage(d, c)
  PROVE  ProviderInv'
<1>1. PICK s, next, text, out :
        /\ s \in Loaded(d)
        /\ next = [s EXCEPT !.sent = s.sent + 1]
        /\ text = [type |-> "text", on |-> s.commits, by |-> s.own, key |-> s.sent,
                   id |-> mpCount.texts + 1]
        /\ out = {text}
        /\ mpCount' = [mpCount EXCEPT !.texts = @ + 1]
        /\ Begins(d, c, GroupLock, "save", next, out, {})
        /\ Unheard /\ UNCHANGED <<mpStore, mpPrivate, mpPublic, mpWires>>
  BY DEF EncryptApplicationMessage
<1>2. /\ s \in State /\ StateIsOf(s, d)
      /\ d \notin mpLoose => Fits(s) /\ IsJoined(s.own)
  BY <1>1, WhatIsLoaded
<1>3. s.commits \in Path /\ s.own \in Leaf /\ s.own.owner = d /\ s.sent \in Nat
  BY <1>2, PartsOfState DEF StateIsOf
<1>4. CountGrows
  BY <1>1, CountIsTyped DEF CountGrows
<1>5. /\ next \in State /\ next.commits = s.commits /\ next.own = s.own
      /\ next.sent = s.sent + 1 /\ next.opened = s.opened
  BY <1>1, <1>2, StateSends
<1>6. StateIsOf(s, d)' /\ StateIsOf(next, d)'
  BY <1>2, <1>4, <1>5, StaysRooted, CountIsTyped DEF StateIsOf
<1>7. /\ text \in Text /\ text.type = "text" /\ text.on = s.commits /\ text.by = s.own
      /\ text.key = s.sent
  BY <1>1, <1>3, CountIsTyped DEF Text
<1>8. out \in SUBSET (Wire \cup ShownText)
  BY <1>1, <1>7 DEF Wire
<1>9. \A w \in out : WireIsRooted(w)' /\ w.by.owner = d /\ w.type # "shown"
  BY <1>1, <1>3, <1>6, <1>7 DEF WireIsRooted, StateIsOf
<1>10. ASSUME Fits(s)
       PROVE  /\ Fits(next)
              /\ \A v \in Texts : v.by = text.by /\ v.on = text.on => v.key < text.key
  <2>1. \A v \in Texts : v.key \in Nat /\ Len(v.on) \in Nat
    BY TextsAreRooted, PathHasRoot DEF Text
  <2>2. \A v \in Texts : Sealed(v, s) => Sealed(v, next)
    BY <1>3, <1>5, <2>1 DEF Sealed
  <2>3. \A v \in Texts : v.on = s.commits /\ Sealed(v, s) => v.key < s.sent
    BY <2>1 DEF Sealed
  <2>4. Fits(next)
    BY <1>5, <1>10, <2>2 DEF Fits
  <2> QED BY <1>7, <1>10, <2>3, <2>4 DEF Fits
<1>11. Fits(s) => IsNew([lock |-> GroupLock, step |-> "save", next |-> next, out |-> out,
                         by |-> {}])
  <2>1. PICK call :
          call = [lock |-> GroupLock, step |-> "save", next |-> next, out |-> out, by |-> {}]
    OBVIOUS
  <2>2. call.next = next /\ \A w \in call.out : w = text
    BY <1>1, <2>1
  <2>3. text.key < next.sent
    BY <1>3, <1>5, <1>7
  <2>4. Fits(s) => IsNew(call)
    BY <1>5, <1>7, <1>10, <2>2, <2>3 DEF IsNew
  <2> QED BY <2>1, <2>4
<1>12. IsJoined(s.own) => IsJoined(next.own)
  BY <1>5
<1> QED BY <1>1, <1>2, <1>4, <1>6, <1>8, <1>9, <1>10, <1>11, <1>12, GroupCallBegins

\* A commit that is taken leaves the epoch too.
LEMMA ProcessCommitKeepsInv ==
  ASSUME ProviderInv, NEW d \in Members, NEW c \in Slots, NEW w \in mpWires,
         ProcessCommit(d, c, w)
  PROVE  ProviderInv'
<1>1. PICK s, next, out :
        /\ s \in Loaded(d)
        /\ w.type = "commit" /\ w.on = s.commits
        /\ next = [s EXCEPT !.commits = w.next, !.leaves = w.leaves,
                            !.active = s.own \in w.leaves, !.sent = 0]
        /\ out = {} /\ Begins(d, c, GroupLock, "save", next, out, {})
        /\ Unheard /\ UNCHANGED <<mpStore, mpPrivate, mpPublic, mpWires, mpCount>>
  BY DEF ProcessCommit
<1>2. /\ s \in State /\ StateIsOf(s, d)
      /\ d \notin mpLoose => Fits(s) /\ IsJoined(s.own)
  BY <1>1, WhatIsLoaded
<1>3. CountGrows
  BY <1>1, CountIsTyped
<1>4. /\ w \in CommitWire /\ WireIsRooted(w)
  BY <1>1, KindOfWire DEF ProviderInv, ProviderTypes
<1>5. /\ w.next \in Path /\ w.leaves \in SUBSET Leaf /\ Rooted(w.next)
      /\ w.next[1] = s.commits[1] /\ Len(w.next) = Len(s.commits) + 1
  BY <1>1, <1>4 DEF CommitWire, WireIsRooted
<1>6. /\ next \in State /\ next.commits = w.next /\ next.own = s.own /\ next.opened = s.opened
  <2>1. PICK path, leaves, active :
          path = w.next /\ leaves = w.leaves /\ active = (s.own \in w.leaves)
    OBVIOUS
  <2>2. path \in Path /\ leaves \in SUBSET Leaf /\ active \in BOOLEAN
    BY <1>5, <2>1
  <2>3. next = [s EXCEPT !.commits = path, !.leaves = leaves, !.active = active, !.sent = 0]
    BY <1>1, <2>1
  <2> QED BY <1>2, <2>1, <2>2, <2>3 DEF State
<1>7. StateIsOf(next, d)'
  BY <1>2, <1>3, <1>5, <1>6, StaysRooted, CountIsTyped DEF StateIsOf
<1>8. IsNew([lock |-> GroupLock, step |-> "save", next |-> next, out |-> out, by |-> {}])
  BY <1>1 DEF IsNew
<1>9. d \notin mpLoose => Fits(next) /\ IsJoined(next.own)
  BY <1>2, <1>5, <1>6, FitsOneFurther
<1>10. out \in SUBSET (Wire \cup ShownText) /\ \A x \in out : FALSE
  BY <1>1
<1> QED BY <1>1, <1>3, <1>10, <1>7, <1>8, <1>9, GroupCallBegins

\* A message that opens has not been shown, or the state would know it.
LEMMA ProcessTextKeepsInv ==
  ASSUME ProviderInv, NEW d \in Members, NEW c \in Slots, NEW w \in mpWires,
         ProcessText(d, c, w)
  PROVE  ProviderInv'
<1>1. PICK s, next, shown, out :
        /\ s \in Loaded(d)
        /\ w.type = "text" /\ IsPrefix(w.on, s.commits) /\ w \notin s.opened
        /\ next = [s EXCEPT !.opened = s.opened \cup {w}]
        /\ shown = [type |-> "shown", to |-> s.own, text |-> w]
        /\ out = {shown}
        /\ Begins(d, c, GroupLock, "save", next, out, {})
        /\ Unheard /\ UNCHANGED <<mpStore, mpPrivate, mpPublic, mpWires, mpCount>>
  BY DEF ProcessText
<1>2. /\ s \in State /\ StateIsOf(s, d)
      /\ d \notin mpLoose => Fits(s) /\ IsJoined(s.own)
  BY <1>1, WhatIsLoaded
<1>3. CountGrows
  BY <1>1, CountIsTyped
<1>4. /\ w \in Text /\ WireIsRooted(w)
  BY <1>1, KindOfWire DEF ProviderInv, ProviderTypes
<1>5. /\ s.commits \in Path /\ s.own \in Leaf /\ s.own.owner = d
      /\ w.on \in Path /\ w.on[1] = s.commits[1] /\ Rooted(w.on)
  BY <1>1, <1>2, <1>4, PartsOfState, PrefixHasRoot DEF StateIsOf, Text, WireIsRooted
<1>6. /\ next \in State /\ next.commits = s.commits /\ next.own = s.own
      /\ next.sent = s.sent /\ next.opened = s.opened \cup {w}
  BY <1>1, <1>2, <1>4, StateOpens
<1>7. StateIsOf(next, d)' /\ Rooted(w.on)'
  BY <1>2, <1>3, <1>5, <1>6, StaysRooted, CountIsTyped DEF StateIsOf
<1>8. /\ shown \in ShownText /\ shown.type = "shown" /\ shown.to = s.own /\ shown.text = w
  BY <1>1, <1>4, <1>5 DEF ShownText
<1>9. out \in SUBSET (Wire \cup ShownText)
  BY <1>1, <1>8
<1>10. \A x \in out : WireIsRooted(x)' /\ x.type = "shown" /\ x.to.owner = d
                       /\ Rooted(x.text.on)'
  BY <1>1, <1>5, <1>7, <1>8 DEF WireIsRooted
<1>11. ASSUME Fits(s)
       PROVE  Fits(next) /\ shown \notin mpShown
  BY <1>1, <1>5, <1>6, <1>8, <1>11 DEF Fits, Sealed
<1>12. Fits(s) => IsNew([lock |-> GroupLock, step |-> "save", next |-> next, out |-> out,
                         by |-> {}])
  BY <1>1, <1>6, <1>8, <1>11 DEF IsNew
<1>13. IsJoined(s.own) => IsJoined(next.own)
  BY <1>6
<1> QED BY <1>1, <1>2, <1>3, <1>7, <1>9, <1>13, <1>10, <1>11, <1>12, GroupCallBegins
-----------------------------------------------------------------------------
(* Calls go on and end.                                                    *)

\* All is well after a step of a device that leaves the device so.
LEMMA StepsWell ==
  ASSUME ProviderInv, NEW d \in Members, OnlyOf(d), ProviderTypes',
         d \notin mpLoose' => IsTight(d)'
  PROVE  ProviderInv'
<1>1. ASSUME NEW e \in Members \ mpLoose'
      PROVE  IsTight(e)'
  <2>1. e # d => IsTight(e)'
    BY OthersStayTight DEF ProviderInv, OnlyOf
  <2> QED BY <2>1
<1> QED BY <1>1 DEF ProviderInv

\* The call of a device that has a step to take, and that it has no other one.
LEMMA TheCall ==
  ASSUME ProviderTypes, NEW d \in Members, NEW c \in Slots, mpCalls[d][c].step # "idle"
  PROVE  /\ mpCalls[d][c] # NoCall /\ mpCalls[d][c] \in Call
         /\ StateIsOf(mpCalls[d][c].next, d)
         /\ mpCalls[d][c].step \in {"save", "return"} => GroupCall(mpCalls[d][c], d)
         /\ mpCalls[d][c].step \in {"check", "join", "consume"} => JoinCall(mpCalls[d][c], d)
         /\ IsTight(d) => \A b \in Slots : b # c => mpCalls[d][b] = NoCall
BY CallHasOwner, NoCallIsCall DEF ProviderTypes, GroupCall, JoinCall, IsTight, OneCall

\* A device on which a call ends is as well as it was.
LEMMA EndsTight ==
  ASSUME ProviderTypes, NEW d \in Members, NEW c \in Slots, IsTight(d),
         mpCalls[d][c].step # "idle", mpCalls' = [mpCalls EXCEPT ![d][c] = NoCall],
         UNCHANGED <<mpStore, mpWires, mpShown, mpJoined, mpTwice>>,
         mpPrivate' \subseteq mpPrivate,
         mpCalls[d][c].step = "consume" => mpPrivate' \cap mpCalls[d][c].by = {}
  PROVE  IsTight(d)'
<1>1. \A b \in Slots : mpCalls'[d][b] = NoCall /\ (b # c => mpCalls[d][b] = NoCall)
  BY TheCall, OneCallChanges, NoCallIsCall DEF ProviderTypes
<1>2. Texts' = Texts
  BY DEF Texts
<1>3. OneCall(d)' /\ CallsFit(d)'
  BY <1>1 DEF OneCall, CallsFit
<1>4. StoreFits(d)'
  BY <1>2 DEF StoreFits, Fits, Sealed, IsJoined, IsTight
<1>5. KeysAreSpent(d)'
  <2>1. \A b \in Slots : mpCalls[d][b].step = "consume" => b = c
    BY <1>1, NoCallIsCall
  <2> QED BY <1>2, <2>1 DEF KeysAreSpent, LeafIsUnused, IsTight
<1>6. TextsDiffer(d)'
  BY <1>2 DEF TextsDiffer, IsTight
<1> QED BY <1>3, <1>4, <1>5, <1>6 DEF IsTight

\* All is well after a call has ended that said nothing.
LEMMA EndsWell ==
  ASSUME ProviderInv, NEW d \in Members, NEW c \in Slots,
         mpCalls[d][c].step # "idle", Ends(d, c), CountGrows,
         UNCHANGED <<mpStore, mpPublic, mpWires, mpShown, mpJoined, mpTwice>>,
         mpPrivate' \subseteq mpPrivate, mpLoose' \in {mpLoose, mpLoose \cup {d}},
         d \notin mpLoose' /\ mpCalls[d][c].step = "consume" =>
           mpPrivate' \cap mpCalls[d][c].by = {}
  PROVE  ProviderInv'
<1>1. ProviderTypes /\ mpCalls' = [mpCalls EXCEPT ![d][c] = NoCall]
  BY DEF ProviderInv, Ends
<1>2. OnlyOf(d)
  BY <1>1, OneCallChanges, NoCallIsCall DEF OnlyOf, ProviderTypes
<1>3. ProviderTypes'
  BY <1>1, <1>2, TypesKept, NoCallIsCall DEF ProviderTypes
<1>4. d \notin mpLoose' => IsTight(d)'
  BY <1>1, EndsTight DEF ProviderInv
<1> QED BY <1>2, <1>3, <1>4, StepsWell

\* A call that is lost takes nothing back, and makes loose who lost it after a join.
LEMMA CallIsLostKeepsInv ==
  ASSUME ProviderInv, NEW d \in Members, NEW c \in Slots, CallIsLost(d, c)
  PROVE  ProviderInv'
<1>1. mpCalls[d][c].step # "idle"
  BY DEF CallIsLost, ProviderInv, ProviderTypes, GroupCall, JoinCall
<1>2. CountGrows
  BY CountIsTyped DEF CallIsLost, CountGrows
<1> QED BY <1>1, <1>2, EndsWell DEF CallIsLost, Unheard

\* The key package that was joined by is gone.
LEMMA JoinConsumesKeepsInv ==
  ASSUME ProviderInv, NEW d \in Members, NEW c \in Slots, JoinConsumes(d, c)
  PROVE  ProviderInv'
BY EndsWell, CountIsTyped DEF JoinConsumes, mpHistory

\* All is well after a call has gone on to its next step: the state is saved, a join has
\* found none, or has saved the one it joins with.
LEMMA CallStepsOn ==
  ASSUME ProviderInv, NEW d \in Members, NEW c \in Slots, NEW step, CountGrows,
         mpCalls' = [mpCalls EXCEPT ![d][c].step = step],
         UNCHANGED <<mpPrivate, mpPublic, mpWires, mpShown, mpLoose>>,
         \/ /\ mpCalls[d][c].step = "check" /\ step = "join"
            /\ UNCHANGED <<mpStore, mpJoined, mpTwice>>
         \/ /\ mpCalls[d][c].step = "save" /\ step = "return"
            /\ mpStore' = [mpStore EXCEPT ![d] = mpCalls[d][c].next]
            /\ UNCHANGED <<mpJoined, mpTwice>>
         \/ /\ mpCalls[d][c].step = "join" /\ step = "consume"
            /\ mpStore' = [mpStore EXCEPT ![d] = mpCalls[d][c].next]
            /\ mpJoined' = mpJoined \cup mpCalls[d][c].by
            /\ mpTwice' = IF mpCalls[d][c].by \cap mpJoined # {} THEN mpTwice \cup {d}
                          ELSE mpTwice
  PROVE  ProviderInv'
<1>1. PICK call, goes : call = mpCalls[d][c] /\ goes = [call EXCEPT !.step = step]
  OBVIOUS
<1>2. /\ ProviderTypes /\ mpCalls \in [Members -> [Slots -> Call]]
      /\ mpStore \in [Members -> State \cup {NoState}]
  BY DEF ProviderInv, ProviderTypes
<1>3. /\ call \in Call /\ call # NoCall /\ StateIsOf(call.next, d)
      /\ call.step = "save" => GroupCall(call, d)
      /\ call.step \in {"check", "join"} => JoinCall(call, d)
      /\ IsTight(d) => \A b \in Slots : b # c => mpCalls[d][b] = NoCall
  BY <1>1, <1>2, TheCall
<1>4. /\ goes \in Call /\ goes.lock = call.lock /\ goes.step = step /\ goes.next = call.next
      /\ goes.out = call.out /\ goes.by = call.by
  BY <1>1, <1>3 DEF Call
<1>5. mpCalls' = [mpCalls EXCEPT ![d][c] = goes]
  BY <1>1, <1>2, OneStepChanges
<1>6. GroupCall(goes, d) \/ JoinCall(goes, d)
  <2>1. CASE call.step = "save" /\ step = "return"
    BY <1>3, <1>4, <2>1 DEF GroupCall
  <2>2. CASE call.step \in {"check", "join"} /\ step \in {"join", "consume"}
    BY <1>3, <1>4, <2>2 DEF JoinCall
  <2> QED BY <1>1, <2>1, <2>2
<1>7. GroupCall(goes, d)' \/ JoinCall(goes, d)'
  BY <1>4, <1>6, CallsStayTyped, CountIsTyped
<1>8. StateIsOf(call.next, d)'
  BY <1>3, StaysRooted, CountIsTyped
<1>9. call.by \subseteq mpPublic /\ (call.step = "join" => \A k \in call.by : k.owner = d)
  BY <1>1, <1>2, <1>3 DEF ProviderTypes, JoinCall
<1>10. /\ mpCalls'[d][c] = goes
       /\ \A e \in Members : e # d => mpCalls'[e] = mpCalls[e]
       /\ \A b \in Slots : b # c => mpCalls'[d][b] = mpCalls[d][b]
  BY <1>2, <1>4, <1>5, OneCallChanges
<1>11. OnlyOf(d)
  BY <1>1, <1>2, <1>9, <1>10 DEF OnlyOf
<1>12. ProviderTypes'
  <2>1. \/ mpStore' = mpStore
        \/ \E s : StateIsOf(s, d)' /\ mpStore' = [mpStore EXCEPT ![d] = s]
    BY <1>1, <1>8
  <2>2. mpJoined' \subseteq mpPublic /\ mpWires' \subseteq Wire /\ mpShown' \subseteq ShownText
        /\ mpLoose' \subseteq Members
    BY <1>1, <1>2, <1>9 DEF ProviderTypes
  <2>3. /\ \A w \in mpWires' \ mpWires : WireIsRooted(w)'
        /\ \A x \in mpShown' \ mpShown : Rooted(x.text.on)'
        /\ goes.by \subseteq mpPublic /\ mpPublic' = mpPublic
    BY <1>4, <1>9
  <2> QED BY ZenonT(90), <1>2, <1>4, <1>5, <1>7, <1>11, <2>1, <2>2, <2>3, TypesKept
<1>13. ASSUME d \notin mpLoose
       PROVE  IsTight(d)'
  <2>1. /\ IsTight(d) /\ \A b \in Slots : b # c => mpCalls'[d][b] = NoCall
    BY <1>3, <1>10, <1>13 DEF ProviderInv
  <2>2. Texts' = Texts
    BY DEF Texts
  <2>3. /\ Fits(call.next) /\ IsNew(call)
        /\ call.step = "save" => IsJoined(call.next.own)
        /\ call.step \in {"check", "join"} => call.by \cap mpJoined = {}
    BY <1>1, <1>3, <2>1 DEF IsTight, CallsFit
  <2>4. /\ Fits(call.next)' /\ IsNew(goes)' /\ (IsJoined(call.next.own) => IsJoined(call.next.own)')
    BY <1>4, <1>11, <2>2, <2>3 DEF Fits, Sealed, IsNew, IsJoined, OnlyOf
  <2>5. OneCall(d)'
    BY <2>1 DEF OneCall
  <2>6. CallsFit(d)'
    <3>1. step = "return" => mpStore'[d] = call.next /\ call.step = "save"
      BY <1>1, <1>2
    <3>2. step = "join" => call.by \cap mpJoined' = {}
      BY <1>1, <2>3
    <3> QED BY ZenonT(90), <1>1, <1>4, <1>10, <2>1, <2>3, <2>4, <3>1, <3>2 DEF CallsFit
  <2>7. StoreFits(d)'
    <3>1. CASE step = "join"
      BY <1>1, <2>1, <2>2, <3>1 DEF StoreFits, Fits, Sealed, IsJoined, IsTight
    <3>2. CASE step = "return"
      BY <1>1, <1>2, <2>3, <2>4, <3>2 DEF StoreFits
    <3>3. CASE step = "consume"
      <4>1. IsJoined(call.next.own)'
        BY <1>1, <1>3, <3>3 DEF JoinCall, IsJoined
      <4> QED BY <1>1, <1>2, <2>4, <3>3, <4>1 DEF StoreFits
    <3> QED BY <3>1, <3>2, <3>3
  <2>8. KeysAreSpent(d)'
    <3> SUFFICES ASSUME NEW k \in KeyPackages, k.owner = d
                 PROVE  /\ k \notin mpJoined' => LeafIsUnused(k)'
                        /\ k \in mpJoined' /\ k \in mpPrivate =>
                             \E b \in Slots : mpCalls'[d][b].step = "consume"
                                              /\ mpCalls'[d][b].by = {k}
      BY DEF KeysAreSpent
    <3>1. LeafIsUnused(k) => LeafIsUnused(k)'
      BY <2>2 DEF LeafIsUnused
    <3>2. \A b \in Slots : mpCalls[d][b].step # "consume"
      BY <1>1, <1>3, <2>1, NoCallIsCall
    <3>3. k \in mpJoined => k \notin mpPrivate
      BY <2>1, <3>2 DEF IsTight, KeysAreSpent
    <3>4. k \in mpJoined' \ mpJoined => step = "consume" /\ call.by = {k}
      BY <1>1, <1>3 DEF JoinCall
    <3> QED BY ZenonT(40), <1>4, <1>10, <1>11, <2>1, <3>1, <3>3, <3>4 DEF IsTight, KeysAreSpent, OnlyOf
  <2>9. TextsDiffer(d)' /\ d \notin mpTwice'
    BY <1>1, <2>1, <2>2, <2>3 DEF TextsDiffer, IsTight
  <2> QED BY <2>5, <2>6, <2>7, <2>8, <2>9 DEF IsTight
<1> QED BY <1>11, <1>12, <1>13, StepsWell

\* A join goes on or ends.
LEMMA JoinChecksKeepsInv ==
  ASSUME ProviderInv, NEW d \in Members, NEW c \in Slots, JoinChecks(d, c)
  PROVE  ProviderInv'
<1>1. CountGrows /\ mpCalls[d][c].step = "check"
  BY CountIsTyped DEF JoinChecks
<1>2. CASE mpStore[d] # NoState
  BY <1>1, <1>2, EndsWell DEF JoinChecks, mpHistory
<1>3. CASE mpStore[d] = NoState
  <2>1. /\ mpCalls' = [mpCalls EXCEPT ![d][c].step = "join"]
        /\ UNCHANGED <<mpStore, mpPrivate, mpPublic, mpWires, mpCount, mpHistory>>
    BY <1>3 DEF JoinChecks
  <2> QED BY <1>1, <2>1, CallStepsOn DEF mpHistory
<1> QED BY <1>2, <1>3

\* The state that is saved fits.
LEMMA SaveStateKeepsInv ==
  ASSUME ProviderInv, NEW d \in Members, NEW c \in Slots, SaveState(d, c)
  PROVE  ProviderInv'
BY CountIsTyped, CallStepsOn DEF SaveState, mpHistory

\* The key package that is joined by has not been so before.
LEMMA JoinSavesKeepsInv ==
  ASSUME ProviderInv, NEW d \in Members, NEW c \in Slots, JoinSaves(d, c)
  PROVE  ProviderInv'
BY CountIsTyped, CallStepsOn DEF JoinSaves

\* What is returned is new, and the saved state counts it already.
LEMMA ReturnsKeepsInv ==
  ASSUME ProviderInv, NEW d \in Members, NEW c \in Slots, Returns(d, c)
  PROVE  ProviderInv'
<1>1. PICK call, shown : call = mpCalls[d][c] /\ shown = {w \in call.out : w.type = "shown"}
  OBVIOUS
<1>2. /\ ProviderTypes /\ mpCalls \in [Members -> [Slots -> Call]]
      /\ call.step = "return" /\ mpCalls' = [mpCalls EXCEPT ![d][c] = NoCall]
      /\ mpWires' = mpWires \cup (call.out \ shown) /\ mpShown' = mpShown \cup shown
      /\ mpTwice' = IF shown \cap mpShown # {} THEN mpTwice \cup {d} ELSE mpTwice
      /\ UNCHANGED <<mpStore, mpPrivate, mpPublic, mpCount, mpJoined, mpLoose>>
  BY <1>1 DEF Returns, Ends, ProviderInv, ProviderTypes
<1>3. /\ call \in Call /\ call # NoCall /\ GroupCall(call, d)
      /\ IsTight(d) => \A b \in Slots : b # c => mpCalls[d][b] = NoCall
  BY <1>1, <1>2, TheCall
<1>4. CountGrows
  BY <1>2, CountIsTyped
<1>5. ASSUME NEW w \in call.out
      PROVE  /\ w.type = "shown" => w \in ShownText /\ w.to.owner = d /\ Rooted(w.text.on)
             /\ w.type # "shown" => w \in Wire /\ WireIsRooted(w)
             /\ w.type = "text" => w.by.owner = d
  <2>1. w \in Wire \/ w \in ShownText
    BY <1>3, PartsOfCall
  <2> QED BY <1>3, <2>1, KindOfWire DEF GroupCall, ShownText
<1>6. /\ mpCalls'[d][c] = NoCall
      /\ \A e \in Members : e # d => mpCalls'[e] = mpCalls[e]
      /\ \A b \in Slots : b # c => mpCalls'[d][b] = mpCalls[d][b]
  BY <1>2, OneCallChanges, NoCallIsCall
<1>7. OnlyOf(d)
  BY <1>1, <1>2, <1>5, <1>6 DEF OnlyOf
<1>8. ProviderTypes'
  <2>1. mpWires' \subseteq Wire /\ \A w \in mpWires' \ mpWires : WireIsRooted(w)'
    <3>1. \A w \in mpWires' \ mpWires : w \in Wire /\ WireIsRooted(w)
      BY <1>1, <1>2, <1>5
    <3> QED BY <1>2, <1>4, <3>1, StaysRooted DEF ProviderTypes
  <2>2. mpShown' \subseteq ShownText /\ \A x \in mpShown' \ mpShown : Rooted(x.text.on)'
    <3>1. \A x \in mpShown' \ mpShown : x \in ShownText /\ Rooted(x.text.on)
      BY <1>1, <1>2, <1>5
    <3> QED BY <1>2, <3>1 DEF ProviderTypes, Rooted
  <2> QED BY <1>2, <1>4, <1>7, <2>1, <2>2, TypesKept, NoCallIsCall DEF ProviderTypes
<1>9. ASSUME d \notin mpLoose
      PROVE  IsTight(d)'
  <2>1. /\ IsTight(d) /\ \A b \in Slots : mpCalls'[d][b] = NoCall
    BY <1>3, <1>6, <1>9 DEF ProviderInv
  <2>2. /\ Fits(call.next) /\ IsNew(call) /\ mpStore[d] = call.next /\ IsJoined(call.next.own)
    BY <1>1, <1>2, <1>3, <2>1 DEF IsTight, CallsFit
  <2>3. \A w \in Texts' : w \in Texts \/ (w \in call.out /\ w.type = "text")
    BY <1>2 DEF Texts
  <2>4. \A x \in mpShown' : x \in mpShown \/ (x \in call.out /\ x.type = "shown")
    BY <1>1, <1>2
  <2>5. OneCall(d)' /\ CallsFit(d)'
    BY <2>1 DEF OneCall, CallsFit
  <2>6. StoreFits(d)'
    <3>1. ASSUME NEW w \in Texts', w.by = call.next.own
          PROVE  Sealed(w, call.next)
      BY <2>2, <2>3, <3>1 DEF Fits, IsNew, Sealed
    <3>2. ASSUME NEW x \in mpShown', x.to = call.next.own
          PROVE  x.text \in call.next.opened \/ x.text.on[1] # call.next.commits[1]
      BY <2>2, <2>4, <3>2 DEF Fits, IsNew
    <3>3. Fits(call.next)'
      BY <3>1, <3>2 DEF Fits, Sealed
    <3> QED BY <1>2, <2>2, <3>3 DEF StoreFits, IsJoined
  <2>7. KeysAreSpent(d)'
    <3> SUFFICES ASSUME NEW k \in KeyPackages, k.owner = d
                 PROVE  /\ k \notin mpJoined => LeafIsUnused(k)'
                        /\ ~(k \in mpJoined /\ k \in mpPrivate)
      BY <1>2 DEF KeysAreSpent
    <3>1. \A b \in Slots : mpCalls[d][b].step # "consume"
      BY <1>1, <1>2, <1>3, <2>1, NoCallIsCall
    <3>2. k \notin mpJoined => LeafIsUnused(k) /\ k # call.next.own
      BY <2>1, <2>2 DEF IsTight, KeysAreSpent, IsJoined
    <3>3. k \notin mpJoined => LeafIsUnused(k)'
      BY <2>2, <2>3, <2>4, <3>2 DEF LeafIsUnused, IsNew
    <3> QED BY <2>1, <3>1, <3>3 DEF IsTight, KeysAreSpent
  <2>8. TextsDiffer(d)'
    <3> SUFFICES ASSUME NEW v \in Texts', NEW w \in Texts',
                        v.by.owner = d, v.by = w.by, v.on = w.on, v.key = w.key
                 PROVE  v = w
      BY DEF TextsDiffer, Texts
    <3>1. CASE v \in Texts /\ w \in Texts
      BY <2>1, <3>1 DEF IsTight, TextsDiffer
    <3>2. \A x \in Texts : x.key \in Nat
      BY TextsAreRooted DEF Text
    <3>3. CASE v \in Texts /\ w \in call.out /\ w.type = "text"
      BY <2>2, <3>2, <3>3 DEF IsNew
    <3>4. CASE w \in Texts /\ v \in call.out /\ v.type = "text"
      BY <2>2, <3>2, <3>4 DEF IsNew
    <3>5. CASE v \in call.out /\ w \in call.out /\ v.type = "text" /\ w.type = "text"
      BY <2>2, <3>5 DEF IsNew
    <3> QED BY <2>3, <3>1, <3>3, <3>4, <3>5
  <2>9. d \notin mpTwice'
    BY <1>1, <1>2, <2>1, <2>2 DEF IsTight, IsNew
  <2> QED BY <2>5, <2>6, <2>7, <2>8, <2>9 DEF IsTight
<1> QED BY <1>2, <1>7, <1>8, <1>9, StepsWell

-----------------------------------------------------------------------------
(* What no call of the group does, and joins.                              *)

\* A group is deleted only while no call of it runs.
LEMMA DeleteGroupKeepsInv ==
  ASSUME ProviderInv, NEW d \in Members, DeleteGroup(d)
  PROVE  ProviderInv'
<1>1. /\ mpStore' = [mpStore EXCEPT ![d] = NoState]
      /\ UNCHANGED <<mpPrivate, mpPublic, mpCalls, mpWires, mpCount, mpShown, mpTwice,
                     mpJoined, mpLoose>>
  BY DEF DeleteGroup, mpHistory
<1>2. OnlyOf(d)
  BY <1>1 DEF OnlyOf, ProviderInv, ProviderTypes
<1>3. ProviderTypes'
  BY <1>1 DEF ProviderInv, ProviderTypes, GroupCall, JoinCall, StateIsOf, Rooted, WireIsRooted
<1>4. ASSUME d \notin mpLoose
      PROVE  IsTight(d)'
  <2>1. IsTight(d) /\ ProviderTypes
    BY <1>4 DEF ProviderInv
  <2>2. mpStore'[d] = NoState
    BY <1>1, <2>1 DEF ProviderTypes
  <2>3. \A c \in Slots : mpCalls[d][c].step # "return"
    BY <2>1, TheCall DEF DeleteGroup, LockFree, GroupCall
  <2>4. CallsFit(d)'
    BY <1>1, <2>1, <2>3 DEF IsTight, CallsFit, Texts, Fits, Sealed, IsNew, IsJoined
  <2>5. StoreFits(d)'
    BY <2>2 DEF StoreFits
  <2>6. KeysAreSpent(d)'
    BY <1>1, <2>1 DEF IsTight, KeysAreSpent, Texts, LeafIsUnused
  <2>7. OneCall(d)' /\ TextsDiffer(d)' /\ d \notin mpTwice'
    BY <1>1, <2>1 DEF IsTight, OneCall, TextsDiffer, Texts
  <2> QED BY <2>4, <2>5, <2>6, <2>7 DEF IsTight
<1> QED BY <1>1, <1>2, <1>3, <1>4, StepsWell

\* A new key package has not been joined by.
LEMMA GenerateKeyPackageKeepsInv ==
  ASSUME ProviderInv, NEW k \in KeyPackages, GenerateKeyPackage(k)
  PROVE  ProviderInv'
<1>1. /\ k \notin mpPublic /\ mpPrivate' = mpPrivate \cup {k} /\ mpPublic' = mpPublic \cup {k}
      /\ UNCHANGED <<mpStore, mpCalls, mpWires, mpCount, mpShown, mpTwice, mpJoined, mpLoose>>
  BY DEF GenerateKeyPackage, mpHistory
<1>2. ProviderTypes'
  BY <1>1 DEF ProviderInv, ProviderTypes, GroupCall, JoinCall, StateIsOf, Rooted, WireIsRooted
<1>3. k \notin mpJoined
  BY <1>1 DEF ProviderInv, ProviderTypes
<1>4. ASSUME NEW e \in Members \ mpLoose
      PROVE  IsTight(e)'
  <2>1. IsTight(e)
    BY <1>4 DEF ProviderInv
  <2>2. KeysAreSpent(e)'
    BY <1>1, <1>3, <2>1 DEF IsTight, KeysAreSpent, LeafIsUnused, Texts
  <2> QED BY <1>1, <2>1, <2>2
          DEF IsTight, OneCall, CallsFit, StoreFits, TextsDiffer, Texts, Fits, Sealed, IsNew,
              IsJoined
<1> QED BY <1>1, <1>2, <1>4 DEF ProviderInv

\* A key package whose private half is there has not been used, or is being consumed.
LEMMA JoinFromWelcomeKeepsInv ==
  ASSUME ProviderInv, NEW d \in Members, NEW c \in Slots, NEW k \in KeyPackages,
         NEW w \in mpWires, JoinFromWelcome(d, c, k, w)
  PROVE  ProviderInv'
<1>1. PICK lock, next, out, by :
        /\ lock = {k.id} /\ next = StateAt(w.commits, w.leaves, k) /\ out = {} /\ by = {k}
        /\ w.type = "welcome" /\ k.owner = d /\ k \in mpPrivate
        /\ Begins(d, c, lock, "check", next, out, by)
        /\ Unheard /\ UNCHANGED <<mpStore, mpPrivate, mpPublic, mpWires, mpCount>>
  BY DEF JoinFromWelcome
<1>2. PICK call :
        call = [lock |-> lock, step |-> "check", next |-> next, out |-> out, by |-> by]
  OBVIOUS
<1>3. ProviderTypes /\ CountGrows
  BY <1>1, CountIsTyped DEF ProviderInv
<1>4. w \in Welcome /\ WireIsRooted(w)
  BY <1>1, <1>3, KindOfWire DEF ProviderTypes
<1>5. w.commits \in Path /\ w.leaves \in SUBSET Leaf /\ Rooted(w.commits) /\ k \in Leaf
  BY <1>1, <1>4, KeyPackagesAreLeaves DEF Welcome, WireIsRooted
<1>6. next \in State /\ next.commits = w.commits /\ next.own = k /\ next.opened = {}
  <2>1. PICK path, leaves : path = w.commits /\ leaves = w.leaves
    OBVIOUS
  <2>2. path \in Path /\ leaves \in SUBSET Leaf /\ next = StateAt(path, leaves, k)
    BY <1>1, <1>5, <2>1
  <2>3. next \in State /\ next.commits = path /\ next.own = k /\ next.opened = {}
    BY <1>5, <2>2, StateBegins
  <2> QED BY <2>1, <2>3
<1>7. StateIsOf(next, d)'
  BY <1>1, <1>3, <1>5, <1>6, StaysRooted, CountIsTyped DEF StateIsOf
<1>8. /\ lock \in SUBSET Nat /\ IsLock(lock) /\ out \in SUBSET (Wire \cup ShownText)
      /\ by \in SUBSET KeyPackages /\ by \subseteq mpPublic
  BY <1>1, <1>3, MlsProviderAssumption DEF IsLock, ProviderTypes
<1>9. /\ call.lock = lock /\ call.step = "check" /\ call.next = next /\ call.out = {}
      /\ call.by = {k}
  BY <1>1, <1>2
<1>10. JoinCall(call, d)'
  BY <1>1, <1>6, <1>7, <1>9 DEF JoinCall
<1>11. ASSUME d \notin mpLoose'
       PROVE  Fits(next) /\ IsNew(call) /\ by \cap mpJoined = {}
  <2>1. \A b \in Slots : mpCalls[d][b] = NoCall
    BY <1>1, <1>3, <1>8, <1>11, BeginsAlone
  <2>2. d \notin mpLoose
    BY <1>1, <1>11 DEF Begins
  <2>3. KeysAreSpent(d)
    BY <2>2 DEF ProviderInv, IsTight
  <2>4. k \notin mpJoined /\ LeafIsUnused(k)
    BY <1>1, <2>1, <2>3, NoCallIsCall DEF KeysAreSpent
  <2>5. Fits(next)
    BY <1>6, <2>4 DEF Fits, LeafIsUnused
  <2>6. IsNew(call)
    BY <1>9 DEF IsNew
  <2> QED BY <1>1, <2>4, <2>5, <2>6
<1>12. "check" \in {"save", "check"} /\ "check" # "save"
  OBVIOUS
<1> QED BY SMTT(60), <1>1, <1>2, <1>3, <1>6, <1>8, <1>10, <1>11, <1>12, BeginsWell

-----------------------------------------------------------------------------
(* The invariant.                                                          *)

\* At first there is nothing.
LEMMA InitIsWell ==
  ProviderInit => ProviderInv
<1> SUFFICES ASSUME ProviderInit
             PROVE  ProviderInv
  OBVIOUS
<1>1. ProviderTypes
  BY NoCallIsCall DEF ProviderInit, ProviderTypes
<1>2. \A d \in Members : IsTight(d)
  BY NoCallIsCall
     DEF ProviderInit, IsTight, OneCall, CallsFit, StoreFits, KeysAreSpent, TextsDiffer,
         LeafIsUnused, Texts
<1> QED BY <1>1, <1>2 DEF ProviderInv

\* Every step keeps the invariant.
LEMMA NextIsWell ==
  ASSUME ProviderInv, [ProviderNext]_mpVars
  PROVE  ProviderInv'
<1>1. ASSUME NEW k \in KeyPackages, GenerateKeyPackage(k)
      PROVE  ProviderInv'
  BY <1>1, GenerateKeyPackageKeepsInv
<1>2. ASSUME NEW d \in Members, DeleteGroup(d)
      PROVE  ProviderInv'
  BY <1>2, DeleteGroupKeepsInv
<1>3. ASSUME NEW d \in Members, NEW c \in Slots,
             \/ CreateGroup(d, c) \/ RotateOwnLeaf(d, c) \/ EncryptApplicationMessage(d, c)
             \/ \E k \in KeyPackages : AddMembers(d, c, k)
             \/ \E k \in KeyPackages \cup {CreatorLeaf(m) : m \in Members} :
                  RemoveMember(d, c, k)
             \/ \E w \in mpWires : ProcessCommit(d, c, w) \/ ProcessText(d, c, w)
             \/ SaveState(d, c) \/ Returns(d, c)
             \/ \E w \in mpWires, k \in KeyPackages : JoinFromWelcome(d, c, k, w)
             \/ JoinChecks(d, c) \/ JoinSaves(d, c) \/ JoinConsumes(d, c)
             \/ CallIsLost(d, c)
      PROVE  ProviderInv'
  <2>1. CASE CreateGroup(d, c)
    BY <2>1, CreateGroupKeepsInv
  <2>2. CASE RotateOwnLeaf(d, c)
    BY <2>2, CommitKeepsInv DEF RotateOwnLeaf
  <2>3. CASE EncryptApplicationMessage(d, c)
    BY <2>3, EncryptKeepsInv
  <2>4. ASSUME NEW k \in KeyPackages, AddMembers(d, c, k)
        PROVE  ProviderInv'
    <3>1. {k} \in SUBSET Leaf /\ {} \in SUBSET Leaf
      BY KeyPackagesAreLeaves
    <3> QED BY <2>4, <3>1, CommitKeepsInv DEF AddMembers
  <2>5. ASSUME NEW k \in KeyPackages \cup {CreatorLeaf(m) : m \in Members},
               RemoveMember(d, c, k)
        PROVE  ProviderInv'
    <3>1. {k} \in SUBSET Leaf /\ {} \in SUBSET Leaf
      BY KeyPackagesAreLeaves
    <3> QED BY <2>5, <3>1, CommitKeepsInv DEF RemoveMember
  <2>6. ASSUME NEW w \in mpWires, ProcessCommit(d, c, w) \/ ProcessText(d, c, w)
        PROVE  ProviderInv'
    BY <2>6, ProcessCommitKeepsInv, ProcessTextKeepsInv
  <2>7. CASE SaveState(d, c) \/ Returns(d, c)
    BY <2>7, SaveStateKeepsInv, ReturnsKeepsInv
  <2>8. ASSUME NEW w \in mpWires, NEW k \in KeyPackages, JoinFromWelcome(d, c, k, w)
        PROVE  ProviderInv'
    BY <2>8, JoinFromWelcomeKeepsInv
  <2>9. CASE JoinChecks(d, c) \/ JoinSaves(d, c) \/ JoinConsumes(d, c)
    BY <2>9, JoinChecksKeepsInv, JoinSavesKeepsInv, JoinConsumesKeepsInv
  <2>10. CASE CallIsLost(d, c)
    BY <2>10, CallIsLostKeepsInv
  <2> QED BY <1>3, <2>1, <2>2, <2>3, <2>4, <2>5, <2>6, <2>7, <2>8, <2>9, <2>10
<1>4. CASE UNCHANGED mpVars
  <2>1. UNCHANGED <<mpStore, mpPrivate, mpPublic, mpCalls, mpWires, mpCount, mpShown, mpTwice,
                    mpJoined, mpLoose>>
    BY <1>4 DEF mpVars, mpHistory
  <2>2. ProviderTypes'
    BY SMTT(30), <2>1 DEF ProviderInv, ProviderTypes, GroupCall, JoinCall, StateIsOf, Rooted,
                WireIsRooted
  <2>3. ASSUME NEW e \in Members \ mpLoose
        PROVE  IsTight(e)'
    <3>1. IsTight(e)
      BY <2>3 DEF ProviderInv
    <3>2. CallsFit(e)' /\ StoreFits(e)'
      BY <2>1, <3>1 DEF IsTight, CallsFit, StoreFits, Texts, Fits, Sealed, IsNew, IsJoined
    <3>3. KeysAreSpent(e)'
      BY <2>1, <3>1 DEF IsTight, KeysAreSpent, Texts, LeafIsUnused
    <3>4. OneCall(e)' /\ TextsDiffer(e)' /\ e \notin mpTwice'
      BY <2>1, <3>1 DEF IsTight, OneCall, TextsDiffer, Texts
    <3> QED BY <3>2, <3>3, <3>4 DEF IsTight
  <2> QED BY <2>1, <2>2, <2>3 DEF ProviderInv
<1> QED BY <1>1, <1>2, <1>3, <1>4 DEF ProviderNext

\* Whatever calls of a device overlap or are lost, on one that is not loose a call runs
\* alone and its result is still true of the stored state when it is saved and returned.
THEOREM ProviderIsWell ==
  ProviderSpec => []ProviderInv
<1> QED BY InitIsWell, NextIsWell, PTL DEF ProviderSpec

\* No key of the group is used twice, on every device that is not loose, for any devices,
\* key packages and number of calls.
THEOREM MlsNoKeyIsUsedTwice ==
  ProviderSpec => []NoKeyIsUsedTwice
<1>1. ProviderInv => NoKeyIsUsedTwice
  BY DEF ProviderInv, IsTight, TextsDiffer, NoKeyIsUsedTwice
<1> QED BY <1>1, ProviderIsWell, PTL
-----------------------------------------------------------------------------
(* The block store.                                                        *)

Breaker ==
  [failures: 0..(Threshold - 1), trips: Nat, openUntil: Nat, probing: BOOLEAN]

Tried == [Fetchers -> {"no", "failed", "refused"}]

Work == [step: Steps, at: Nat, try: 0..MaxTries, probe: BOOLEAN, tried: Tried]

Busy == {"fetching", "verifying", "sleeping"}

BlockTyped ==
  /\ bsNow \in Nat \ {0}
  /\ bsHealth \in [Fetchers -> Breaker]
  /\ bsWork \in [BlockRequests -> Work]

\* The cooldowns of the breakers h are bounded.
RestsAreBounded(h) == \A f \in Fetchers : h[f].openUntil <= bsNow + MaxCooldown

\* A probe is a request's that is under way, or it was left.
ProbesAreHeld ==
  \A f \in Fetchers :
    bsHealth[f].probing =>
      (\E r \in BlockRequests : bsWork[r].at = f /\ bsWork[r].probe) \/ f \in bsLeft

\* A request that is under way has been through the fetchers before the one it is at, one
\* that is over has no probe, and one that waits has another attempt.
InOrder(w) ==
  /\ w.step \in Busy => w.at \in Fetchers /\ \A f \in Fetchers : f < w.at => w.tried[f] # "no"
  /\ w.step \notin Busy => ~w.probe
  /\ w.step = "sleeping" => w.try < MaxTries
  /\ w.step = "unavailable" => \A f \in Fetchers : w.tried[f] # "no"

BlockInv ==
  /\ BlockTyped
  /\ RestsAreBounded(bsHealth)
  /\ ProbesAreHeld
  /\ \A r \in BlockRequests : InOrder(bsWork[r])

\* A set of numbers that is not empty has a least one: that of FiniteSetsExt.
LEMMA LeastNumber ==
  ASSUME NEW T \in SUBSET Nat, T # {}
  PROVE  Min(T) \in T /\ \A j \in T : Min(T) <= j
  <1>1. PICK R : R = {ss \in Nat \X Nat : ss[1] < ss[2]} OBVIOUS
  <1>2. IsWellFoundedOn(R, Nat) BY <1>1, NatLessThanWellFounded DEF OpToRel
  <1>3. PICK x \in T : \A y \in T : ~(<<y, x>> \in R) BY <1>2, WFMin
  <1>4. \A y, z \in Nat : y < z => <<y, z>> \in R BY <1>1
  <1>5. \A y \in T : ~(y < x) BY <1>3, <1>4
  <1>6. \A y \in T : x <= y BY <1>5
  <1> QED BY <1>6 DEF Min

\* The fetchers are numbers.
LEMMA FetchersAreNumbers == Fetchers \subseteq Nat \ {0}
  <1>1. \A f : f \in Fetchers => f \in 1..Cardinality(Fetchers)
    BY BlockStoreAssumption DEF BlockStoreAssumption
  <1> QED BY <1>1

\* What the tracker makes of a failure: the cooldown is bounded, and no probe is left.
LEMMA FailureEndsProbe ==
  ASSUME NEW b \in Breaker, bsNow \in Nat \ {0}, b.openUntil <= bsNow + MaxCooldown
  PROVE  /\ recordFailure(b) \in Breaker
         /\ ~recordFailure(b).probing
         /\ recordFailure(b).openUntil <= bsNow + MaxCooldown
  <1>1. Threshold \in Nat \ {0} /\ MaxCooldown \in Nat
    BY BlockStoreAssumption DEF BlockStoreAssumption
  <1>2. PICK x : x = Cooldown * 2 ^ b.trips OBVIOUS
  <1>3. PICK rest : rest = AtMost(MaxCooldown, x) OBVIOUS
  <1>4. rest \in 0..MaxCooldown BY <1>1, <1>3 DEF AtMost
  <1>5. bsNow + rest \in Nat /\ bsNow + rest <= bsNow + MaxCooldown BY <1>1, <1>4
  <1>6. CASE b.probing \/ b.failures + 1 >= Threshold
    <2>1. recordFailure(b) =
            [failures |-> 0, trips |-> b.trips + 1, probing |-> FALSE, openUntil |-> bsNow + rest]
      BY <1>2, <1>3, <1>6, Zenon DEF recordFailure
    <2> QED BY <1>1, <1>5, <2>1 DEF Breaker
  <1>7. CASE ~(b.probing \/ b.failures + 1 >= Threshold)
    <2>1. recordFailure(b) = [b EXCEPT !.failures = @ + 1]
      BY <1>7, Zenon DEF recordFailure
    <2>2. b.failures + 1 \in 0..(Threshold - 1) BY <1>1, <1>7 DEF Breaker
    <2>3. ~b.probing BY <1>7
    <2> QED BY <2>1, <2>2, <2>3 DEF Breaker
  <1> QED BY <1>6, <1>7

\* So does a success.
LEMMA SuccessEndsProbe ==
  ASSUME bsNow \in Nat \ {0}
  PROVE  /\ recordSuccess \in Breaker
         /\ ~recordSuccess.probing
         /\ recordSuccess.openUntil <= bsNow + MaxCooldown
BY BlockStoreAssumption DEF BlockStoreAssumption, recordSuccess, Closed, Breaker

\* A request goes on from breakers whose probes are other requests'.
LEMMA AskingKeeps ==
  ASSUME BlockInv, NEW r \in BlockRequests, NEW w \in Work, NEW h \in [Fetchers -> Breaker],
         NEW i \in Nat \ {0},
         RestsAreBounded(h),
         \A f \in Fetchers : h[f].probing =>
           (\E q \in BlockRequests : q # r /\ bsWork[q].at = f /\ bsWork[q].probe) \/ f \in bsLeft,
         \A f \in Fetchers : f < i => w.tried[f] # "no",
         AskNext(r, w, h, i), UNCHANGED <<bsNow, bsLeft>>
  PROVE  BlockInv'
  <1>1. /\ bsHealth \in [Fetchers -> Breaker] /\ bsWork \in [BlockRequests -> Work]
        /\ \A q \in BlockRequests : InOrder(bsWork[q])
        /\ bsNow \in Nat \ {0}
    BY DEF BlockInv, BlockTyped
  <1>2. PICK willing : willing = Willing(h, i) OBVIOUS
  <1>3. willing \subseteq Fetchers /\ \A f \in willing : f >= i BY <1>2 DEF Willing
  <1>4. Fetchers \subseteq Nat \ {0} BY FetchersAreNumbers
  <1>5. PICK refused : refused = IF willing = {} THEN {f \in Fetchers : f >= i}
                                 ELSE i..(Min(willing) - 1)
    OBVIOUS
  <1>6. PICK new : new = [f \in Fetchers |-> IF f \in refused THEN "refused" ELSE w.tried[f]]
    OBVIOUS
  <1>7. w.tried \in Tried BY DEF Work
  <1>8. new \in Tried BY <1>6, <1>7 DEF Tried
  <1>9. bsNow' = bsNow /\ bsLeft' = bsLeft OBVIOUS
  <1>10. MaxTries \in Nat \ {0} BY BlockStoreAssumption DEF BlockStoreAssumption
  <1>11. NoWork \in Work
    BY <1>10 DEF NoWork, Work, Steps, Tried
  <1>a. CASE willing = {}
    <2>1. PICK v : v = [NoWork EXCEPT !.step = "unavailable", !.tried = new] OBVIOUS
    <2>2. bsWork' = [bsWork EXCEPT ![r] = v] /\ bsHealth' = h
      BY <1>2, <1>5, <1>6, <1>a, <2>1, Zenon DEF AskNext
    <2>3. v \in Work /\ v.step = "unavailable" /\ v.tried = new /\ ~v.probe
      BY <1>8, <1>11, <2>1 DEF Work, NoWork, Steps
    <2>4. \A f \in Fetchers : new[f] # "no"
      BY <1>4, <1>5, <1>6, <1>a
    <2>5. InOrder(v) BY <2>3, <2>4 DEF InOrder, Busy
    <2>6. bsWork' \in [BlockRequests -> Work] BY <1>1, <2>2, <2>3
    <2>7. \A q \in BlockRequests : bsWork'[q] = IF q = r THEN v ELSE bsWork[q]
      BY <1>1, <2>2
    <2>8. \A q \in BlockRequests : InOrder(bsWork'[q]) BY <1>1, <2>5, <2>7
    <2>9. BlockTyped' BY <1>1, <1>9, <2>2, <2>6 DEF BlockTyped
    <2>10. RestsAreBounded(bsHealth)' BY <1>9, <2>2 DEF RestsAreBounded
    <2>11. ProbesAreHeld' BY <1>9, <2>2, <2>7 DEF ProbesAreHeld
    <2> QED BY <2>8, <2>9, <2>10, <2>11 DEF BlockInv
  <1>b. CASE willing # {}
    <2>1. PICK f : f = Min(willing) OBVIOUS
    <2>2. f \in willing /\ \A g \in willing : f <= g BY <1>3, <1>4, <1>b, <2>1, LeastNumber
    <2>3. f \in Fetchers /\ f \in Nat BY <1>3, <1>4, <2>2
    <2>4. PICK v : v = [step |-> "fetching", at |-> f, try |-> 1, probe |-> h[f].openUntil # 0,
                        tried |-> new]
      OBVIOUS
    <2>5. bsWork' = [bsWork EXCEPT ![r] = v] /\ bsHealth' = [h EXCEPT ![f] = Attempted(@)]
      BY <1>2, <1>5, <1>6, <1>b, <2>1, <2>4, Zenon DEF AskNext
    <2>6. /\ v \in Work /\ v.step = "fetching" /\ v.tried = new /\ v.at = f
          /\ v.probe <=> h[f].openUntil # 0
      <3>1. 1 \in 0..MaxTries BY <1>10
      <3>2. PICK probe \in BOOLEAN : probe <=> h[f].openUntil # 0 OBVIOUS
      <3>3. v = [step |-> "fetching", at |-> f, try |-> 1, probe |-> probe, tried |-> new]
        BY <2>4, <3>2
      <3> QED BY <1>8, <2>3, <3>1, <3>2, <3>3 DEF Work, Steps
    <2>7. \A g \in Fetchers : g < f => new[g] # "no"
      <3>1. refused = i..(f - 1) BY <1>5, <1>b, <2>1
      <3>2. \A g \in Fetchers : g < f /\ g >= i => g \in refused BY <1>4, <2>3, <3>1
      <3>3. ASSUME NEW g \in Fetchers PROVE g >= i \/ g < i
        <4>1. g \in Nat BY <1>4
        <4> QED BY <4>1
      <3> QED BY <1>6, <3>2, <3>3
    <2>8. InOrder(v) BY <2>3, <2>6, <2>7 DEF InOrder, Busy
    <2>9. bsWork' \in [BlockRequests -> Work] BY <1>1, <2>5, <2>6
    <2>10. \A q \in BlockRequests : bsWork'[q] = IF q = r THEN v ELSE bsWork[q]
      BY <1>1, <2>5
    <2>11. \A q \in BlockRequests : InOrder(bsWork'[q]) BY <1>1, <2>8, <2>10
    <2>12. /\ Attempted(h[f]) \in Breaker /\ Attempted(h[f]).openUntil = h[f].openUntil
           /\ Attempted(h[f]).probing <=> h[f].openUntil # 0
      BY <2>3 DEF Attempted, Breaker
    <2>13. /\ bsHealth' \in [Fetchers -> Breaker]
           /\ \A g \in Fetchers : bsHealth'[g] = IF g = f THEN Attempted(h[f]) ELSE h[g]
      BY <2>3, <2>5, <2>12
    <2>14. BlockTyped' BY <1>1, <1>9, <2>9, <2>13 DEF BlockTyped
    <2>15. RestsAreBounded(bsHealth)' BY <1>9, <2>12, <2>13 DEF RestsAreBounded
    <2>16. ProbesAreHeld' BY <1>9, <2>6, <2>10, <2>12, <2>13 DEF ProbesAreHeld
    <2> QED BY <2>11, <2>14, <2>15, <2>16 DEF BlockInv
  <1> QED BY <1>a, <1>b

\* A request has done with a fetcher, whose breaker has no probe now.
LEMMA GivingUpKeeps ==
  ASSUME BlockInv, NEW r \in BlockRequests, NEW b \in Breaker,
         bsWork[r].step \in Busy, ~b.probing, b.openUntil <= bsNow + MaxCooldown,
         GivesUpOn(r, b), UNCHANGED <<bsNow, bsLeft>>
  PROVE  BlockInv'
  <1>1. /\ bsHealth \in [Fetchers -> Breaker] /\ bsWork[r] \in Work /\ InOrder(bsWork[r])
        /\ RestsAreBounded(bsHealth) /\ ProbesAreHeld
    BY DEF BlockInv, BlockTyped
  <1>2. PICK f : f = bsWork[r].at OBVIOUS
  <1>3. f \in Fetchers /\ \A g \in Fetchers : g < f => bsWork[r].tried[g] # "no"
    BY <1>1, <1>2 DEF InOrder
  <1>4. PICK w : w = [bsWork[r] EXCEPT !.tried[f] = "failed"] OBVIOUS
  <1>5. PICK h : h = [bsHealth EXCEPT ![f] = b] OBVIOUS
  <1>6. AskNext(r, w, h, f + 1) BY <1>2, <1>4, <1>5, Zenon DEF GivesUpOn
  <1>7. w \in Work /\ w.tried = [bsWork[r].tried EXCEPT ![f] = "failed"]
    BY <1>1, <1>3, <1>4 DEF Work, Tried
  <1>8. Fetchers \subseteq Nat \ {0} BY FetchersAreNumbers
  <1>9. bsWork[r].tried \in Tried BY <1>1 DEF Work
  <1>10. \A g \in Fetchers : g < f + 1 => w.tried[g] # "no"
    BY <1>3, <1>7, <1>8, <1>9 DEF Tried
  <1>11. h \in [Fetchers -> Breaker] /\ \A g \in Fetchers : h[g] = IF g = f THEN b ELSE bsHealth[g]
    BY <1>1, <1>3, <1>5
  <1>12. RestsAreBounded(h) BY <1>1, <1>11 DEF RestsAreBounded
  <1>13. \A g \in Fetchers : h[g].probing =>
           (\E q \in BlockRequests : q # r /\ bsWork[q].at = g /\ bsWork[q].probe) \/ g \in bsLeft
    BY <1>1, <1>2, <1>11 DEF ProbesAreHeld
  <1>14. PICK i : i = f + 1 OBVIOUS
  <1>15. i \in Nat \ {0} BY <1>3, <1>8, <1>14
  <1>16. AskNext(r, w, h, i) /\ \A g \in Fetchers : g < i => w.tried[g] # "no"
    BY <1>6, <1>10, <1>14, Zenon
  <1>17. w \in Work /\ h \in [Fetchers -> Breaker] BY <1>7, <1>11
  <1> QED BY <1>12, <1>13, <1>15, <1>16, <1>17, AskingKeeps, Zenon

-----------------------------------------------------------------------------
(* Steps of the block store.                                               *)

\* What the invariant says of a request and of the fetcher it is at.
LEMMA AtWork ==
  ASSUME BlockInv, NEW r \in BlockRequests, bsWork[r].step \in Busy
  PROVE  /\ bsNow \in Nat \ {0} /\ bsWork[r] \in Work
         /\ bsWork[r].at \in Fetchers
         /\ bsHealth[bsWork[r].at] \in Breaker
         /\ bsHealth[bsWork[r].at].openUntil <= bsNow + MaxCooldown
  <1>1. bsWork[r].at \in Fetchers BY DEF BlockInv, InOrder
  <1> QED BY <1>1 DEF BlockInv, BlockTyped, RestsAreBounded

\* The breakers stay as they are or one of them has no probe now, and one request changes,
\* which had none or has that breaker's.
LEMMA RequestChanges ==
  ASSUME BlockInv, NEW r \in BlockRequests, NEW v \in Work, InOrder(v),
         bsWork' = [bsWork EXCEPT ![r] = v], UNCHANGED <<bsNow, bsLeft>>,
         \/ bsHealth' = bsHealth /\ v.at = bsWork[r].at /\ v.probe = bsWork[r].probe
         \/ /\ bsWork[r].at \in Fetchers
            /\ \E b \in Breaker :
                 /\ b.openUntil <= bsNow + MaxCooldown
                 /\ b.probing => v.probe /\ v.at = bsWork[r].at
                 /\ bsHealth' = [bsHealth EXCEPT ![bsWork[r].at] = b]
  PROVE  BlockInv'
  <1>1. /\ bsHealth \in [Fetchers -> Breaker] /\ bsWork \in [BlockRequests -> Work]
        /\ \A q \in BlockRequests : InOrder(bsWork[q])
        /\ bsNow \in Nat \ {0} /\ RestsAreBounded(bsHealth) /\ ProbesAreHeld
    BY DEF BlockInv, BlockTyped
  <1>2. bsNow' = bsNow /\ bsLeft' = bsLeft OBVIOUS
  <1>3. bsWork' \in [BlockRequests -> Work] BY <1>1
  <1>4. \A q \in BlockRequests : bsWork'[q] = IF q = r THEN v ELSE bsWork[q] BY <1>1
  <1>5. \A q \in BlockRequests : InOrder(bsWork'[q]) BY <1>1, <1>4
  <1>a. CASE bsHealth' = bsHealth /\ v.at = bsWork[r].at /\ v.probe = bsWork[r].probe
    <2>1. BlockTyped' BY <1>1, <1>2, <1>3, <1>a DEF BlockTyped
    <2>2. RestsAreBounded(bsHealth)' BY <1>1, <1>2, <1>a DEF RestsAreBounded
    <2>3. ProbesAreHeld' BY <1>1, <1>2, <1>4, <1>a DEF ProbesAreHeld
    <2> QED BY <1>5, <2>1, <2>2, <2>3 DEF BlockInv
  <1>b. CASE ~(bsHealth' = bsHealth /\ v.at = bsWork[r].at /\ v.probe = bsWork[r].probe)
    <2>1. PICK f : f = bsWork[r].at OBVIOUS
    <2>2. f \in Fetchers BY <1>b, <2>1
    <2>3. PICK b \in Breaker : /\ b.openUntil <= bsNow + MaxCooldown
                               /\ b.probing => v.probe /\ v.at = f
                               /\ bsHealth' = [bsHealth EXCEPT ![f] = b]
      BY <1>b, <2>1
    <2>4. /\ bsHealth' \in [Fetchers -> Breaker]
          /\ \A g \in Fetchers : bsHealth'[g] = IF g = f THEN b ELSE bsHealth[g]
      BY <1>1, <2>2, <2>3
    <2>5. BlockTyped' BY <1>1, <1>2, <1>3, <2>4 DEF BlockTyped
    <2>6. RestsAreBounded(bsHealth)' BY <1>1, <1>2, <2>3, <2>4 DEF RestsAreBounded
    <2>7. ProbesAreHeld' BY <1>1, <1>2, <1>4, <2>1, <2>3, <2>4 DEF ProbesAreHeld
    <2> QED BY <1>5, <2>5, <2>6, <2>7 DEF BlockInv
  <1> QED BY <1>a, <1>b

\* At first all breakers are closed and no request is under way.
LEMMA BlockInitWell == BlockInit => BlockInv
  <1> SUFFICES ASSUME BlockInit PROVE BlockInv OBVIOUS
  <1>1. Threshold \in Nat \ {0} /\ MaxTries \in Nat \ {0} /\ MaxCooldown \in Nat
    BY BlockStoreAssumption DEF BlockStoreAssumption
  <1>2. Closed \in Breaker /\ ~Closed.probing /\ Closed.openUntil = 0
    BY <1>1 DEF Closed, Breaker
  <1>3. NoWork \in Work /\ InOrder(NoWork)
    BY <1>1 DEF NoWork, Work, Steps, Tried, InOrder, Busy
  <1>4. BlockTyped BY <1>2, <1>3 DEF BlockInit, BlockTyped
  <1>5. RestsAreBounded(bsHealth) BY <1>1, <1>2 DEF BlockInit, RestsAreBounded
  <1>6. ProbesAreHeld BY <1>2 DEF BlockInit, ProbesAreHeld
  <1>7. \A r \in BlockRequests : InOrder(bsWork[r]) BY <1>3 DEF BlockInit
  <1> QED BY <1>4, <1>5, <1>6, <1>7 DEF BlockInv

\* A request that begins has no probe yet.
LEMMA RequestBeginsKeeps ==
  ASSUME BlockInv, NEW r \in BlockRequests, RequestBegins(r)
  PROVE  BlockInv'
  <1>1. MaxTries \in Nat BY BlockStoreAssumption DEF BlockStoreAssumption
  <1>2. NoWork \in Work BY <1>1 DEF NoWork, Work, Steps, Tried
  <1>3. AskNext(r, NoWork, bsHealth, 1) /\ UNCHANGED <<bsNow, bsLeft>> BY DEF RequestBegins
  <1>4. ~bsWork[r].probe BY DEF BlockInv, InOrder, Busy, RequestBegins
  <1>5. bsHealth \in [Fetchers -> Breaker] /\ RestsAreBounded(bsHealth) /\ ProbesAreHeld
    BY DEF BlockInv, BlockTyped
  <1>6. \A f \in Fetchers : bsHealth[f].probing =>
          (\E q \in BlockRequests : q # r /\ bsWork[q].at = f /\ bsWork[q].probe) \/ f \in bsLeft
    BY <1>4, <1>5 DEF ProbesAreHeld
  <1>7. \A f \in Fetchers : f < 1 => NoWork.tried[f] # "no"
    <2>1. ASSUME NEW f \in Fetchers PROVE ~(f < 1)
      <3>1. f \in Nat \ {0} BY FetchersAreNumbers
      <3> QED BY <3>1
    <2> QED BY <2>1
  <1> QED BY <1>2, <1>3, <1>5, <1>6, <1>7, AskingKeeps

\* A fetcher that has not the block is well.
LEMMA AnswersNotFoundKeeps ==
  ASSUME BlockInv, NEW r \in BlockRequests, AnswersNotFound(r)
  PROVE  BlockInv'
  <1>1. /\ bsWork[r].step \in Busy /\ GivesUpOn(r, recordSuccess)
        /\ UNCHANGED <<bsNow, bsLeft>>
    BY DEF AnswersNotFound, Busy
  <1>2. bsNow \in Nat \ {0} BY <1>1, AtWork
  <1> QED BY <1>1, <1>2, SuccessEndsProbe, GivingUpKeeps

\* A failure after which the request goes on to another fetcher.
LEMMA FailingKeeps ==
  ASSUME BlockInv, NEW r \in BlockRequests, bsWork[r].step \in Busy,
         GivesUpOn(r, recordFailure(bsHealth[bsWork[r].at])), UNCHANGED <<bsNow, bsLeft>>
  PROVE  BlockInv'
  <1>1. PICK b : b = bsHealth[bsWork[r].at] OBVIOUS
  <1>2. b \in Breaker /\ b.openUntil <= bsNow + MaxCooldown /\ bsNow \in Nat \ {0}
    BY <1>1, AtWork
  <1>3. PICK h : h = recordFailure(b) OBVIOUS
  <1>4. h \in Breaker /\ ~h.probing /\ h.openUntil <= bsNow + MaxCooldown
    BY <1>2, <1>3, FailureEndsProbe
  <1>5. GivesUpOn(r, h) BY <1>1, <1>3
  <1> QED BY <1>4, <1>5, GivingUpKeeps

\* After a failure the request waits, with the probe if it was given it, or goes on.
LEMMA AnswersTransientKeeps ==
  ASSUME BlockInv, NEW r \in BlockRequests, AnswersTransient(r)
  PROVE  BlockInv'
  <1>1. bsWork[r].step = "fetching" /\ UNCHANGED <<bsNow, bsLeft>> BY DEF AnswersTransient
  <1>2. bsWork[r].step \in Busy BY <1>1 DEF Busy
  <1>3. PICK h : h = recordFailure(bsHealth[bsWork[r].at]) OBVIOUS
  <1>4. h \in Breaker /\ ~h.probing /\ h.openUntil <= bsNow + MaxCooldown
    BY <1>2, <1>3, AtWork, FailureEndsProbe
  <1>5. bsWork[r] \in Work /\ InOrder(bsWork[r]) /\ bsWork[r].at \in Fetchers
    BY <1>2, AtWork DEF BlockInv
  <1>a. CASE bsWork[r].try < MaxTries /\ CanAttempt(h)
    <2>1. PICK probe \in BOOLEAN : probe <=> h.openUntil # 0 OBVIOUS
    <2>2. PICK v : v = [bsWork[r] EXCEPT !.step = "sleeping", !.probe = probe] OBVIOUS
    <2>3. PICK b : b = Attempted(h) OBVIOUS
    <2>4. /\ bsHealth' = [bsHealth EXCEPT ![bsWork[r].at] = b]
          /\ bsWork' = [bsWork EXCEPT ![r] = v]
      BY <1>3, <1>a, <2>1, <2>2, <2>3 DEF AnswersTransient
    <2>5. /\ v \in Work /\ v.step = "sleeping" /\ v.at = bsWork[r].at /\ v.probe = probe
          /\ v.tried = bsWork[r].tried /\ v.try = bsWork[r].try
      BY <1>5, <2>2 DEF Work, Steps
    <2>6. InOrder(v) BY <1>1, <1>5, <1>a, <2>5 DEF InOrder, Busy
    <2>7. b \in Breaker /\ b.openUntil <= bsNow + MaxCooldown /\ (b.probing => probe)
      BY <1>4, <2>1, <2>3 DEF Attempted, Breaker
    <2> QED BY <1>1, <1>5, <2>4, <2>5, <2>6, <2>7, RequestChanges
  <1>b. CASE ~(bsWork[r].try < MaxTries /\ CanAttempt(h))
    <2>1. GivesUpOn(r, recordFailure(bsHealth[bsWork[r].at]))
      BY <1>3, <1>b, Zenon DEF AnswersTransient
    <2> QED BY <1>1, <1>2, <2>1, FailingKeeps
  <1> QED BY <1>a, <1>b

\* After the delay the request still has what it had.
LEMMA RetriesKeeps ==
  ASSUME BlockInv, NEW r \in BlockRequests, Retries(r)
  PROVE  BlockInv'
  <1>1. bsWork[r].step = "sleeping" /\ UNCHANGED <<bsNow, bsLeft>> /\ bsHealth' = bsHealth
    BY DEF Retries
  <1>2. bsWork[r] \in Work /\ InOrder(bsWork[r]) BY <1>1, AtWork DEF Busy, BlockInv
  <1>3. PICK v : v = [bsWork[r] EXCEPT !.step = "fetching", !.try = @ + 1] OBVIOUS
  <1>4. bsWork' = [bsWork EXCEPT ![r] = v]
    <2>1. bsWork \in [BlockRequests -> Work] BY DEF BlockInv, BlockTyped
    <2> QED BY <1>2, <1>3, <2>1 DEF Retries, Work
  <1>5. MaxTries \in Nat BY BlockStoreAssumption DEF BlockStoreAssumption
  <1>6. bsWork[r].try + 1 \in 0..MaxTries BY <1>1, <1>2, <1>5 DEF InOrder, Work
  <1>7. /\ v \in Work /\ v.step = "fetching" /\ v.at = bsWork[r].at
        /\ v.probe = bsWork[r].probe /\ v.tried = bsWork[r].tried
    BY <1>2, <1>3, <1>6 DEF Work, Steps
  <1>8. InOrder(v) BY <1>1, <1>2, <1>7 DEF InOrder, Busy
  <1> QED BY <1>1, <1>4, <1>7, <1>8, RequestChanges

\* So it has while the bytes are verified.
LEMMA AnswersBytesKeeps ==
  ASSUME BlockInv, NEW r \in BlockRequests, AnswersBytes(r)
  PROVE  BlockInv'
  <1>1. bsWork[r].step = "fetching" /\ UNCHANGED <<bsNow, bsLeft>> /\ bsHealth' = bsHealth
    BY DEF AnswersBytes
  <1>2. bsWork[r] \in Work /\ InOrder(bsWork[r]) BY <1>1, AtWork DEF Busy, BlockInv
  <1>3. PICK v : v = [bsWork[r] EXCEPT !.step = "verifying"] OBVIOUS
  <1>4. bsWork' = [bsWork EXCEPT ![r] = v] BY <1>3, Zenon DEF AnswersBytes
  <1>5. /\ v \in Work /\ v.step = "verifying" /\ v.at = bsWork[r].at
        /\ v.probe = bsWork[r].probe /\ v.tried = bsWork[r].tried
    BY <1>2, <1>3 DEF Work, Steps
  <1>6. InOrder(v) BY <1>1, <1>2, <1>5 DEF InOrder, Busy
  <1> QED BY <1>1, <1>4, <1>5, <1>6, RequestChanges

\* The right bytes close the breaker.
LEMMA DigestFitsKeeps ==
  ASSUME BlockInv, NEW r \in BlockRequests, DigestFits(r)
  PROVE  BlockInv'
  <1>1. bsWork[r].step \in Busy /\ UNCHANGED <<bsNow, bsLeft>> BY DEF DigestFits, Busy
  <1>2. bsWork[r].at \in Fetchers /\ bsNow \in Nat \ {0} BY <1>1, AtWork
  <1>3. MaxTries \in Nat BY BlockStoreAssumption DEF BlockStoreAssumption
  <1>4. PICK v : v = [NoWork EXCEPT !.step = "got"] OBVIOUS
  <1>5. v \in Work /\ InOrder(v)
    <2>1. NoWork \in Work BY <1>3 DEF NoWork, Work, Steps, Tried
    <2>2. v \in Work /\ v.step = "got" BY <1>4, <2>1 DEF Work, Steps
    <2>3. ~v.probe BY <1>4, <2>1 DEF Work, NoWork
    <2> QED BY <2>2, <2>3 DEF InOrder, Busy
  <1>6. PICK b : b = recordSuccess OBVIOUS
  <1>7. b \in Breaker /\ ~b.probing /\ b.openUntil <= bsNow + MaxCooldown
    BY <1>2, <1>6, SuccessEndsProbe
  <1>8. /\ bsHealth' = [bsHealth EXCEPT ![bsWork[r].at] = b]
        /\ bsWork' = [bsWork EXCEPT ![r] = v]
    BY <1>4, <1>6 DEF DigestFits
  <1> QED BY <1>1, <1>2, <1>5, <1>7, <1>8, RequestChanges

\* A probe that is aborted is left.
LEMMA AbortsKeeps ==
  ASSUME BlockInv, NEW r \in BlockRequests, Aborts(r)
  PROVE  BlockInv'
  <1>1. /\ bsHealth \in [Fetchers -> Breaker] /\ bsWork \in [BlockRequests -> Work]
        /\ \A q \in BlockRequests : InOrder(bsWork[q])
        /\ bsNow \in Nat \ {0} /\ RestsAreBounded(bsHealth) /\ ProbesAreHeld
    BY DEF BlockInv, BlockTyped
  <1>2. MaxTries \in Nat BY BlockStoreAssumption DEF BlockStoreAssumption
  <1>3. PICK v : v = [NoWork EXCEPT !.step = "aborted"] OBVIOUS
  <1>4. v \in Work /\ InOrder(v)
    <2>1. NoWork \in Work BY <1>2 DEF NoWork, Work, Steps, Tried
    <2>2. v \in Work /\ v.step = "aborted" BY <1>3, <2>1 DEF Work, Steps
    <2>3. ~v.probe BY <1>3, <2>1 DEF Work, NoWork
    <2> QED BY <2>2, <2>3 DEF InOrder, Busy
  <1>5. /\ bsWork' = [bsWork EXCEPT ![r] = v] /\ bsNow' = bsNow /\ bsHealth' = bsHealth
        /\ bsLeft \subseteq bsLeft' /\ (bsWork[r].probe => bsWork[r].at \in bsLeft')
    BY <1>3 DEF Aborts
  <1>6. \A q \in BlockRequests : bsWork'[q] = IF q = r THEN v ELSE bsWork[q] BY <1>1, <1>5
  <1>7. \A q \in BlockRequests : InOrder(bsWork'[q]) BY <1>1, <1>4, <1>6
  <1>8. bsWork' \in [BlockRequests -> Work] BY <1>1, <1>4, <1>5
  <1>9. BlockTyped' BY <1>1, <1>5, <1>8 DEF BlockTyped
  <1>10. RestsAreBounded(bsHealth)' BY <1>1, <1>5 DEF RestsAreBounded
  <1>11. ProbesAreHeld' BY <1>1, <1>5, <1>6 DEF ProbesAreHeld
  <1> QED BY <1>7, <1>9, <1>10, <1>11 DEF BlockInv

\* What is left of a cooldown only gets shorter.
LEMMA BlockTickKeeps ==
  ASSUME BlockInv, BlockTick
  PROVE  BlockInv'
  <1>1. /\ bsNow \in Nat \ {0} /\ bsNow' = bsNow + 1
        /\ bsHealth' = bsHealth /\ bsWork' = bsWork /\ bsLeft' = bsLeft
    BY DEF BlockTick, BlockInv, BlockTyped
  <1>2. MaxCooldown \in Nat BY BlockStoreAssumption DEF BlockStoreAssumption
  <1>3. BlockTyped' BY <1>1 DEF BlockInv, BlockTyped
  <1>4. RestsAreBounded(bsHealth)'
    <2>1. ASSUME NEW f \in Fetchers PROVE bsHealth[f].openUntil <= bsNow + 1 + MaxCooldown
      <3>1. bsHealth[f].openUntil \in Nat /\ bsHealth[f].openUntil <= bsNow + MaxCooldown
        BY DEF BlockInv, BlockTyped, Breaker, RestsAreBounded
      <3> QED BY <1>1, <1>2, <3>1
    <2> QED BY <1>1, <2>1 DEF RestsAreBounded
  <1>5. ProbesAreHeld' BY <1>1 DEF BlockInv, ProbesAreHeld
  <1>6. \A r \in BlockRequests : InOrder(bsWork'[r]) BY <1>1 DEF BlockInv
  <1> QED BY <1>3, <1>4, <1>5, <1>6 DEF BlockInv

\* Every step of the block store.
LEMMA BlockNextKeeps == BlockInv /\ [BlockNext]_bsVars => BlockInv'
  <1> SUFFICES ASSUME BlockInv, [BlockNext]_bsVars PROVE BlockInv' OBVIOUS
  <1>1. ASSUME NEW r \in BlockRequests, RequestBegins(r) PROVE BlockInv'
    BY <1>1, RequestBeginsKeeps
  <1>2. ASSUME NEW r \in BlockRequests, AnswersNotFound(r) PROVE BlockInv'
    BY <1>2, AnswersNotFoundKeeps
  <1>3. ASSUME NEW r \in BlockRequests, AnswersTransient(r) PROVE BlockInv'
    BY <1>3, AnswersTransientKeeps
  <1>4. ASSUME NEW r \in BlockRequests, Retries(r) PROVE BlockInv'
    BY <1>4, RetriesKeeps
  <1>5. ASSUME NEW r \in BlockRequests, AnswersWrongLength(r) \/ DigestDiffers(r)
        PROVE  BlockInv'
    <2>1. /\ bsWork[r].step \in Busy /\ UNCHANGED <<bsNow, bsLeft>>
          /\ GivesUpOn(r, recordFailure(bsHealth[bsWork[r].at]))
      BY <1>5 DEF AnswersWrongLength, DigestDiffers, Busy
    <2> QED BY <2>1, FailingKeeps
  <1>6. ASSUME NEW r \in BlockRequests, AnswersBytes(r) PROVE BlockInv'
    BY <1>6, AnswersBytesKeeps
  <1>7. ASSUME NEW r \in BlockRequests, DigestFits(r) PROVE BlockInv'
    BY <1>7, DigestFitsKeeps
  <1>8. ASSUME NEW r \in BlockRequests, Aborts(r) PROVE BlockInv'
    BY <1>8, AbortsKeeps
  <1>9. CASE BlockTick BY <1>9, BlockTickKeeps
  <1>10. CASE UNCHANGED bsVars
    <2>1. /\ bsNow' = bsNow /\ bsHealth' = bsHealth /\ bsWork' = bsWork /\ bsLeft' = bsLeft
      BY <1>10 DEF bsVars
    <2> QED BY <2>1 DEF BlockInv, BlockTyped, RestsAreBounded, ProbesAreHeld
  <1> QED
    BY <1>1, <1>2, <1>3, <1>4, <1>5, <1>6, <1>7, <1>8, <1>9, <1>10, Zenon DEF BlockNext

\* The breakers count their failures to the threshold and no request exceeds its tries.
THEOREM BlockTypeCorrect == BlockSpec => []BlockTypeOK
  <1>1. BlockInv => BlockTypeOK BY DEF BlockInv, BlockTyped, BlockTypeOK, Breaker, Work
  <1> QED BY <1>1, BlockInitWell, BlockNextKeeps, PTL DEF BlockSpec

\* A request fails only when every fetcher was asked or refused, and a fetcher is refused
\* only while it rests, for a bounded time, or while another request probes it: or for
\* good, when a request that probed it was aborted.
THEOREM BlockSourcesAreTriedAgain == BlockSpec => []SourcesAreTriedAgain
  <1>1. BlockInv => SourcesAreTriedAgain
    <2> SUFFICES ASSUME BlockInv PROVE SourcesAreTriedAgain OBVIOUS
    <2>1. ASSUME NEW r \in BlockRequests, bsWork[r].step = "unavailable"
          PROVE  \A f \in Fetchers : bsWork[r].tried[f] # "no"
      BY <2>1 DEF BlockInv, InOrder
    <2>2. ASSUME NEW f \in Fetchers, ~CanAttempt(bsHealth[f])
          PROVE  \/ bsNow < bsHealth[f].openUntil
                 \/ \E r \in BlockRequests : bsWork[r].at = f /\ bsWork[r].probe
                 \/ f \in bsLeft
      <3>1. bsHealth[f].openUntil \in Nat /\ bsNow \in Nat
        BY DEF BlockInv, BlockTyped, Breaker
      <3>2. CASE bsHealth[f].probing BY <3>2 DEF BlockInv, ProbesAreHeld
      <3>3. CASE ~bsHealth[f].probing BY <2>2, <3>1, <3>3 DEF CanAttempt
      <3> QED BY <3>2, <3>3
    <2>3. \A f \in Fetchers : bsHealth[f].openUntil <= bsNow + MaxCooldown
      BY DEF BlockInv, RestsAreBounded
    <2> QED BY <2>1, <2>2, <2>3 DEF SourcesAreTriedAgain
  <1> QED BY <1>1, BlockInitWell, BlockNextKeeps, PTL DEF BlockSpec
=============================================================================
