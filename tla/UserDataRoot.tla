---------------------------- MODULE UserDataRoot -----------------------------
(***************************************************************************)
(* The user data root of one identity: appendUdrEvent and loadUdrState of  *)
(* packages/local-store/src/index.ts over applyUdrEvent of                 *)
(* packages/udr-projection/src/index.ts.                                   *)
(*                                                                         *)
(* An append decrypts the event and folds it into the row in one           *)
(* transaction with the log.  A rebuild reads the log, decrypts and folds  *)
(* it outside of any transaction, and overwrites the row afterwards.  Both *)
(* are called with the key of the identity or with another one.            *)
(***************************************************************************)
EXTENDS Naturals, FiniteSets, Folds

CONSTANTS
  UdrEvents,     \* events of the identity: [kind, item, at, id]
  UdrInvalid,    \* those whose payload decrypts to something malformed
  NoMailbox,     \* no mailbox is bound
  UdrRebuilders  \* callers of loadUdrState

\* The partitions, feed subscriptions, sync interests and spaces that may be
\* claimed and released, added and removed, joined and left; and mailboxes.
UdrItems == {e.item : e \in UdrEvents}

UdrEvent == [kind: {"added", "removed", "bound"}, item: UdrItems, at: Nat \ {0}, id: Nat]

ASSUME UdrAssumption ==
  /\ UdrEvents \subseteq UdrEvent
  /\ \A e, f \in UdrEvents : e.id = f.id => e = f
  /\ UdrInvalid \subseteq UdrEvents
  /\ NoMailbox \notin UdrItems

VARIABLES
  udrLog,     \* the events of signedEvents
  udrRow,     \* userDataRoot
  udrRead,    \* what each running rebuild has read
  udrOpened,  \* and the part of it that its key opens
  udrBusy     \* the rebuilds between their read and their write

udrVars == <<udrLog, udrRow, udrRead, udrOpened, udrBusy>>

UdrState == [members: SUBSET UdrItems, mailbox: UdrItems \cup {NoMailbox},
             updatedAt: Nat, applied: SUBSET UdrEvents]

EmptyUdrState == [members |-> {}, mailbox |-> NoMailbox, updatedAt |-> 0, applied |-> {}]

UdrInit ==
  /\ udrLog = {}
  /\ udrRow = EmptyUdrState
  /\ udrRead = [r \in UdrRebuilders |-> {}]
  /\ udrOpened = [r \in UdrRebuilders |-> {}]
  /\ udrBusy = {}

-----------------------------------------------------------------------------
(* applyUdrEvent.                                                          *)

ApplyUdrKind(state, e) ==
  CASE e.kind = "added" -> [state EXCEPT !.members = @ \cup {e.item}]
    [] e.kind = "removed" -> [state EXCEPT !.members = @ \ {e.item}]
    [] e.kind = "bound" -> [state EXCEPT !.mailbox = e.item]

\* An event that has been applied changes nothing.
ApplyUdrEvent(state, e) ==
  IF e \in state.applied THEN state
  ELSE [ApplyUdrKind(state, e) EXCEPT
          !.applied = @ \cup {e},
          !.updatedAt = IF e.at > @ THEN e.at ELSE @]

-----------------------------------------------------------------------------
(* appendUdrEvent.                                                         *)

AppendUdrEvent(e) ==
  /\ e \notin udrRow.applied
  /\ e \notin UdrInvalid
  /\ udrLog' = udrLog \cup {e}
  /\ udrRow' = ApplyUdrEvent(udrRow, e)
  /\ UNCHANGED <<udrRead, udrOpened, udrBusy>>

\* The key does not open the payload: the event is kept for a later rebuild.
AppendSealedUdrEvent(e) ==
  /\ e \notin udrRow.applied
  /\ udrLog' = udrLog \cup {e}
  /\ UNCHANGED <<udrRow, udrRead, udrOpened, udrBusy>>

-----------------------------------------------------------------------------
(* loadUdrState.                                                           *)

\* The caller's key opens all of the log or only a part of it.
ReadUdrLog(r) ==
  /\ r \notin udrBusy
  /\ udrRead' = [udrRead EXCEPT ![r] = udrLog]
  /\ \E opened \in SUBSET udrLog : udrOpened' = [udrOpened EXCEPT ![r] = opened]
  /\ udrBusy' = udrBusy \cup {r}
  /\ UNCHANGED <<udrLog, udrRow>>

UdrBefore(e, f) == e.at < f.at \/ (e.at = f.at /\ e.id < f.id)

\* Faulty variant: the log is replayed from its end.
UdrReplayedFirst(S) == CHOOSE e \in S : \A f \in S \ {e} : UdrBefore(e, f)

\* The event of S that listLocalUdrEvents puts last.
UdrReplayedLast(S) == CHOOSE e \in S : \A f \in S \ {e} : UdrBefore(f, e)

\* Invalid payloads are skipped.
FoldedUdr(S) ==
  MapThenFoldSet(LAMBDA e, state : ApplyUdrEvent(state, e), EmptyUdrState, LAMBDA e : e,
                 UdrReplayedLast, S \ UdrInvalid)

UdrRebuildEnds(r) ==
  /\ udrRead' = [udrRead EXCEPT ![r] = {}]
  /\ udrOpened' = [udrOpened EXCEPT ![r] = {}]
  /\ udrBusy' = udrBusy \ {r}

PutUdrState(r) ==
  /\ r \in udrBusy
  /\ udrRow' = FoldedUdr(udrOpened[r])
  /\ UdrRebuildEnds(r)
  /\ UNCHANGED udrLog

\* The tab closes, or a store call rejects.
UdrRebuildStops(r) ==
  /\ r \in udrBusy
  /\ UdrRebuildEnds(r)
  /\ UNCHANGED <<udrLog, udrRow>>

UdrNext ==
  \/ \E e \in UdrEvents : AppendUdrEvent(e) \/ AppendSealedUdrEvent(e)
  \/ \E r \in UdrRebuilders : ReadUdrLog(r) \/ PutUdrState(r) \/ UdrRebuildStops(r)

UdrSpec == UdrInit /\ [][UdrNext]_udrVars

-----------------------------------------------------------------------------
(* Properties.                                                             *)

\* The state of the user data root, and the row never ahead of the log that it
\* is rebuilt from.
UdrTypeOK ==
  /\ udrLog \subseteq UdrEvents
  /\ udrRow \in UdrState
  /\ udrRow.applied \subseteq udrLog \ UdrInvalid
  /\ udrRead \in [UdrRebuilders -> SUBSET udrLog]
  /\ udrOpened \in [UdrRebuilders -> SUBSET udrLog]
  /\ udrBusy \subseteq UdrRebuilders

\* What is neither said to be added nor to be removed later than that.
NewestUdr(S) == {e \in S : \A f \in S : f.item = e.item /\ f.kind # "bound" => ~UdrBefore(e, f)}

BoundBy(S) ==
  LET bound == {e \in S : e.kind = "bound"}
  IN  IF bound = {} THEN NoMailbox
      ELSE (CHOOSE e \in bound : \A f \in bound : ~UdrBefore(e, f)).item

\* What a log says, event by event and without a fold.
UdrOf(S) ==
  [members |-> {e.item : e \in {f \in NewestUdr(S) : f.kind = "added"}},
   mailbox |-> BoundBy(S),
   updatedAt |-> IF S = {} THEN 0 ELSE (CHOOSE e \in S : \A f \in S : f.at <= e.at).at,
   applied |-> S]

\* The log is the authority: a rebuild that has read all of it and can open it
\* puts the row right whatever the order of arrival has made of it, and the row
\* forgets an event only in a rebuild that has missed an append since or whose
\* key opened less.
UdrRebuildsHeal ==
  [][/\ \A r \in UdrRebuilders :
          PutUdrState(r) /\ udrOpened[r] = udrLog => udrRow' = UdrOf(udrLog \ UdrInvalid)
     /\ \A e \in udrRow.applied \ udrRow'.applied :
          \E r \in UdrRebuilders :
            PutUdrState(r) /\ (e \notin udrRead[r] \/ e \notin udrOpened[r])]_udrVars
=============================================================================
