------------------------------ MODULE MCDevice ------------------------------
(* The parts of a client that share no variable, for TLC: the mailbox, the   *)
(* user data root, the projections of an MLS group and of the identity's     *)
(* authority in the local store, the keys of the device, the budget for      *)
(* sends, the checks of an event, what is sealed for the devices of others,  *)
(* routes and threads.  A behaviour exercises one part, so that their state  *)
(* spaces add up.                                                            *)
EXTENDS MCMailbox, UserDataRoot, MlsGroup, IdentityAuthority, DeviceIdentity, SendBudget,
        EventEnvelope, SealedMail, RouteState, ChatThread

VARIABLE part   \* the part that a behaviour exercises

-----------------------------------------------------------------------------
(* A member that is added and removed at different times, two bindings of a  *)
(* mailbox, and a payload that cannot be read.                               *)

RootEvent(kind, item, at, id) == [kind |-> kind, item |-> item, at |-> at, id |-> id]

MCUdrInvalid == {RootEvent("added", "y", 1, 5)}
MCUdrEvents ==
  MCUdrInvalid \cup
  {RootEvent("added", "x", 1, 1), RootEvent("removed", "x", 2, 2),
   RootEvent("bound", "m1", 1, 3), RootEvent("bound", "m2", 2, 4)}

-----------------------------------------------------------------------------
(* Two commits of the creator and one of a stranger that follow the creation,*)
(* what follows the first of them, and a recovery.  Identity 50 has device 1,*)
(* identity 60 has device 2.                                                 *)

Control(kind, id, prev, epoch, issuer, who, device, ref, others) ==
  [kind |-> kind, id |-> id, prev |-> prev, epoch |-> epoch, issuer |-> issuer,
   who |-> who, device |-> device, ref |-> ref, others |-> others]

MCControls ==
  {Control("created", 1, None, 0, 1, 50, {1}, None, {60}),
   Control("commit", 2, 1, 1, 1, 50, {}, 11, {}),
   Control("commit", 3, 1, 1, 1, 50, {}, 12, {}),
   Control("commit", 4, 1, 1, 9, 50, {}, 10, {}),
   Control("added", 6, 2, 1, 1, 60, {2}, None, {}),
   Control("recovery", 8, 2, 1, 1, 50, {}, 3, {2}),
   Control("advanced", 10, 2, 2, 1, 50, {}, None, {}),
   Control("stale", 11, 2, 1, 1, 50, {}, 3, {})}

-----------------------------------------------------------------------------
(* The first key k authorizes device d2, which is granted a capability, is   *)
(* authorized again and revoked, and authorized and revoked once more; the   *)
(* capability is withdrawn; a malformed authorization of a later epoch.      *)

ControlEvent(kind, id, at, epoch, device, key) ==
  [kind |-> kind, id |-> id, at |-> at, epoch |-> epoch, by |-> "k", device |-> device,
   key |-> key, was |-> "k", cap |-> "c", scope |-> "publish", expires |-> 1]

MCIdMalformed == {ControlEvent("authorized", 10, 3, 9, "d2", "k")}
MCIdEvents ==
  MCIdMalformed \cup
  {ControlEvent("created", 1, 0, 0, "d1", "k"),
   ControlEvent("authorized", 2, 1, 1, "d2", "k2"),
   ControlEvent("authorized", 5, 2, 1, "d2", "k3"),
   ControlEvent("revoked", 3, 3, 2, "d2", "k"),
   ControlEvent("authorized", 4, 4, 3, "d2", "k2"),
   ControlEvent("revoked", 7, 5, 4, "d2", "k"),
   ControlEvent("granted", 6, 2, 0, "d2", "k"),
   ControlEvent("withdrawn", 8, 3, 0, "d2", "k"),
   ControlEvent("card", 9, 3, 0, "d2", "k")}

-----------------------------------------------------------------------------
(* Each identity has a device.                                               *)

MCHomeOf == [d \in {"d1", "d2"} |-> IF d = "d1" THEN "i1" ELSE "i2"]
MCHeldRef == [d \in {"d1", "d2"} |-> IF d = "d1" THEN "r1" ELSE "r2"]

-----------------------------------------------------------------------------
(* Receipts of one rank at three times, of which one is no date, of ranks    *)
(* below and above, and of another envelope.                                 *)

Receipt(id, type, at) == [id |-> id, envelope |-> 1, type |-> type, at |-> at]

MCReceipts ==
  {Receipt(1, "providerAccepted", 1), Receipt(2, "recipientFetched", 3),
   Receipt(3, "providerExpired", 2), Receipt(4, "recipientUnreadable", 1),
   Receipt(5, "recipientRejected", NoDate), Receipt(6, "recipientApplied", 1),
   [Receipt(7, "providerRejected", 1) EXCEPT !.envelope = 2]}

-----------------------------------------------------------------------------
(* A message, and another one under its id, which is edited twice and         *)
(* deleted; the other device accepts the thread; an event of another thread   *)
(* and one of an unknown kind.                                                *)

Chat(id, kind, by, body) ==
  [id |-> id, kind |-> kind, thread |-> 1, by |-> by, message |-> 1, body |-> body, at |-> id]

MCChatEvents ==
  {Chat(1, "created", 1, 0), Chat(3, "sent", 1, 1),
   Chat(4, "sent", 2, 4), Chat(5, "edited", 1, 2), Chat(6, "edited", 2, 3),
   Chat(7, "deleted", 1, 0), Chat(8, "accepted", 2, 0), Chat(9, "unknown", 2, 0),
   [Chat(10, "deleted", 1, 0) EXCEPT !.thread = 2]}

-----------------------------------------------------------------------------
DoublingDelay(n) == IF n = 1 THEN 1 ELSE 2

Idles(p) ==
  /\ p # "mailbox" => UNCHANGED vars
  /\ p # "root" => UNCHANGED udrVars
  /\ p # "group" => UNCHANGED mlsVars
  /\ p # "authority" => UNCHANGED idVars
  /\ p # "keys" => UNCHANGED diVars
  /\ p # "budget" => UNCHANGED sendVars
  /\ p # "events" => UNCHANGED evVars
  /\ p # "mail" => UNCHANGED smVars
  /\ p # "route" => UNCHANGED rsVars
  /\ p # "thread" => UNCHANGED ctVars

deviceVars ==
  <<part, vars, udrVars, mlsVars, idVars, diVars, sendVars, evVars, smVars, rsVars, ctVars>>

DeviceInit ==
  /\ part \in {"mailbox", "root", "group", "authority", "keys", "budget",
               "events", "mail", "route", "thread"}
  /\ Init /\ UdrInit /\ MlsInit /\ IdInit /\ DiInit /\ SendInit
  /\ MailInit /\ RouteInit /\ ChatInit
  /\ IF part = "events" THEN EvInit ELSE evEvent = {} /\ evStage = "none"
  /\ part # "keys" => diRow = NoRecord
  /\ part # "route" => rsUpdatedAt = [k \in RouteKeepers |-> 0]

DeviceNext ==
  /\ \/ part = "mailbox" /\ Next
     \/ part = "root" /\ UdrNext
     \/ part = "group" /\ MlsNext
     \/ part = "authority" /\ IdNext
     \/ part = "keys" /\ DiNext
     \/ part = "budget" /\ SendNext
     \/ part = "events" /\ EvNext
     \/ part = "mail" /\ MailNext
     \/ part = "route" /\ RouteNext
     \/ part = "thread" /\ ChatNext
  /\ Idles(part)
  /\ UNCHANGED part

DeviceSpec == DeviceInit /\ [][DeviceNext]_deviceVars

DeviceTypeOK ==
  /\ TypeOK /\ UdrTypeOK /\ MlsTypeOK /\ IdTypeOK /\ DiTypeOK /\ SendTypeOK
  /\ part = "events" => EvTypeOK
  /\ MailTypeOK /\ RouteTypeOK /\ ChatTypeOK
-----------------------------------------------------------------------------
(* Properties of two parts at a time.                                        *)

\* What is folded from events depends on the events and not on the order of their
\* arrival: two keepers of a route that had the same receipts show the same status, and
\* two devices that had the same chat events show the same thread, as far as RouteState
\* and ChatThread say.
ReplicasAgree == RoutesAgree /\ ThreadsAgree

\* A rebuild puts a projection right again: after the rebuild of the mailbox's rows and
\* after that of the user data root's, what is stored is what the log of events says.
ProjectionsHeal == RebuildHeals /\ UdrRebuildsHeal

\* And nothing else goes back, as far as the modules say: an envelope in its life cycle, a
\* group to an earlier epoch, a device from revoked to active.
NothingGoesBack == OnlyOldRebuildsRegress /\ MlsEpochNeverFallsBack /\ NothingIsUndone

\* What is private stays with its parties, before and after it is sealed: an event is not
\* taken for one of a wider scope, and a letter opens for those it is addressed to.
KeptByItsParties == ScopesAreKept /\ OpenedByItsParties
=============================================================================
