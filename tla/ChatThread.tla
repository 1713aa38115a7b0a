----------------------------- MODULE ChatThread ------------------------------
(***************************************************************************)
(* The projection of a thread of messages, of                              *)
(* packages/chat-projection/src/index.ts.  Each device folds the events of *)
(* the thread as it receives and opens them, in an order of its own.  One  *)
(* that does not fit is refused, and is not remembered as applied, so that *)
(* it may be tried again.                                                  *)
(***************************************************************************)
EXTENDS Naturals, FiniteSets

CONSTANTS
  ChatDevices,   \* devices that project the thread
  ThisThread,    \* its id
  ChatEvents,    \* records [id, kind, thread, by, message, body, at]
  NoBody,        \* the body of a message that was deleted
  NoThread       \* the event of a thread that was not created yet

VARIABLES
  ctCreated,     \* the event that created the thread, of each device
  ctMessages,    \* the messages: a set of records
  ctAcceptedBy,  \* the devices that have accepted the thread
  ctActivity,    \* lastActivityAt
  ctApplied      \* the events that were applied

ctVars == <<ctCreated, ctMessages, ctAcceptedBy, ctActivity, ctApplied>>

ChatEvent ==
  [id: Nat, kind: {"created", "sent", "edited", "deleted", "accepted", "unknown"},
   thread: Nat, by: Nat, message: Nat, body: Nat, at: Nat]

ASSUME ChatAssumption ==
  /\ ChatEvents \subseteq ChatEvent
  /\ \A e, f \in ChatEvents : e.id = f.id => e = f
  /\ NoThread \notin Nat

ChatMessageRecord ==
  [id: Nat, by: Nat, body: Nat \cup {NoBody}, deleted: BOOLEAN]

ChatInit ==
  /\ ctCreated = [d \in ChatDevices |-> NoThread]
  /\ ctMessages = [d \in ChatDevices |-> {}]
  /\ ctAcceptedBy = [d \in ChatDevices |-> {}]
  /\ ctActivity = [d \in ChatDevices |-> 0]
  /\ ctApplied = [d \in ChatDevices |-> {}]

-----------------------------------------------------------------------------
Message(d, id) == {m \in ctMessages[d] : m.id = id}

\* applyChatEvent: an event is applied once, and only to its own thread.
Applies(d, e, kind) ==
  /\ e.kind = kind
  /\ e.id \notin ctApplied[d]
  /\ kind # "unknown" => e.thread = ThisThread
  /\ kind \notin {"created", "unknown"} => ctCreated[d] # NoThread
  /\ ctApplied' = [ctApplied EXCEPT ![d] = @ \cup {e.id}]

ActiveAt(d, e) == ctActivity' = [ctActivity EXCEPT ![d] = e.at]

ThreadCreated(d, e) ==
  /\ Applies(d, e, "created")
  /\ ctCreated[d] = NoThread
  /\ ctCreated' = [ctCreated EXCEPT ![d] = e.id]
  /\ ActiveAt(d, e)
  /\ UNCHANGED <<ctMessages, ctAcceptedBy>>

\* A second event of the same message changes nothing.
MessageSent(d, e) ==
  /\ Applies(d, e, "sent")
  /\ IF Message(d, e.message) # {} THEN UNCHANGED <<ctMessages, ctActivity>>
     ELSE /\ ctMessages' = [ctMessages EXCEPT ![d] =
                @ \cup {[id |-> e.message, by |-> e.by, body |-> e.body, deleted |-> FALSE]}]
          /\ ActiveAt(d, e)
  /\ UNCHANGED <<ctCreated, ctAcceptedBy>>

Replace(d, m, n) == ctMessages' = [ctMessages EXCEPT ![d] = (@ \ {m}) \cup {n}]

\* Faulty variant: what was deleted may be edited.
EditsAnything(m) == m.deleted \in BOOLEAN

Edits(m) == ~m.deleted

MessageEdited(d, e) ==
  /\ Applies(d, e, "edited")
  /\ \E m \in Message(d, e.message) :
       /\ Edits(m)
       /\ Replace(d, m, [m EXCEPT !.body = e.body])
  /\ ActiveAt(d, e)
  /\ UNCHANGED <<ctCreated, ctAcceptedBy>>

MessageDeleted(d, e) ==
  /\ Applies(d, e, "deleted")
  /\ \E m \in Message(d, e.message) :
       IF m.deleted THEN UNCHANGED <<ctMessages, ctActivity>>
       ELSE Replace(d, m, [m EXCEPT !.body = NoBody, !.deleted = TRUE]) /\ ActiveAt(d, e)
  /\ UNCHANGED <<ctCreated, ctAcceptedBy>>

ThreadAccepted(d, e) ==
  /\ Applies(d, e, "accepted")
  /\ ctAcceptedBy' = [ctAcceptedBy EXCEPT ![d] = @ \cup {e.by}]
  /\ ActiveAt(d, e)
  /\ UNCHANGED <<ctCreated, ctMessages>>

\* A kind of a later version is only remembered.
UnknownPasses(d, e) ==
  /\ Applies(d, e, "unknown")
  /\ UNCHANGED <<ctCreated, ctMessages, ctAcceptedBy, ctActivity>>

\* Whichever of the applied events comes again.
ChatEventAgain(d) == ctApplied[d] # {} /\ UNCHANGED ctVars

ChatNext ==
  \E d \in ChatDevices :
    \/ ChatEventAgain(d)
    \/ \E e \in ChatEvents :
         \/ ThreadCreated(d, e) \/ ThreadAccepted(d, e) \/ UnknownPasses(d, e)
         \/ MessageSent(d, e) \/ MessageEdited(d, e) \/ MessageDeleted(d, e)

ChatSpec == ChatInit /\ [][ChatNext]_ctVars

-----------------------------------------------------------------------------
(* Properties.                                                             *)

ChatTypeOK ==
  \A d \in ChatDevices :
    /\ ctMessages[d] \subseteq ChatMessageRecord
    /\ ctApplied[d] \subseteq {e.id : e \in ChatEvents}
    /\ ctCreated[d] \in ctApplied[d] \cup {NoThread}

Of(d, kind, id) ==
  {e \in ChatEvents : e.kind = kind /\ e.message = id /\ e.id \in ctApplied[d]}

\* What was sent again is what was sent before, and no other message under its id.
SentAlike(d, id) == \A e, f \in Of(d, "sent", id) : e.by = f.by /\ e.body = f.body

\* Two devices that have applied the same events, in whatever order they could,
\* show the same: who has accepted the thread, which messages there are and which
\* were deleted, whose bodies neither shows any more; and, unless two messages were
\* sent under one id, whose each is, and the same body, unless it was edited twice.
ThreadsAgree ==
  /\ \A d \in ChatDevices : \A m \in ctMessages[d] : m.deleted => m.body = NoBody
  /\ \A c, d \in ChatDevices : ctApplied[c] = ctApplied[d] =>
       /\ ctCreated[c] = ctCreated[d] /\ ctAcceptedBy[c] = ctAcceptedBy[d]
       /\ \A m \in ctMessages[c] : \E n \in ctMessages[d] :
            /\ n.id = m.id /\ n.deleted = m.deleted
            /\ SentAlike(c, m.id) =>
                 /\ n.by = m.by
                 /\ Cardinality(Of(c, "edited", m.id)) < 2 => n.body = m.body
=============================================================================
