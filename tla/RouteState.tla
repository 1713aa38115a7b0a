----------------------------- MODULE RouteState ------------------------------
(***************************************************************************)
(* What is known of the route of one envelope, of                          *)
(* packages/mailbox-runtime/src/index.ts: each receipt that is valid moves *)
(* the status on, or leaves it.  Receipts are issued by providers and by   *)
(* recipients, and arrive in any order and more than once.                 *)
(***************************************************************************)
EXTENDS Naturals, FiniteSets

CONSTANTS
  RouteKeepers,   \* those who follow the route, each with a state of its own
  Receipts,       \* records [id, envelope, type, at] of the receipts there are
  ThisEnvelope,   \* the envelope that is followed
  NoDate          \* a time stamp that is not a date

VARIABLES
  rsStatus,     \* the status that each of them has
  rsUpdatedAt,  \* since when
  rsReceiptIds  \* and the receipts it has taken

rsVars == <<rsStatus, rsUpdatedAt, rsReceiptIds>>

STATUS_PRECEDENCE ==
  [queued |-> 0, submitted |-> 1, accepted |-> 2, rejected |-> 3, fetched |-> 4,
   expired |-> 5, unreadable |-> 5, failed |-> 5, applied |-> 6]

receiptTypeToStatus ==
  [providerAccepted |-> "accepted", providerRejected |-> "rejected",
   providerExpired |-> "expired", recipientFetched |-> "fetched",
   recipientRejected |-> "failed", recipientApplied |-> "applied",
   recipientUnreadable |-> "unreadable"]

MailboxReceipt ==
  [id: Nat, envelope: Nat, type: DOMAIN receiptTypeToStatus, at: Nat \cup {NoDate}]

ASSUME RouteAssumption ==
  /\ Receipts \subseteq MailboxReceipt
  /\ \A r, s \in Receipts : r.id = s.id => r = s
  /\ NoDate \notin Nat

\* createQueuedMailboxRouteState asks for a time stamp, not for a date.
RouteInit ==
  \E createdAt \in {0, NoDate} :
    /\ rsStatus = [k \in RouteKeepers |-> "queued"]
    /\ rsUpdatedAt = [k \in RouteKeepers |-> createdAt]
    /\ rsReceiptIds = [k \in RouteKeepers |-> {}]

-----------------------------------------------------------------------------
isNewerTimestamp(at, current) == at # NoDate /\ (current = NoDate \/ at > current)

\* Faulty variant: a receipt of the same rank replaces the one before it.
SupersedesItsLike(status, current) == STATUS_PRECEDENCE[status] >= STATUS_PRECEDENCE[current]

Supersedes(status, current) == STATUS_PRECEDENCE[status] > STATUS_PRECEDENCE[current]

SameRank(status, current) == STATUS_PRECEDENCE[status] = STATUS_PRECEDENCE[current]

\* applyMailboxReceiptToRouteState.  It refuses the receipt of another envelope.
ApplyReceipt(k, r) ==
  /\ r.envelope = ThisEnvelope
  /\ r.id \notin rsReceiptIds[k]
  /\ rsReceiptIds' = [rsReceiptIds EXCEPT ![k] = @ \cup {r.id}]
  /\ LET status == receiptTypeToStatus[r.type]
         later == Supersedes(status, rsStatus[k])
         newer == SameRank(status, rsStatus[k]) /\ isNewerTimestamp(r.at, rsUpdatedAt[k])
     IN  /\ rsStatus' = [rsStatus EXCEPT ![k] = IF later THEN status ELSE @]
         /\ rsUpdatedAt' = [rsUpdatedAt EXCEPT ![k] = IF later \/ newer THEN r.at ELSE @]

ReceiptAgain(k, r) == r.id \in rsReceiptIds[k] /\ UNCHANGED rsVars

RouteNext == \E k \in RouteKeepers, r \in Receipts : ApplyReceipt(k, r) \/ ReceiptAgain(k, r)

RouteSpec == RouteInit /\ [][RouteNext]_rsVars

-----------------------------------------------------------------------------
(* Properties.                                                             *)

RouteTypeOK ==
  /\ rsStatus \in [RouteKeepers -> DOMAIN STATUS_PRECEDENCE]
  /\ \A k \in RouteKeepers : rsUpdatedAt[k] \in Nat \cup {NoDate}
  /\ rsReceiptIds \in [RouteKeepers -> SUBSET {r.id : r \in Receipts}]

\* Two who have taken the same receipts, in whatever order, agree how far the
\* envelope has come and since when; and on the status itself, but for the three
\* ways to end without being applied, which are of one rank, so that the first
\* one stays.
RoutesAgree ==
  \A k, l \in RouteKeepers :
    rsReceiptIds[k] = rsReceiptIds[l] =>
      /\ SameRank(rsStatus[k], rsStatus[l])
      /\ rsUpdatedAt[k] = rsUpdatedAt[l]
      /\ rsStatus[k] # rsStatus[l] =>
           {rsStatus[k], rsStatus[l]} \subseteq {"expired", "unreadable", "failed"}
=============================================================================
