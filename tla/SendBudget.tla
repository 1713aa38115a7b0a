------------------------------ MODULE SendBudget ------------------------------
(***************************************************************************)
(* What lets a batch out of this tab: ForegroundSyncController of          *)
(* packages/sync-client/src/foreground-sync.ts around                      *)
(* runManualOutboxDelivery of apps/pwa/src/pwa-outbox-manual-gate.ts and   *)
(* the budget of apps/pwa/src/pwa-send-budget.ts.                          *)
(*                                                                         *)
(* A run reserves entries, waits for the gate and for the batch, and gives *)
(* back what was not attempted.  The window of the budget is rolled by a   *)
(* reservation only; time passes and may be set back while a run waits.    *)
(***************************************************************************)
EXTENDS Integers

CONSTANTS
  WindowMs, MinIntervalMs, MaxRuns, MaxEntries, \* the options of the budget
  BatchSizes,   \* what callers ask for
  RetryDelay(_),\* the back-off after so many failures
  Never,        \* no time yet
  MaxSendNow,   \* bound: the last tick of the clock
  MaxFailures   \* bound: failures that are told apart

ASSUME SendAssumption ==
  /\ WindowMs \in Nat \ {0}
  /\ MinIntervalMs \in Nat
  /\ MaxRuns \in Nat \ {0}
  /\ MaxEntries \in Nat \ {0}
  /\ BatchSizes \subseteq 1..MaxEntries
  /\ Never \notin Int
  /\ MaxSendNow \in Nat
  /\ MaxFailures \in Nat
  /\ \A failures \in 0..MaxFailures : RetryDelay(failures) \in Nat

VARIABLES
  sbWindow,   \* #windowStartedAtMs
  sbLast,     \* #lastAcceptedAtMs
  sbRuns,     \* #runs
  sbEntries,  \* #entries
  sbRun,      \* the run of the controller: where it is, and what it has reserved
  sbFailures, \* consecutiveFailures
  sbRetryAt,  \* nextRetryAt
  sbSpent,    \* entries attempted, and runs that attempted any, in this window
  sbLost,     \* entries and runs of this window whose batch was rejected
  sbNow       \* wall clock

budgetVars == <<sbWindow, sbLast, sbRuns, sbEntries>>
sendVars == <<budgetVars, sbRun, sbFailures, sbRetryAt, sbSpent, sbLost, sbNow>>

Idle == [at |-> "idle", held |-> 0]

Nothing == [entries |-> 0, runs |-> 0]

SendInit ==
  /\ sbWindow = Never
  /\ sbLast = Never
  /\ sbRuns = 0
  /\ sbEntries = 0
  /\ sbRun = Idle
  /\ sbFailures = 0
  /\ sbRetryAt = Never
  /\ sbSpent = Nothing
  /\ sbLost = Nothing
  /\ sbNow = 0

-----------------------------------------------------------------------------
(* The budget.                                                             *)

Rolls ==
  \/ sbWindow = Never
  \/ /\ sbWindow # Never
     /\ sbNow < sbWindow \/ sbNow - sbWindow >= WindowMs

\* The counters that a reservation finds.
RunsNow == IF Rolls THEN 0 ELSE sbRuns
EntriesNow == IF Rolls THEN 0 ELSE sbEntries
LastNow == IF Rolls THEN Never ELSE sbLast

IntervalActive ==
  /\ LastNow # Never
  /\ (IF sbNow > LastNow THEN sbNow - LastNow ELSE 0) < MinIntervalMs

Accepts(entries) ==
  /\ ~IntervalActive
  /\ RunsNow + 1 <= MaxRuns
  /\ EntriesNow + entries <= MaxEntries

RollWindow ==
  /\ sbWindow' = IF Rolls THEN sbNow ELSE sbWindow
  /\ sbSpent' = IF Rolls THEN Nothing ELSE sbSpent
  /\ sbLost' = IF Rolls THEN Nothing ELSE sbLost

Reserve(entries) ==
  /\ Accepts(entries)
  /\ RollWindow
  /\ sbRuns' = RunsNow + 1
  /\ sbEntries' = EntriesNow + entries
  /\ sbLast' = sbNow

Defer(entries) ==
  /\ ~Accepts(entries)
  /\ RollWindow
  /\ sbRuns' = RunsNow
  /\ sbEntries' = EntriesNow
  /\ sbLast' = LastNow

\* Faulty variant: a refund rolls the window as a reservation does.
RefundRolling(runs, entries) ==
  /\ runs <= RunsNow
  /\ entries <= EntriesNow
  /\ sbRuns' = RunsNow - runs
  /\ sbEntries' = EntriesNow - entries
  /\ sbLast' = IF sbRuns' = 0 /\ sbEntries' = 0 THEN Never ELSE LastNow
  /\ sbWindow' = IF Rolls THEN sbNow ELSE sbWindow

\* A refund does not look at the clock.
Refund(runs, entries) ==
  /\ runs <= sbRuns
  /\ entries <= sbEntries
  /\ sbRuns' = sbRuns - runs
  /\ sbEntries' = sbEntries - entries
  /\ sbLast' = IF sbRuns' = 0 /\ sbEntries' = 0 THEN Never ELSE sbLast
  /\ UNCHANGED sbWindow

-----------------------------------------------------------------------------
(* The controller.                                                         *)

BackingOff == IF sbRetryAt = Never THEN FALSE ELSE sbRetryAt > sbNow

\* A request that is not skipped: none is running, the browser is online, and
\* the back-off is over (no caller bypasses it).
RequestSync ==
  /\ sbRun = Idle
  /\ ~BackingOff
  /\ sbRun' = [Idle EXCEPT !.at = "started"]
  /\ UNCHANGED <<budgetVars, sbFailures, sbRetryAt, sbSpent, sbLost, sbNow>>

Completes ==
  /\ sbRun' = Idle
  /\ sbFailures' = 0
  /\ sbRetryAt' = Never

Fails ==
  /\ sbRun' = Idle
  /\ sbFailures' = IF sbFailures < MaxFailures THEN sbFailures + 1 ELSE sbFailures
  /\ sbRetryAt' = sbNow + RetryDelay(sbFailures')

-----------------------------------------------------------------------------
(* The run: runManualOutboxDelivery, between two loads of the local state. *)

\* The delivery is over, and the run goes on to its second load.
Delivered ==
  /\ sbRun' = [Idle EXCEPT !.at = "reload"]
  /\ UNCHANGED <<sbFailures, sbRetryAt>>

\* Offline, not authorized, or without a transport: nothing is reserved.
DeliveryBlocked ==
  /\ sbRun.at = "started"
  /\ Delivered
  /\ UNCHANGED <<budgetVars, sbSpent, sbLost, sbNow>>

ReserveBatch(entries) ==
  /\ sbRun.at = "started"
  /\ Reserve(entries)
  /\ sbRun' = [at |-> "gate", held |-> entries]
  /\ UNCHANGED <<sbFailures, sbRetryAt, sbNow>>

BudgetPauses(entries) ==
  /\ sbRun.at = "started"
  /\ Defer(entries)
  /\ Delivered
  /\ UNCHANGED sbNow

\* evaluateOutboxCapabilityGate, and a caller without a gate.
GateLetsThrough ==
  /\ sbRun.at = "gate"
  /\ sbRun' = [sbRun EXCEPT !.at = "batch"]
  /\ UNCHANGED <<budgetVars, sbFailures, sbRetryAt, sbSpent, sbLost, sbNow>>

GateDenies ==
  /\ sbRun.at = "gate"
  /\ Refund(1, sbRun.held)
  /\ Delivered
  /\ UNCHANGED <<sbSpent, sbLost, sbNow>>

\* processOutboxBatch ends with so many attempts; what is left is given back,
\* and the run too if there were none.
BatchEnds(attempted) ==
  /\ sbRun.at = "batch"
  /\ attempted <= sbRun.held
  /\ Refund(IF attempted = 0 THEN 1 ELSE 0, sbRun.held - attempted)
  /\ sbSpent' = IF attempted = 0 THEN sbSpent
                ELSE [entries |-> sbSpent.entries + attempted, runs |-> sbSpent.runs + 1]
  /\ Delivered
  /\ UNCHANGED <<sbLost, sbNow>>

\* The store rejects in the middle of a batch: the reservation stays.
BatchRejects ==
  /\ sbRun.at = "batch"
  /\ sbLost' = [entries |-> sbLost.entries + sbRun.held, runs |-> sbLost.runs + 1]
  /\ Fails
  /\ UNCHANGED <<budgetVars, sbSpent, sbNow>>

\* The local state is loaded again, and the run has ended.
ReloadEnds ==
  /\ sbRun.at = "reload"
  /\ Completes
  /\ UNCHANGED <<budgetVars, sbSpent, sbLost, sbNow>>

\* The local state cannot be loaded, before the delivery or after it: then the run fails
\* although its delivery did not.
LoadRejects ==
  /\ sbRun.at \in {"started", "reload"}
  /\ Fails
  /\ UNCHANGED <<budgetVars, sbSpent, sbLost, sbNow>>

\* Time passes, or the clock is set back.
ClockMoves ==
  /\ \E now \in {sbNow - 1, sbNow + 1} \cap (0..MaxSendNow) : sbNow' = now
  /\ UNCHANGED <<budgetVars, sbRun, sbFailures, sbRetryAt, sbSpent, sbLost>>

SendNext ==
  \/ RequestSync \/ DeliveryBlocked \/ ReloadEnds \/ LoadRejects
  \/ \E entries \in BatchSizes : ReserveBatch(entries) \/ BudgetPauses(entries)
  \/ GateLetsThrough \/ GateDenies
  \/ \E attempted \in 0..MaxEntries : BatchEnds(attempted)
  \/ BatchRejects \/ ClockMoves

SendSpec == SendInit /\ [][SendNext]_sendVars

-----------------------------------------------------------------------------
(* Properties.                                                             *)

\* The state of the budget and of the controller.
SendTypeOK ==
  /\ sbWindow \in Nat \cup {Never}
  /\ sbLast \in Nat \cup {Never}
  /\ sbRun \in [at: {"idle", "started", "gate", "batch", "reload"}, held: 0..MaxEntries]
  /\ sbFailures \in 0..MaxFailures
  /\ sbRetryAt \in Nat \cup {Never}
  /\ sbNow \in 0..MaxSendNow

\* The counters of a window are what was attempted in it, what was lost to
\* rejected batches (nothing else is) and what the current run holds, however
\* long that run has waited: so that a refund is never more than was reserved,
\* and no window lets out more than its budget.
BudgetAccounts ==
  /\ sbEntries = sbSpent.entries + sbLost.entries + sbRun.held
  /\ sbRuns = sbSpent.runs + sbLost.runs + (IF sbRun.held > 0 THEN 1 ELSE 0)
  /\ sbEntries <= MaxEntries
  /\ sbRuns <= MaxRuns
=============================================================================
