----------------------------- MODULE BlockStore ------------------------------
(***************************************************************************)
(* Requests for content-addressed blocks, of packages/block-store/src: the *)
(* fetchers are asked in their order of preference, what they bring is     *)
(* verified, transient failures are retried after a delay, and a breaker   *)
(* for each fetcher, shared by all requests, keeps them from one that      *)
(* fails until a single probe has found it well again.  The bytes          *)
(* themselves, their decoding and the delays' length are abstracted away.  *)
(***************************************************************************)
EXTENDS Naturals, FiniteSets, FiniteSetsExt

CONSTANTS
  Fetchers,       \* 1..n, in the order of preference
  BlockRequests,  \* requests, each of which may be under way
  Threshold, Cooldown, MaxCooldown,   \* of the breaker
  MaxTries,       \* maxAttemptsPerFetcher
  MaxBsNow        \* bound: time

ASSUME BlockStoreAssumption ==
  /\ Fetchers = 1..Cardinality(Fetchers)
  /\ {Threshold, MaxTries} \subseteq Nat \ {0}
  /\ {Cooldown, MaxCooldown, MaxBsNow} \subseteq Nat
  /\ Cooldown <= MaxCooldown

VARIABLES
  bsNow,
  bsHealth,   \* the breakers: [failures, trips, openUntil, probing]
  bsWork,     \* of each request: [step, at, try, probe, tried]
  bsLeft      \* history: fetchers whose probe was aborted

bsVars == <<bsNow, bsHealth, bsWork, bsLeft>>

Steps == {"idle", "fetching", "verifying", "sleeping", "got", "unavailable", "aborted"}

\* A breaker that is closed; openUntil is 0 then, and no time of the clock is.
Closed == [failures |-> 0, trips |-> 0, openUntil |-> 0, probing |-> FALSE]

NoWork == [step |-> "idle", at |-> 0, try |-> 0, probe |-> FALSE,
           tried |-> [f \in Fetchers |-> "no"]]

BlockInit ==
  /\ bsNow = 1
  /\ bsHealth = [f \in Fetchers |-> Closed]
  /\ bsWork = [r \in BlockRequests |-> NoWork]
  /\ bsLeft = {}

-----------------------------------------------------------------------------
(* FetcherHealthTracker.                                                   *)

\* canAttempt; the caller that finds the cooldown over has the probe.
CanAttempt(b) == b.openUntil = 0 \/ (b.openUntil <= bsNow /\ ~b.probing)

Attempted(b) == [b EXCEPT !.probing = b.openUntil # 0]

\* The length x of a cooldown, with the bound put on it.
AtMost(bound, x) == IF x \in 0..bound THEN x ELSE bound

\* Faulty variant: a probe that fails is not over.
RecordFailureOnly(b) ==
  IF b.failures + 1 >= Threshold \/ b.probing
  THEN [b EXCEPT !.failures = 0, !.trips = @ + 1,
                 !.openUntil = bsNow + AtMost(MaxCooldown, Cooldown * 2 ^ b.trips)]
  ELSE [b EXCEPT !.failures = @ + 1]

\* Any failure ends a probe, whichever request it is of.
recordFailure(b) ==
  IF b.probing \/ b.failures + 1 >= Threshold
  THEN [failures |-> 0, trips |-> b.trips + 1, probing |-> FALSE,
        openUntil |-> bsNow + AtMost(MaxCooldown, Cooldown * 2 ^ b.trips)]
  ELSE [b EXCEPT !.failures = @ + 1]

recordSuccess == Closed

-----------------------------------------------------------------------------
(* getBlock.                                                               *)

\* The fetchers from i on that would be asked with the breakers h.
Willing(h, i) == {f \in Fetchers : f >= i /\ CanAttempt(h[f])}

\* The request w goes on with the fetchers from i on, passing over those that are
\* refused; h are the breakers now.
AskNext(r, w, h, i) ==
  LET willing == Willing(h, i)
      refused == IF willing = {} THEN {f \in Fetchers : f >= i} ELSE i..(Min(willing) - 1)
      tried == [f \in Fetchers |-> IF f \in refused THEN "refused" ELSE w.tried[f]]
  IN  IF willing = {}
      THEN /\ bsWork' = [bsWork EXCEPT ![r] =
                [NoWork EXCEPT !.step = "unavailable", !.tried = tried]]
           /\ bsHealth' = h
      ELSE LET f == Min(willing)
           IN  /\ bsWork' = [bsWork EXCEPT ![r] =
                    [step |-> "fetching", at |-> f, try |-> 1, probe |-> h[f].openUntil # 0,
                     tried |-> tried]]
               /\ bsHealth' = [h EXCEPT ![f] = Attempted(@)]

\* Of a block that can be verified and is not too large: no other request goes out.
RequestBegins(r) ==
  /\ bsWork[r].step \notin {"fetching", "verifying", "sleeping"}
  /\ AskNext(r, NoWork, bsHealth, 1)
  /\ UNCHANGED <<bsNow, bsLeft>>

\* What a request's fetcher did, and the request goes on with the one after it.
GivesUpOn(r, h) ==
  LET f == bsWork[r].at
  IN  AskNext(r, [bsWork[r] EXCEPT !.tried[f] = "failed"], [bsHealth EXCEPT ![f] = h], f + 1)

\* not-found is the answer of a fetcher that is well.
AnswersNotFound(r) ==
  /\ bsWork[r].step = "fetching"
  /\ GivesUpOn(r, recordSuccess)
  /\ UNCHANGED <<bsNow, bsLeft>>

\* A transient error, an exception or an answer of no known shape.  There is another
\* attempt, after a delay, unless it was the last one or the breaker has opened.
AnswersTransient(r) ==
  LET w == bsWork[r]
      h == recordFailure(bsHealth[w.at])
  IN  /\ w.step = "fetching"
      /\ IF w.try < MaxTries /\ CanAttempt(h)
         THEN /\ bsHealth' = [bsHealth EXCEPT ![w.at] = Attempted(h)]
              /\ bsWork' = [bsWork EXCEPT ![r] =
                   [@ EXCEPT !.step = "sleeping", !.probe = h.openUntil # 0]]
         ELSE GivesUpOn(r, h)
      /\ UNCHANGED <<bsNow, bsLeft>>

\* The breaker is not asked again after the delay.
Retries(r) ==
  /\ bsWork[r].step = "sleeping"
  /\ bsWork' = [bsWork EXCEPT ![r].step = "fetching", ![r].try = @ + 1]
  /\ UNCHANGED <<bsNow, bsHealth, bsLeft>>

AnswersWrongLength(r) ==
  /\ bsWork[r].step = "fetching"
  /\ GivesUpOn(r, recordFailure(bsHealth[bsWork[r].at]))
  /\ UNCHANGED <<bsNow, bsLeft>>

AnswersBytes(r) ==
  /\ bsWork[r].step = "fetching"
  /\ bsWork' = [bsWork EXCEPT ![r].step = "verifying"]
  /\ UNCHANGED <<bsNow, bsHealth, bsLeft>>

DigestFits(r) ==
  /\ bsWork[r].step = "verifying"
  /\ bsHealth' = [bsHealth EXCEPT ![bsWork[r].at] = recordSuccess]
  /\ bsWork' = [bsWork EXCEPT ![r] = [NoWork EXCEPT !.step = "got"]]
  /\ UNCHANGED <<bsNow, bsLeft>>

DigestDiffers(r) ==
  /\ bsWork[r].step = "verifying"
  /\ GivesUpOn(r, recordFailure(bsHealth[bsWork[r].at]))
  /\ UNCHANGED <<bsNow, bsLeft>>

\* The signal is seen when the fetcher returns and in a delay; the tracker is told
\* nothing of the attempt.
Aborts(r) ==
  LET w == bsWork[r]
  IN  /\ w.step \in {"fetching", "sleeping"}
      /\ bsWork' = [bsWork EXCEPT ![r] = [NoWork EXCEPT !.step = "aborted"]]
      /\ bsLeft' = IF w.probe THEN bsLeft \cup {w.at} ELSE bsLeft
      /\ UNCHANGED <<bsNow, bsHealth>>

BlockTick ==
  /\ bsNow < MaxBsNow
  /\ bsNow' = bsNow + 1
  /\ UNCHANGED <<bsHealth, bsWork, bsLeft>>

BlockNext ==
  \/ \E r \in BlockRequests :
       \/ RequestBegins(r) \/ AnswersNotFound(r) \/ AnswersTransient(r) \/ Retries(r)
       \/ AnswersWrongLength(r) \/ AnswersBytes(r) \/ DigestFits(r) \/ DigestDiffers(r)
       \/ Aborts(r)
  \/ BlockTick

BlockSpec == BlockInit /\ [][BlockNext]_bsVars

-----------------------------------------------------------------------------
(* Properties.                                                             *)

BlockTypeOK ==
  /\ \A f \in Fetchers : bsHealth[f].failures \in 0..(Threshold - 1)
  /\ \A r \in BlockRequests : bsWork[r].step \in Steps /\ bsWork[r].try \in 0..MaxTries

\* "One poisoned source cannot deny retrieval", and a breaker "self-heals": a request
\* ends without its block only when every fetcher was asked in vain or refused, and one
\* is refused only while it rests, for MaxCooldown at most, or while a request that is
\* under way probes it; or, which the comments do not say, for good, when a request that
\* probed it was aborted, since the probe is never given back.
SourcesAreTriedAgain ==
  /\ \A r \in BlockRequests :
       bsWork[r].step = "unavailable" => \A f \in Fetchers : bsWork[r].tried[f] # "no"
  /\ \A f \in Fetchers :
       /\ bsHealth[f].openUntil <= bsNow + MaxCooldown
       /\ ~CanAttempt(bsHealth[f]) =>
            \/ bsNow < bsHealth[f].openUntil
            \/ \E r \in BlockRequests : bsWork[r].at = f /\ bsWork[r].probe
            \/ f \in bsLeft
=============================================================================
