----------------------------- MODULE RateLimit -----------------------------
(***************************************************************************)
(* packages/trust-safety/src/transport-admission/rate-limit.ts: the token  *)
(* bucket of the admission engine and of the bridge's HTTP front.          *)
(*                                                                         *)
(* A limit is [capacity, ticks, base, most]: the size of the bucket, the   *)
(* ticks in which it gains a token, and the first and the longest back-off.*)
(***************************************************************************)
EXTENDS Integers

Least(a, b) == IF a < b THEN a ELSE b

createRateLimitBucket(t, limit) ==
  [tokens |-> limit.capacity, at |-> t, refusals |-> 0, cooldown |-> 0]

\* Whole tokens only; what is left of the time counts later.
refill(bucket, t, limit) ==
  LET added == (t - bucket.at) \div limit.ticks
  IN  IF t <= bucket.at \/ added <= 0 THEN bucket
      ELSE [bucket EXCEPT !.tokens = Least(limit.capacity, @ + added),
                          !.at = @ + added * limit.ticks]

nextBackoff(refusals, limit) ==
  LET unbounded == limit.base * 2 ^ (refusals - 1)
  IN  IF unbounded \in 0..limit.most THEN unbounded ELSE limit.most

tryConsume(bucket, t, limit) ==
  LET full == refill(bucket, t, limit)
      refusals == full.refusals + 1
  IN  IF t < bucket.cooldown THEN [allowed |-> FALSE, bucket |-> bucket]
      ELSE IF full.tokens >= 1
      THEN [allowed |-> TRUE,
            bucket |-> [full EXCEPT !.tokens = @ - 1, !.refusals = 0, !.cooldown = 0]]
      ELSE [allowed |-> FALSE,
            bucket |-> [full EXCEPT !.refusals = refusals,
                                    !.cooldown = t + nextBackoff(refusals, limit)]]
=============================================================================
