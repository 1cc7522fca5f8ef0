----------------------------- MODULE TokenBucket -----------------------------
(***************************************************************************)
(* The token bucket of bot/src/rate_limiter.rs as pure operators on a       *)
(* record.  The code keeps tokens as f64 and time as Instant; here both are *)
(* integers: one tick is the time in which a bucket earns rate tokens, so   *)
(* the rounding of f64 is the only thing left out.                          *)
(***************************************************************************)
EXTENDS Integers

\* TokenBucket::new: a bucket starts full.
NewBucket(max, rate, now) ==
  [tokens |-> max, max_tokens |-> max, refill_rate |-> rate, last_refill |-> now]

\* Mutation of Available: the min with max_tokens is forgotten.
AvailableUncapped(b, now) == b.tokens + (now - b.last_refill) * b.refill_rate

\* The tokens a refill at time now would leave in the bucket.
Available(b, now) ==
  LET earned == b.tokens + (now - b.last_refill) * b.refill_rate
  IN  IF earned <= b.max_tokens THEN earned ELSE b.max_tokens

\* Mutation of Refill: last_refill is not moved to now.
RefillKeepsClock(b, now) == [b EXCEPT !.tokens = Available(b, now)]

\* TokenBucket::refill
Refill(b, now) ==
  [b EXCEPT !.tokens = Available(b, now), !.last_refill = now]

\* Mutation of CanAcquire: the weight is compared with one token too many.
CanAcquireOffByOne(b, weight, now) == Available(b, now) + 1 >= weight

\* The test of TokenBucket::acquire, after its refill.
CanAcquire(b, weight, now) == Available(b, now) >= weight

\* Mutation of AfterAcquire: a denied request moves last_refill without
\* crediting what the bucket earned.
AfterAcquireDropsEarned(b, weight, now) ==
  IF CanAcquire(b, weight, now) THEN [Refill(b, now) EXCEPT !.tokens = @ - weight]
                                ELSE [b EXCEPT !.last_refill = now]

\* TokenBucket::acquire on the bucket: it refills whatever the answer, and
\* deducts the weight only when it grants.
AfterAcquire(b, weight, now) ==
  LET r == Refill(b, now)
  IN  IF CanAcquire(b, weight, now) THEN [r EXCEPT !.tokens = @ - weight] ELSE r

\* The values a bucket may take.
BucketType(max, rate) ==
  [tokens: 0..max, max_tokens: {max}, refill_rate: {rate}, last_refill: Nat]

=============================================================================
