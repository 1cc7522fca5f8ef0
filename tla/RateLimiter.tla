----------------------------- MODULE RateLimiter -----------------------------
(***************************************************************************)
(* bot/src/rate_limiter.rs: two token buckets, "rest" and "order", for each *)
(* exchange in the map and none for the others.  check_limit is called by   *)
(* the public poller, the private poller (rest) and the execution actor     *)
(* (order); each bucket is behind its own tokio Mutex and reads the time    *)
(* inside the critical section, so one acquire is one atomic step.          *)
(***************************************************************************)
EXTENDS TokenBucket

CONSTANTS
  Exchange,   \* every exchange the bot trades on
  Limited,    \* those RateLimiter::new inserts into the map
  Kind,       \* {"rest", "order"}
  Cap,        \* Cap[<<e, k>>]: max_tokens of that bucket
  Rate,       \* Rate[<<e, k>>]: refill_rate, in tokens per tick
  Weight,     \* Weight[<<e, k>>]: the weight the callers ask of that bucket
  MaxTime,    \* bound of the clock
  SECOND      \* ticks in one second

Budget == Limited \X Kind

ASSUME RateLimiterAssumption ==
  /\ Limited \subseteq Exchange
  /\ Cap \in [Budget -> Nat]
  /\ Rate \in [Budget -> Nat]
  /\ Weight \in [Budget -> Nat]
  /\ MaxTime \in Nat
  /\ SECOND \in Nat

VARIABLES
  bucket,     \* bucket[<<e, k>>]: the TokenBucket record
  clock,      \* Instant::now()
  granted,    \* history: weight granted so far by each bucket
  before,     \* history: before[b][t], the weight granted before instant t
  answer      \* what the last check_limit returned

vars == <<bucket, clock, granted, before, answer>>

NoAnswer == [of |-> {}, ok |-> FALSE]

Init ==
  /\ bucket = [b \in Budget |-> NewBucket(Cap[b], Rate[b], 0)]
  /\ clock = 0
  /\ granted = [b \in Budget |-> 0]
  /\ before = [b \in Budget |-> [t \in 0..MaxTime |-> 0]]
  /\ answer = NoAnswer

\* check_limit finds a limiter and its bucket has the tokens.
Grant(b) ==
  /\ CanAcquire(bucket[b], Weight[b], clock)
  /\ bucket' = [bucket EXCEPT ![b] = AfterAcquire(@, Weight[b], clock)]
  /\ granted' = [granted EXCEPT ![b] = @ + Weight[b]]
  /\ answer' = [of |-> {b}, ok |-> TRUE]
  /\ UNCHANGED <<clock, before>>

\* check_limit finds a limiter and its bucket has too few tokens: the bucket
\* is refilled all the same.
Deny(b) ==
  /\ ~CanAcquire(bucket[b], Weight[b], clock)
  /\ bucket' = [bucket EXCEPT ![b] = AfterAcquire(@, Weight[b], clock)]
  /\ answer' = [of |-> {b}, ok |-> FALSE]
  /\ UNCHANGED <<clock, granted, before>>

\* check_limit on an exchange that has no limiter.
Unlimited(e) ==
  /\ e \notin Limited
  /\ answer' = [of |-> {}, ok |-> TRUE]
  /\ UNCHANGED <<bucket, clock, granted, before>>

Tick ==
  /\ clock < MaxTime
  /\ clock' = clock + 1
  /\ before' = [b \in Budget |-> [before[b] EXCEPT ![clock + 1] = granted[b]]]
  /\ UNCHANGED <<bucket, granted, answer>>

Next ==
  \/ Tick
  \/ \E b \in Budget : Grant(b)
  \/ \E b \in Budget : Deny(b)
  \/ \E e \in Exchange : Unlimited(e)

Spec == Init /\ [][Next]_vars

-----------------------------------------------------------------------------
\* Every variable holds a value of its type; a bucket never holds a negative
\* number of tokens nor more than its maximum, and was refilled in the past.
TypeOK ==
  /\ bucket \in [Budget -> [tokens: Int, max_tokens: Nat, refill_rate: Nat, last_refill: Nat]]
  /\ \A b \in Budget : /\ bucket[b] \in BucketType(Cap[b], Rate[b])
                       /\ bucket[b].last_refill <= clock
  /\ clock \in 0..MaxTime
  /\ granted \in [Budget -> Nat]
  /\ before \in [Budget -> [0..MaxTime -> Nat]]
  /\ answer \in [of: SUBSET Budget, ok: BOOLEAN]

\* The weight bucket b has granted in [t, clock].
GrantedSince(b, t) == granted[b] - before[b][t]

\* Over any window that ends now a bucket grants at most its burst plus what
\* it earns in the window: lazy refills, denials and the cap never create a
\* token (TokenBucket::refill, acquire).
WindowBound ==
  \A b \in Budget : \A t \in 0..clock :
    GrantedSince(b, t) <= Cap[b] + Rate[b] * (clock - t)

\* The bucket is never stricter than that either: some window leaves exactly
\* the tokens a refill would find, so no token is lost by a denial, by a
\* refill that is late or by the order of the callers.
WindowTight ==
  \A b \in Budget : \E t \in 0..clock :
    GrantedSince(b, t) + Available(bucket[b], clock) = Cap[b] + Rate[b] * (clock - t)

\* check_limit gives the answers of the sliding-window limiter: two numbers
\* per bucket decide the same as the whole history of grants.
Window == INSTANCE SlidingWindow WITH
  clock <- clock, granted <- granted, before <- before, answer <- answer
ImplementsWindow == Window!WSpec

-----------------------------------------------------------------------------
\* "Orders: 10 per sec" (the comment in RateLimiter::new on the order bucket
\* that is given a burst of Cap and a refill of Cap per second): no window of
\* one second grants more than Cap orders.
CapPerSecond ==
  \A b \in Limited \X {"order"} : \A t \in 0..clock :
    clock - t < SECOND => GrantedSince(b, t) <= Cap[b]

=============================================================================
