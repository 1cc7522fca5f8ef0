---------------------------- MODULE SlidingWindow ----------------------------
(***************************************************************************)
(* What a rate limiter promises, with no bucket in it: for every limited    *)
(* budget and every past instant t, the weight granted since t is at most   *)
(* Cap + Rate * (now - t).  A request is granted exactly when it breaks     *)
(* none of these bounds, and denied exactly when it would break one.        *)
(* RateLimiter implements this specification with two numbers per budget.   *)
(***************************************************************************)
EXTENDS Integers

CONSTANTS
  Budget,     \* the budgets: one per exchange and kind of request
  Cap,        \* Cap[b]: the burst a budget allows
  Rate,       \* Rate[b]: the weight it earns per tick
  Weight,     \* Weight[b]: the weight of one request on it
  MaxTime     \* bound of the clock

VARIABLES
  clock,      \* the current instant
  granted,    \* granted[b]: the weight granted so far
  before,     \* before[b][t]: the weight granted before instant t
  answer      \* the last answer given: of which budget (none: {}), and whether granted

wvars == <<clock, granted, before, answer>>

NoAnswer == [of |-> {}, ok |-> FALSE]

\* One more request of weight w fits every window that ends now.
Fits(b, w) ==
  \A t \in 0..clock :
    granted[b] - before[b][t] + w <= Cap[b] + Rate[b] * (clock - t)

WInit ==
  /\ clock = 0
  /\ granted = [b \in Budget |-> 0]
  /\ before = [b \in Budget |-> [t \in 0..MaxTime |-> 0]]
  /\ answer = NoAnswer

WTick ==
  /\ clock < MaxTime
  /\ clock' = clock + 1
  /\ before' = [b \in Budget |-> [before[b] EXCEPT ![clock + 1] = granted[b]]]
  /\ UNCHANGED <<granted, answer>>

WGrant(b) ==
  /\ Fits(b, Weight[b])
  /\ granted' = [granted EXCEPT ![b] = @ + Weight[b]]
  /\ answer' = [of |-> {b}, ok |-> TRUE]
  /\ UNCHANGED <<clock, before>>

WDeny(b) ==
  /\ ~Fits(b, Weight[b])
  /\ answer' = [of |-> {b}, ok |-> FALSE]
  /\ UNCHANGED <<clock, granted, before>>

\* A request on something that has no budget is always granted.
WUnlimited ==
  /\ answer' = [of |-> {}, ok |-> TRUE]
  /\ UNCHANGED <<clock, granted, before>>

WNext == WTick \/ WUnlimited \/ \E b \in Budget : WGrant(b) \/ WDeny(b)

WSpec == WInit /\ [][WNext]_wvars

=============================================================================
