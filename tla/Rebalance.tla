------------------------------ MODULE Rebalance ------------------------------
(***************************************************************************)
(* RebalanceAdvisor::check (rebalance_advisor.rs): which transfers it        *)
(* advises for a snapshot of the accounts.  Amounts are whole USDT, ratios   *)
(* are tenths.                                                              *)
(*                                                                         *)
(* A snapshot maps the exchanges that answered the last poll to              *)
(*   [equity, available, counted, deposits, withdrawals]                     *)
(* counted: the margin ratio was computed; if not it is zero, as it always   *)
(* is for Binance.                                                          *)
(***************************************************************************)
EXTENDS Integers, SequencesExt, FiniteSetsExt

LOW == 4             \* margin_threshold_low 0.4
CONCENTRATION == 7   \* concentration_threshold 0.7
TARGET == 2          \* target_margin_ratio 0.2
MIN_TRANSFER == 25
MIN_CONCENTRATION == 100
MIN_DONOR == 100
BUFFER == 50         \* stays with a donor

Locked(a) == IF a.counted THEN a.equity - a.available ELSE 0
\* Mutation of AboveLow: already above the target.
AboveTarget(a) == 10 * Locked(a) > TARGET * a.equity

AboveLow(a) == 10 * Locked(a) > LOW * a.equity
BelowLow(a) == a.equity = 0 \/ 10 * Locked(a) < LOW * a.equity

\* calculate_required_amount: with X more the margin ratio is the target again.
Required(a) == LET x == ((10 - TARGET) * a.equity - 10 * a.available) \div TARGET
               IN IF x > 0 THEN x ELSE 0

Total(s) == SumFunction([x \in DOMAIN s |-> s[x].equity])

Recipients(s) == {x \in DOMAIN s : s[x].deposits /\ AboveLow(s[x]) /\ Required(s[x]) > 0}

Donors(s) == {x \in DOMAIN s : s[x].withdrawals /\ BelowLow(s[x]) /\ s[x].available > MIN_DONOR}

\* Most available balance first: the last of D to be asked.
LastAsked(s, D) == CHOOSE d \in D : \A e \in D : s[d].available <= s[e].available

\* What donor d adds to what r has got so far.
Asked(s, r, d, got) ==
  LET amount == Min({got.missing, s[d].available - BUFFER})
  IN IF got.missing > 0 /\ amount >= MIN_TRANSFER
     THEN [missing |-> got.missing - amount,
           advice |-> got.advice \cup {[why |-> "margin", from |-> d, to |-> r, amount |-> amount]}]
     ELSE got

\* What one recipient is promised, donor after donor.
Promised(s, r) ==
  MapThenFoldSet(LAMBDA d, got : Asked(s, r, d, got),
                 [missing |-> Required(s[r]), advice |-> {}],
                 LAMBDA d : d, LAMBDA D : LastAsked(s, D), Donors(s)).advice

\* The surplus over the threshold goes to Binance, also when it is on Binance.
Surplus(s, x) == (10 * s[x].equity - CONCENTRATION * Total(s)) \div 10
Concentrated(s) ==
  {[why |-> "concentration", from |-> x, to |-> "Binance", amount |-> Surplus(s, x)] :
     x \in {y \in DOMAIN s : Surplus(s, y) >= MIN_CONCENTRATION}}

Advice(s) ==
  IF Total(s) = 0 THEN {}
  ELSE (UNION {Promised(s, r) : r \in Recipients(s)}) \cup Concentrated(s)

=============================================================================
