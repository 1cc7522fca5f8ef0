------------------------------ MODULE OrderBook ------------------------------
(***************************************************************************)
(* An order book side is a sequence of levels <<price, size>>, best first,  *)
(* as the feeds deliver it.  A price counts 0.001 USDT and a size 1000      *)
(* coins, so that price times size is a number of USDT.                     *)
(*                                                                         *)
(* How much a side takes before its average price leaves the best price by  *)
(* the permitted slippage (RiskManager), how much its first levels hold,    *)
(* and, as a reference, what one order pays when it takes a side level by   *)
(* level (the aggregator's own vwap helper).                                *)
(***************************************************************************)
EXTENDS Integers, SequencesExt

CONSTANTS
  SLIPPAGE,   \* max_slippage_for_safe_volume(), per mille (0.1 %: 1)
  TOP         \* levels check_liquidity adds up (5)

Price(level) == level[1]
Size(level) == level[2]

Asks == 1    \* a buyer takes the asks: prices rise
Bids == -1   \* a seller takes the bids: prices fall

\* What some levels are worth and how many coins they hold; with levels that
\* ask no price left out, as the reference does.
Notional(levels) == SumFunction([k \in DOMAIN levels |-> Price(levels[k]) * Size(levels[k])])
Amount(levels) == SumFunction([k \in DOMAIN levels |-> Size(levels[k])])
Coins(levels) == SumFunction([k \in DOMAIN levels |-> IF Price(levels[k]) > 0 THEN Size(levels[k]) ELSE 0])
First(levels, k) == SubSeq(levels, 1, k)

\* The average price of these levels is past best by more than the slippage.
TooFar(levels, best, side) ==
  side * (1000 * Notional(levels) - best * (1000 + side * SLIPPAGE) * Amount(levels)) > 0

\* Mutation of SafeNotional: the level that breaks the bound is counted.
SafeNotionalInclusive(levels, side) ==
  LET breaks == {k \in 1..Len(levels) : /\ Amount(First(levels, k)) > 0
                                        /\ TooFar(First(levels, k), Price(levels[1]), side)}
  IN Notional(IF breaks = {} THEN levels ELSE First(levels, Min(breaks)))

\* What the side takes before the first level that brings the average too far.
SafeNotional(levels, side) ==
  LET breaks == {k \in 1..Len(levels) : /\ Amount(First(levels, k)) > 0
                                        /\ TooFar(First(levels, k), Price(levels[1]), side)}
  IN Notional(IF breaks = {} THEN levels ELSE First(levels, Min(breaks) - 1))

\* The liquidity check_liquidity looks at.
TopNotional(levels) == Notional(First(levels, Min({TOP, Len(levels)})))

-----------------------------------------------------------------------------
(* The reference: an order for `usdt` takes whole levels while it can and a *)
(* part of the next.  Levels without price or size hold nothing.            *)

\* The order is filled completely, at an average within the slippage of best:
\* usdt / (coins of the whole levels + the rest / price of the last level).
FillsWithin(levels, usdt, best, side) ==
  \E k \in 0..(Len(levels) - 1) :
    LET whole == First(levels, k)
        rest == usdt - Notional(whole)
        last == Price(levels[k + 1])
    IN /\ 0 < rest /\ rest <= last * Size(levels[k + 1])
       /\ side * (1000 * usdt * last
                   - best * (1000 + side * SLIPPAGE) * (Coins(whole) * last + rest)) <= 0

=============================================================================
