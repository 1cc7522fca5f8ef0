-------------------------------- MODULE Orders --------------------------------
(***************************************************************************)
(* What ExecutionActor::place_* sends for one leg (execution.rs): the        *)
(* quantity and the limit price, rounded the way each exchange's function    *)
(* rounds them.  Signatures and HTTP are left out; what the exchange answers *)
(* is in ExecutionActor.  Prices come in 0.001 USDT, the limit is in 0.0001  *)
(* USDT.  Six decimals of a quantity are taken as exact, so a quantity is a  *)
(* fraction of coins: [num, den].                                           *)
(***************************************************************************)
EXTENDS Integers

CONSTANT EXEC_SLIPPAGE   \* per mille (0.3 %: 3)

Buy == 1
Sell == -1

\* Decimal::round_dp: the nearest multiple, the even one of two.
RoundHalfEven(num, den) ==
  LET low == num \div den
      twice == 2 * (num % den)
  IN IF twice < den \/ (twice = den /\ low % 2 = 0) THEN low ELSE low + 1

\* volume / price, in coins.
Quantity(volume, price) == [num |-> 1000 * volume, den |-> price]
WholeCoins(q) == [num |-> RoundHalfEven(q.num, q.den), den |-> 1]

\* price * (1 +- slippage): rounded to two decimals, cut off after two
\* (format!("{:.2}") of a Decimal), rounded to four.
Cents(price, side, slip) == 100 * RoundHalfEven(price * (1000 + side * slip), 10000)
CutCents(price, side, slip) == 100 * ((price * (1000 + side * slip)) \div 10000)
HundredthCents(price, side, slip) == RoundHalfEven(price * (1000 + side * slip), 100)

NoLimit == -1   \* a market order

\* Binance and Bybit: limit IOC; Gate: whole coins, limit IOC; Hyperliquid: an
\* adjusted price of 0.5 %, which also sizes the order, here to whole coins;
\* Aster: a market order.
Order(e, side, volume, price) ==
  CASE e \in {"Binance", "Bybit"} ->
         [qty |-> Quantity(volume, price), limit |-> Cents(price, side, EXEC_SLIPPAGE)]
    [] e = "Gate" ->
         [qty |-> WholeCoins(Quantity(volume, price)), limit |-> HundredthCents(price, side, EXEC_SLIPPAGE)]
    [] e = "Hyperliquid" ->
         [qty |-> WholeCoins([num |-> 1000000 * volume, den |-> price * (1000 + 5 * side)]),
          limit |-> CutCents(price, side, 5)]
    [] e = "Aster" ->
         [qty |-> Quantity(volume, price), limit |-> NoLimit]

\* No order goes out for a quantity that is rounded to zero.
IsSent(order) == order.qty.num # 0

\* The limit is no further from the price than the slippage.
WithinBand(order, side, price) ==
  IsSent(order) /\ order.limit # NoLimit => side * (order.limit * 1000 - price * 10 * (1000 + side * EXEC_SLIPPAGE)) <= 0

=============================================================================
