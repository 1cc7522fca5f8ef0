-------------------------------- MODULE Risk --------------------------------
(***************************************************************************)
(* bot/src/risk_manager.rs: the sizes and checks an opportunity passes       *)
(* before it is sent to the execution actor, as predicates over what the    *)
(* bot knows at that moment.  An opportunity is a record                     *)
(*   [long, short : exchanges, asks, bids : the levels it was seen with,     *)
(*    longTs, shortTs : the timestamps of the two quotes, volume : USDT].    *)
(* Spreads and rates are in basis points.  What is not known of an exchange  *)
(* never refuses an opportunity.                                             *)
(***************************************************************************)
EXTENDS OrderBook

CONSTANTS
  RoundTrip,      \* RoundTrip[e]: 2 * taker_fee(), in basis points
  STALE,          \* RISK_MAX_TICKER_LAG_MS = TICKER_STALE_MS
  TARGET,         \* target_volume_usdt()
  FUNDING_SLOTS   \* 72 h in funding intervals of 8 h (9)

Unknown == [known |-> FALSE]   \* no entry in the map

Ask(o) == Price(o.asks[1])
Bid(o) == Price(o.bids[1])
Legs(o) == {o.long, o.short}

\* The net spread, in basis points times the ask: both legs are opened and
\* closed, and 0.1 % of slippage is allowed each way.
CostOf(o) == RoundTrip[o.long] + RoundTrip[o.short] + 20
NetTimesAsk(o) == (Bid(o) - Ask(o)) * 10000 - CostOf(o) * Ask(o)
NetAtLeast(o, bps) == NetTimesAsk(o) >= bps * Ask(o)

\* max_safe_volume_usdt: the shorter of the two sides, or nothing known.
SafeVolume(o) ==
  IF Ask(o) = 0 \/ Bid(o) = 0
  THEN TARGET
  ELSE Min({SafeNotional(o.asks, Asks), SafeNotional(o.bids, Bids)})

\* The long exchange must let USDT out, the short one must let it in.
WalletOk(o, wallet) ==
  /\ wallet[o.long].known => wallet[o.long].withdraw
  /\ wallet[o.short].known => wallet[o.short].deposit

\* No more than 80 % of the equity of a leg is bound; zero when unknown.
MarginOk(o, margin) == \A e \in Legs(o) : margin[e] <= 80

FreshAt(o, t) == t - o.longTs <= STALE /\ t - o.shortTs <= STALE

\* Trading status, minimal notional and 24 h volume of both legs.  A volume
\* of zero is one that was not fetched.
TradingOk(o, filters) == \A e \in Legs(o) : filters[e].known => filters[e].trading
NotionalOk(o, filters) == \A e \in Legs(o) : filters[e].known => o.volume >= filters[e].minNotional
VolumeOk(o, filters, minVolume) ==
  \A e \in Legs(o) : filters[e].known /\ filters[e].volume > 0 => filters[e].volume >= minVolume

\* The best five levels hold three times the volume, on both sides.
LiquidityOk(o) == TopNotional(o.asks) >= 3 * o.volume /\ TopNotional(o.bids) >= 3 * o.volume

Abs(x) == IF x < 0 THEN 0 - x ELSE x

\* The net spread pays the difference of the two funding rates for 72 hours;
\* an unknown rate counts zero.
FundingOk(o, rate) ==
  LET net == Abs(rate[o.long] - rate[o.short])
  IN net > 0 => NetAtLeast(o, FUNDING_SLOTS * net)

\* RiskManager::validate, in its order; the wallets are a copy taken before.
Validate(o, wallet, margin, filters, rate, minVolume, t) ==
  /\ WalletOk(o, wallet)
  /\ MarginOk(o, margin)
  /\ FreshAt(o, t)
  /\ TradingOk(o, filters)
  /\ NotionalOk(o, filters)
  /\ LiquidityOk(o)
  /\ FundingOk(o, rate)
  /\ VolumeOk(o, filters, minVolume)

=============================================================================
