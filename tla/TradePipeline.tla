---------------------------- MODULE TradePipeline ----------------------------
(***************************************************************************)
(* From a quote to a pair of orders, for one symbol: the feeds send quotes   *)
(* to the aggregator (aggregator.rs), which looks for a pair worth trading   *)
(* (detect_sharps), sizes it, checks it against what the poller last found   *)
(* out (poller.rs, risk_manager.rs) and sends it to the execution actor,     *)
(* which drops it when it has waited too long (execution.rs).                *)
(*                                                                         *)
(* The aggregator handles one thing at a time; the poller and the actor run  *)
(* beside it.  detect_sharps locks the account, unlocks it, locks funding    *)
(* rates, filters and the account again, and keeps those three until there   *)
(* is room in the actor's channel: the steps below are what lies between.    *)
(***************************************************************************)
EXTENDS Risk, Orders

CONSTANTS
  Exchange,       \* the exchanges with a feed
  Polled,         \* those the poller asks for filters, rates and accounts, and an
                  \* alert for a book: Binance and Bybit
  OwnClock,       \* those whose quotes bear the exchange's time: Gate, Hyperliquid
  AHEAD,          \* how far ahead of the bot's that clock may be
  Book,           \* Book[e]: the books a feed of e may deliver, [bids, asks]
  Worths,         \* what the accounts may be worth, USDT per exchange
  FirstWorth,     \* what they are worth at first
  PublicReply,    \* what a public poll may be answered: the exchanges whose
                  \* filters, volumes and rates arrive, and what they say
  PrivateReply,   \* the same of a private poll: accounts, positions, wallets
  Config,         \* [blacklisted, threshold (bps), minVolume]
  MAX_NET,        \* sanity cap of the net spread, in basis points (1500)
  MIN_PROFIT,     \* transfer_fee_usdt(), USDT
  SHARE,          \* percent of the equity one position may use (10)
  AGE,            \* MAX_OPP_AGE_MS
  FEED_CAP,       \* capacity of the feed channel (1000)
  EXEC_CAP,       \* capacity of the exec channel (100)
  MAX_TIME, MAX_QUOTES, MAX_CHANGES   \* bounds: clock, quotes, polls and other changes

\* How far ahead the timestamps of a quote of e may be.
Lead(e) == IF e \in OwnClock THEN AHEAD ELSE 0

ASSUME PipelineAssumption ==
  /\ STALE \in Nat /\ AGE \in Nat /\ AHEAD \in Nat /\ MAX_TIME \in Nat
  /\ TARGET \in Nat /\ SHARE \in Nat /\ FEED_CAP \in Nat /\ EXEC_CAP \in Nat
  /\ SLIPPAGE \in Nat /\ MIN_PROFIT \in Nat /\ RoundTrip \in [Exchange -> Nat]
  /\ MAX_NET \in Nat /\ Exchange \subseteq {"Binance", "Bybit", "Gate", "Hyperliquid", "Aster"}
  /\ OwnClock \subseteq Exchange /\ Polled \subseteq Exchange /\ IsFiniteSet(Exchange)

\* No account is worth less than nothing.
ASSUME WorthAssumption == FirstWorth \in Worths /\ Worths \subseteq [Exchange -> Nat]

\* Both sides of a book have a first level, and nobody gives coins away.
IsSide(levels) ==
  /\ levels \in Seq(Nat \X Nat) /\ levels # << >>
  /\ \A k \in DOMAIN levels : Price(levels[k]) = 0 => Size(levels[k]) = 0

ASSUME BookAssumption == \A e \in Exchange : \A b \in Book[e] : IsSide(b.asks) /\ IsSide(b.bids)

ASSUME ReplyAssumption ==
  \A r \in PrivateReply : r.accounts \subseteq Exchange

VARIABLES
  now,       \* the clock
  worth,     \* what the accounts are worth now
  config,    \* the AppConfig fields detection reads
  feed,      \* the feed channel: quotes not yet received
  market,    \* market_data: market[e], the last quote of e
  filters,   \* market_filters: filters[e], or Unknown
  rate,      \* funding_rates: rate[e], zero when unknown
  account,   \* account_state: [equity, margin, wallet]
  stage,     \* where the aggregator is in detect_sharps or in an alert
  cand,      \* the opportunity it works on
  status,    \* status_map: the wallet states it copied for it
  seen,      \* history: the account states in force since it started on it
  queue,     \* the exec channel
  trade,     \* the opportunity last traded, with the time, or NoTrade
  changes,   \* bound: polls and commands so far
  quoted     \* bound: quotes so far

vars == <<now, worth, config, feed, market, filters, rate, account, stage, cand, status, seen,
          queue, trade, changes, quoted>>
known == <<filters, rate, account>>
bounds == <<changes, quoted>>

NoQuote == [book |-> "none"]
NoTrade == [at |-> "never"]
None == [long |-> "none"]

\* A quote: when it reached the bot, and the time it bears.
Quote(e, book, ts) == [of |-> e, book |-> book, ts |-> ts, at |-> now]
Quoting == {e \in Exchange : market[e] # NoQuote}

Init ==
  /\ now = 0 /\ worth = FirstWorth
  /\ config \in {c \in Config : ~c.blacklisted}
  /\ feed = << >>
  /\ market = [e \in Exchange |-> NoQuote]
  /\ filters = [e \in Exchange |-> Unknown]
  /\ rate = [e \in Exchange |-> 0]
  /\ account = [equity |-> 0, margin |-> [e \in Exchange |-> 0],
                wallet |-> [e \in Exchange |-> Unknown]]
  /\ stage = "idle" /\ cand = None /\ status = << >> /\ seen = {}
  /\ queue = << >> /\ trade = NoTrade
  /\ changes = 0 /\ quoted = 0

-----------------------------------------------------------------------------
(* The surroundings. *)

Tick ==
  /\ now < MAX_TIME
  /\ now' = now + 1
  /\ UNCHANGED <<worth, config, feed, market, known, stage, cand, status, seen, queue, trade, bounds>>

\* Prices move, and money goes in and out.
WorthChanges ==
  /\ changes < MAX_CHANGES
  /\ worth' \in Worths \ {worth}
  /\ changes' = changes + 1
  /\ UNCHANGED <<now, config, feed, market, known, stage, cand, status, seen, queue, trade, quoted>>

\* A feed delivers a book; most stamp it with their own clock.
Publish(e) ==
  /\ quoted < MAX_QUOTES
  /\ Len(feed) < FEED_CAP
  /\ \E book \in Book[e], skew \in 0..Lead(e) :
       feed' = Append(feed, Quote(e, book, now + skew))
  /\ quoted' = quoted + 1
  /\ UNCHANGED <<now, worth, config, market, known, stage, cand, status, seen, queue, trade, changes>>

\* Aggregator::handle_command, between two detections.
UpdateConfig ==
  /\ stage = "idle"
  /\ changes < MAX_CHANGES
  /\ config' \in Config \ {config}
  /\ changes' = changes + 1
  /\ UNCHANGED <<now, worth, feed, market, known, stage, cand, status, seen, queue, trade, quoted>>

-----------------------------------------------------------------------------
(* DataPoller. *)

\* What a poll learns of e: the exchange's filters, with the volume if that
\* request succeeded too.  Gate's are the same for every symbol, halted or not.
FiltersOf(e, reply) ==
  CASE e \notin reply.filters -> Unknown
    [] e \notin Polled -> [known |-> TRUE, trading |-> TRUE, minNotional |-> 1, volume |-> 0]
    [] OTHER -> [known |-> TRUE, trading |-> e \notin reply.halted,
                 minNotional |-> reply.minNotional,
                 volume |-> IF e \in reply.volumes THEN reply.volume ELSE 0]

\* The aggregator holds funding_rates from its second lock to the end of send.
FundingFree == stage \notin {"consulted", "sending"}
AccountFree == stage # "sending"

\* Mutation of PollPublic: the new map is written without the lock.
PollUnlocked(reply) ==
  /\ changes < MAX_CHANGES
  /\ filters' = [e \in Exchange |-> FiltersOf(e, reply)]
  /\ rate' = [e \in Exchange |-> IF e \in reply.rates THEN reply.rate[e] ELSE 0]
  /\ changes' = changes + 1
  /\ UNCHANGED <<now, worth, config, feed, market, account, stage, cand, status, seen, queue, trade, quoted>>

\* DataPoller::run: both maps are replaced by what this poll could fetch; an
\* exchange that was rate limited or failed is in neither.
PollPublic(reply) ==
  /\ FundingFree
  /\ changes < MAX_CHANGES
  /\ filters' = [e \in Exchange |-> FiltersOf(e, reply)]
  /\ rate' = [e \in Exchange |-> IF e \in reply.rates THEN reply.rate[e] ELSE 0]
  /\ changes' = changes + 1
  /\ UNCHANGED <<now, worth, config, feed, market, account, stage, cand, status, seen, queue, trade, quoted>>

\* What a set of accounts is worth.
Total(S) == SumFunctionOnSet(worth, S)

\* The equity is the sum over the accounts that answered, as they are now; an
\* error that is taken for an answer counts as zero too.  The margin ratio is
\* known where the positions are fetched for it (Bybit), else zero.
AccountOf(reply) ==
  [equity |-> Total(reply.accounts),
   margin |-> [e \in Exchange |-> IF e \in reply.accounts \cap reply.positions THEN reply.margin ELSE 0],
   wallet |-> [e \in Exchange |-> IF e \in reply.wallets THEN reply.wallet[e] ELSE Unknown]]

\* DataPoller::fetch_private_data.
PollPrivate(reply) ==
  /\ AccountFree
  /\ changes < MAX_CHANGES
  /\ account' = AccountOf(reply)
  /\ seen' = IF stage \in {"sized", "consulted"} THEN seen \cup {account'} ELSE seen
  /\ changes' = changes + 1
  /\ UNCHANGED <<now, worth, config, feed, market, filters, rate, stage, cand, status, queue, trade, quoted>>

-----------------------------------------------------------------------------
(* Aggregator::detect_sharps. *)

BestAsk(m, e) == Price(m[e].book.asks[1])
BestBid(m, e) == Price(m[e].book.bids[1])

\* The exchanges with the lowest ask and the highest bid of market m; any of
\* them when several are equal.
Pairs(m, from) ==
  {p \in from \X from : \A e \in from : /\ BestAsk(m, p[1]) <= BestAsk(m, e)
                                        /\ BestBid(m, e) <= BestBid(m, p[2])}

OppOf(m, p) ==
  [long |-> p[1], short |-> p[2], asks |-> m[p[1]].book.asks, bids |-> m[p[2]].book.bids,
   longTs |-> m[p[1]].ts, shortTs |-> m[p[2]].ts,
   longAt |-> m[p[1]].at, shortAt |-> m[p[2]].at, volume |-> 0, stamp |-> 0]

\* Mutation of Attractive: no sanity cap.
AttractiveUncapped(o) ==
  /\ o.long # o.short
  /\ Ask(o) >= 1 /\ Bid(o) >= 1
  /\ Ask(o) <= 11 * Bid(o) /\ Bid(o) <= 11 * Ask(o)
  /\ NetAtLeast(o, config.threshold)

\* Two different exchanges, prices neither dust nor eleven times apart, and
\* a net spread from the threshold up to the sanity cap.
Attractive(o) ==
  /\ o.long # o.short
  /\ Ask(o) >= 1 /\ Bid(o) >= 1
  /\ Ask(o) <= 11 * Bid(o) /\ Bid(o) <= 11 * Ask(o)
  /\ NetAtLeast(o, config.threshold) /\ ~NetAtLeast(o, MAX_NET)

\* A tenth of the equity; the full target when the equity is not known.
EquityCap(equity) == IF equity > 0 THEN (equity * SHARE) \div 100 ELSE TARGET

VolumeFor(o, equity) == Min({SafeVolume(o), TARGET, EquityCap(equity)})
Profitable(o) == o.volume * NetTimesAsk(o) > MIN_PROFIT * 10000 * Ask(o)

\* What detect_sharps makes of a pair that has been chosen: it is tested for
\* freshness and spread and sized with the equity, read under the account lock,
\* which is released.  The result is an opportunity or none.
Sized(o) == [o EXCEPT !.volume = VolumeFor(o, account.equity)]
Worth(o) == FreshAt(o, now) /\ Attractive(o) /\ Profitable(Sized(o))

\* update_market_data inserts the quote and detect_sharps looks at the symbol.
Insert(m) ==
  /\ stage = "idle" /\ feed # << >>
  /\ feed' = Tail(feed)
  /\ market' = m
  /\ UNCHANGED <<now, worth, config, known, queue, trade, bounds>>

Received == [market EXCEPT ![Head(feed).of] = Head(feed)]

\* Mutation of Looked: two exchanges are not enough.
LookedOffByOne(m) == IF config.blacklisted \/ Cardinality({e \in Exchange : m[e] # NoQuote}) <= 2
                     THEN {} ELSE Pairs(m, {e \in Exchange : m[e] # NoQuote})

\* A blacklisted symbol and one with a single quote are not looked at.
Looked(m) == IF config.blacklisted \/ Cardinality({e \in Exchange : m[e] # NoQuote}) < 2
             THEN {} ELSE Pairs(m, {e \in Exchange : m[e] # NoQuote})

Detect ==
  /\ Insert(Received)
  /\ \E p \in Looked(Received) :
       /\ Worth(OppOf(Received, p))
       /\ stage' = "sized" /\ cand' = Sized(OppOf(Received, p)) /\ seen' = {account}
       /\ UNCHANGED status

Ignore ==
  /\ Insert(Received)
  /\ Looked(Received) # {} => \E p \in Looked(Received) : ~Worth(OppOf(Received, p))
  /\ UNCHANGED <<stage, cand, status, seen>>

\* Mutation of Consult: wallets are taken for active, as the comment on the
\* status map still says.
ConsultMocked ==
  /\ stage = "sized"
  /\ stage' = "consulted"
  /\ status' = [e \in Exchange |-> Unknown]
  /\ UNCHANGED <<now, worth, config, feed, market, known, cand, seen, queue, trade, bounds>>

\* funding_rates is locked and kept; the wallet states are copied under the
\* account lock, which is released.
Consult ==
  /\ stage = "sized"
  /\ stage' = "consulted"
  /\ status' = account.wallet
  /\ UNCHANGED <<now, worth, config, feed, market, known, cand, seen, queue, trade, bounds>>

\* market_filters and the account are locked, the opportunity is validated
\* and, when it passes, stamped.
Accept ==
  /\ stage = "consulted"
  /\ Validate(cand, status, account.margin, filters, rate, config.minVolume, now)
  /\ stage' = "sending"
  /\ cand' = [cand EXCEPT !.stamp = now]
  /\ UNCHANGED <<now, worth, config, feed, market, known, status, seen, queue, trade, bounds>>

Reject ==
  /\ stage = "consulted"
  /\ ~Validate(cand, status, account.margin, filters, rate, config.minVolume, now)
  /\ stage' = "idle" /\ cand' = None /\ status' = << >> /\ seen' = {}
  /\ UNCHANGED <<now, worth, config, feed, market, known, queue, trade, bounds>>

\* Mutation of Send: an unbounded channel.
SendUnbounded ==
  /\ stage = "sending"
  /\ queue' = Append(queue, cand)
  /\ stage' = "idle" /\ cand' = None /\ status' = << >> /\ seen' = {}
  /\ UNCHANGED <<now, worth, config, feed, market, known, trade, bounds>>

\* exec_tx.send(opp).await, with the three guards.
Send ==
  /\ stage = "sending"
  /\ Len(queue) < EXEC_CAP
  /\ queue' = Append(queue, cand)
  /\ stage' = "idle" /\ cand' = None /\ status' = << >> /\ seen' = {}
  /\ UNCHANGED <<now, worth, config, feed, market, known, trade, bounds>>

-----------------------------------------------------------------------------
(* Aggregator::handle_listener_alert: a futures alert on a symbol no feed    *)
(* has quoted fetches two books over REST, stamped on arrival.  Quotes that  *)
(* reach the channel in the meantime are received after them.                *)

Alert ==
  /\ stage = "idle" /\ Quoting = {}
  /\ stage' = "fetching"
  /\ UNCHANGED <<now, worth, config, feed, market, known, cand, status, seen, queue, trade, bounds>>

\* quick_fetch_symbol: Binance and Bybit, each of which may fail.
Fetched ==
  /\ stage = "fetching"
  /\ stage' = "idle"
  /\ \E got \in SUBSET Polled :
       \E book \in [got -> UNION {Book[e] : e \in got}] :
         /\ \A e \in got : book[e] \in Book[e]
         /\ quoted + Cardinality(got) <= MAX_QUOTES
         /\ quoted' = quoted + Cardinality(got)
         /\ market' = [e \in Exchange |->
                         IF e \in got THEN Quote(e, book[e], now) ELSE market[e]]
  /\ UNCHANGED <<now, worth, config, feed, known, cand, status, seen, queue, trade, changes>>

-----------------------------------------------------------------------------
(* The execution actor: see ExecutionActor for what it does with a trade. *)

TooOld(o) == now - o.stamp > AGE

\* Dropped: too old, or for one of the actor's other reasons.
Drop ==
  /\ queue # << >>
  /\ queue' = Tail(queue)
  /\ UNCHANGED <<now, worth, config, feed, market, known, stage, cand, status, seen, trade, bounds>>

OrdersOf(o) == [long |-> Order(o.long, Buy, o.volume, Ask(o)),
                short |-> Order(o.short, Sell, o.volume, Bid(o))]

\* Mutation of Start: the age is not looked at again.
StartAnyAge ==
  /\ queue # << >>
  /\ queue' = Tail(queue)
  /\ trade' = [at |-> now, opp |-> Head(queue), orders |-> OrdersOf(Head(queue))]
  /\ UNCHANGED <<now, worth, config, feed, market, known, stage, cand, status, seen, bounds>>

\* The two orders of the opportunity go out.
Start ==
  /\ queue # << >>
  /\ ~TooOld(Head(queue))
  /\ queue' = Tail(queue)
  /\ trade' = [at |-> now, opp |-> Head(queue), orders |-> OrdersOf(Head(queue))]
  /\ UNCHANGED <<now, worth, config, feed, market, known, stage, cand, status, seen, bounds>>

Next ==
  \/ Tick \/ WorthChanges \/ UpdateConfig
  \/ \E e \in Exchange : Publish(e)
  \/ \E reply \in PublicReply : PollPublic(reply)
  \/ \E reply \in PrivateReply : PollPrivate(reply)
  \/ Detect \/ Ignore \/ Consult \/ Accept \/ Reject \/ Send
  \/ Alert \/ Fetched
  \/ Drop \/ Start

Spec == Init /\ [][Next]_vars

-----------------------------------------------------------------------------
(* Properties. *)

\* The control state and what is bounded hold values of their types.
TypeOK ==
  /\ now \in 0..MAX_TIME
  /\ config \in Config
  /\ stage \in {"idle", "fetching", "sized", "consulted", "sending"}
  /\ stage \in {"sized", "consulted", "sending"} => Legs(cand) \subseteq Exchange
  /\ Len(feed) <= FEED_CAP /\ Len(queue) <= EXEC_CAP

\* No order goes out on a quote that reached the bot more than the two limits
\* ago, the wait in two channels and behind a full one included; an exchange
\* whose clock is ahead gains what it is ahead (MAX_OPP_AGE_MS,
\* TICKER_STALE_MS, and the stamp that is taken after validation).
AgeLimit(e) == STALE + AGE + Lead(e)
QuoteAgeBound ==
  trade # NoTrade =>
    /\ trade.at - trade.opp.longAt <= AgeLimit(trade.opp.long)
    /\ trade.at - trade.opp.shortAt <= AgeLimit(trade.opp.short)

\* An opportunity that is sent fills completely on both books it was seen on,
\* at an average price within the slippage of the best (max_safe_volume_usdt),
\* by the reference that takes the book level by level.
FilledWithinSlippage ==
  stage = "sending" =>
    /\ FillsWithin(cand.asks, cand.volume, Ask(cand), Asks)
    /\ FillsWithin(cand.bids, cand.volume, Bid(cand), Bids)

\* While an opportunity waits for room the poller learns nothing that speaks
\* against it: the maps it was validated on stay locked.
LockedFactsHold ==
  stage = "sending" =>
    /\ TradingOk(cand, filters) /\ NotionalOk(cand, filters)
    /\ VolumeOk(cand, filters, config.minVolume)
    /\ FundingOk(cand, rate) /\ MarginOk(cand, account.margin)

\* The account is read three times under as many locks and may be replaced in
\* between; still each check passed on an account that was in force during
\* this very detection.
ChecksOfThisDetection ==
  stage = "sending" =>
    /\ \E a \in seen : cand.volume <= EquityCap(a.equity)
    /\ \E a \in seen : WalletOk(cand, a.wallet)
    /\ MarginOk(cand, account.margin)

\* A pair worth trading among the fresh quotes is passed over only for a stale
\* quote with a better price: best prices are taken over all quotes, of dead
\* feeds too, and freshness is looked at afterwards.
MissedOnlyForStale ==
  [][ LET m == market'
          quoting == {e \in Exchange : m[e] # NoQuote}
          fresh == {e \in quoting : now - m[e].ts <= STALE}
          best == Pairs(m, fresh)
      IN (/\ feed' # feed /\ Len(feed') < Len(feed)
          /\ stage' = "idle" /\ ~config.blacklisted
          /\ best # {} /\ \A p \in best : Worth(OppOf(m, p)))
         => \E s \in quoting \ fresh, p \in best :
              BestAsk(m, s) <= BestAsk(m, p[1]) \/ BestBid(m, s) >= BestBid(m, p[2])
    ]_vars

\* The whole coins of an order.
Whole(qty) == qty.num \div qty.den

\* Each leg is sized in USDT at its own price, so more coins are bought than are
\* sold.  By how much is bounded where nobody looks at sizes: by the sanity cap
\* on the spread, applied once at detection, and by the coins of rounding on
\* exchanges that take whole ones.
LegsBalanced ==
  trade # NoTrade =>
    LET bought == Whole(trade.orders.long.qty)
        sold == Whole(trade.orders.short.qty)
    IN 10000 * bought <= (10000 + MAX_NET + CostOf(trade.opp)) * (sold + 2)

\* "Slippage cap for CEX limit-IOC orders (0.3%). Orders that can't fill within
\* this band are cancelled." (execution.rs:49): no limit lies beyond the band.
SlippageBand ==
  trade # NoTrade =>
    /\ WithinBand(trade.orders.long, Buy, Ask(trade.opp))
    /\ WithinBand(trade.orders.short, Sell, Bid(trade.opp))

=============================================================================
