--------------------------- MODULE ExecutionActor ---------------------------
(***************************************************************************)
(* bot/src/execution.rs: the actor that takes arbitrage opportunities from  *)
(* the exec channel one at a time, refuses the stale and the repeated ones, *)
(* buys on one exchange and sells on another at the same time, reverses the *)
(* leg that was accepted when the other failed, and keeps the daily PnL and *)
(* its circuit breaker.                                                     *)
(*                                                                         *)
(* Time passes at every await; a leg is answered, in any order, with any    *)
(* combination of reply and fill that the exchange and the network allow:   *)
(* the code never asks how much of an immediate-or-cancel order was filled, *)
(* and an error may come back for an order that was filled.  The process    *)
(* may stop at any point and restart with nothing but its config file.      *)
(***************************************************************************)
EXTENDS TokenBucket, Sequences

CONSTANTS
  Symbol, Exchange,
  Limited,               \* the exchanges RateLimiter::new gives an order bucket
  OrderCap, OrderRate,   \* burst and refill per tick of these buckets
  Gain,                  \* estimated profits volume_usdt * spread_pct / 100 of an opportunity
  Qty,                   \* Qty[e][side]: base quantity place_order_live computes for 1 volume
  MAX_OPP_AGE_MS, EXEC_DEDUP_MS, MAX_CONCURRENT_TRADES, DAILY_PNL_LIMIT_USDT,
  EVICT_FACTOR,          \* entries older than this many cooldowns are evicted (10)
  MAX_LOG, LOG_CUT,      \* above 1000 records trade_log loses its oldest 500
  DayLength,             \* ticks between two UTC midnights
  ReversalCost,          \* what a leg and its reversal lose (slippage band and fees)
  QueueCap,              \* capacity of the exec channel (100)
  TimeSteps, MaxTime,    \* bounds: how far the clock may move at once, and in all
  MaxOffers, MaxCrashes  \* bounds: opportunities offered, restarts

Leg == {"long", "short"}
SideOf == [l \in Leg |-> IF l = "long" THEN "BUY" ELSE "SELL"]
Side == {"BUY", "SELL"}

NoTime == -1

Key == Symbol \X Exchange \X Exchange
Opp == [symbol: Symbol, long: Exchange, short: Exchange, gain: Gain, ts: 0..MaxTime]

\* Gain is positive: the aggregator sends an opportunity only when its
\* expected profit exceeds transfer_fee_usdt() (aggregator.rs:619-623).
ASSUME ExecutionAssumption ==
  /\ Symbol # {} /\ Limited \subseteq Exchange
  /\ Gain \subseteq Nat /\ Gain # {}
  /\ Qty \in [Exchange -> [Side -> Nat]]
  /\ {OrderCap, OrderRate, EXEC_DEDUP_MS, MAX_OPP_AGE_MS, MAX_CONCURRENT_TRADES} \subseteq Nat
  /\ MAX_CONCURRENT_TRADES > 0
  /\ EVICT_FACTOR \in Nat \ {0}
  /\ DAILY_PNL_LIMIT_USDT \in Int /\ DAILY_PNL_LIMIT_USDT <= 0
  /\ MAX_LOG \in Nat /\ LOG_CUT \in 1..MAX_LOG
  /\ {ReversalCost, QueueCap, MaxTime, MaxOffers, MaxCrashes} \subseteq Nat
  /\ DayLength \in Nat \ {0}
  /\ TimeSteps \subseteq Nat \ {0}

VARIABLES
  now,              \* chrono::Utc::now()
  queue,            \* the exec channel
  live,             \* config.live_trading_enabled, in memory
  saved_live,       \* the same flag in config.json
  phase,            \* where the actor is in execute_opportunity
  opp,              \* the opportunity in hand, or the last one (<<>> before the first)
  opp_live,         \* the flag as read when opp was taken from the channel
  reply,            \* reply[l]: the answer to the order of leg l
  recent,           \* recent_executions: time of the last execution of a key, or NoTime
  open_trades, daily_pnl, daily_pnl_date, circuit_open,
  trade_log,        \* number of records in trade_log
  bucket,           \* order buckets of the rate limiter
  offers, crashes,  \* counters of the bounds
  \* What the code cannot see, or does not keep:
  fill,             \* fill[l]: signed quantity this trade left on leg l's exchange
  honest,           \* every reply of this trade said what was filled: all or nothing
  reversed,         \* the exchange this trade reversed on, as a set
  alarm,            \* MANUAL INTERVENTION REQUIRED was sent for this trade
  cut,              \* the process stopped during this trade
  started,          \* started[k]: when a trade with key k was last started, or NoTime
  word,             \* what the operator last set live trading to
  revived,          \* a restart since then has switched it back on
  late_starts,      \* live trades started since then, against the operator's word
  booked,           \* booked[d]: gains of the live trades admitted on day d
  restarts,         \* the days on which the process was restarted
  real_pnl          \* PnL of the day including what reversals cost

control == <<phase, opp, opp_live, reply>>
books == <<daily_pnl, daily_pnl_date, circuit_open>>
outcome == <<fill, honest, reversed, alarm, cut>>
intent == <<word, revived, late_starts>>
history == <<started, intent, booked, restarts, real_pnl>>
vars == <<now, queue, live, saved_live, phase, opp, opp_live, reply, recent, open_trades,
          daily_pnl, daily_pnl_date, circuit_open, trade_log, bucket, offers, crashes,
          fill, honest, reversed, alarm, cut, started, word, revived, late_starts, booked,
          restarts, real_pnl>>

Day(t) == t \div DayLength

-----------------------------------------------------------------------------
\* ExecutionActor::new and RateLimiter::new, with an empty channel.
Init ==
  /\ now = 0
  /\ live \in BOOLEAN /\ saved_live = live
  /\ phase = "idle" /\ queue = <<>>
  /\ opp = <<>> /\ opp_live = FALSE
  /\ reply = [l \in Leg |-> "none"]
  /\ recent = [k \in Key |-> NoTime]
  /\ open_trades = 0
  /\ daily_pnl = 0 /\ daily_pnl_date = Day(now) /\ circuit_open = FALSE
  /\ trade_log = 0
  /\ bucket = [e \in Limited |-> NewBucket(OrderCap, OrderRate, now)]
  /\ offers = 0 /\ crashes = 0
  /\ fill = [l \in Leg |-> 0]
  /\ honest = TRUE /\ reversed = {} /\ alarm = FALSE /\ cut = FALSE
  /\ started = [k \in Key |-> NoTime]
  /\ word = live /\ revived = FALSE /\ late_starts = 0
  /\ restarts = {}
  /\ booked = [d \in 0..Day(MaxTime) |-> 0]
  /\ real_pnl = 0

-----------------------------------------------------------------------------
(* The environment: the clock, the aggregator, the operator. *)

Tick ==
  /\ \E d \in TimeSteps : now + d <= MaxTime /\ now' = now + d
  /\ UNCHANGED <<queue, live, saved_live, control, recent, open_trades, books, trade_log,
                 bucket, offers, crashes, outcome, history>>

\* exec_tx.send(opp).await: it was stamped when it was detected, maybe long
\* ago, for the sender waits while the channel is full.
Offer ==
  /\ offers < MaxOffers
  /\ Len(queue) < QueueCap
  /\ \E o \in Opp :
       /\ o.long # o.short /\ o.ts <= now
       /\ queue' = Append(queue, o)
  /\ offers' = offers + 1
  /\ UNCHANGED <<now, live, saved_live, control, recent, open_trades, books, trade_log,
                 bucket, crashes, outcome, history>>

\* The operator's switch: handle_command replaces the config in memory and
\* saves it, whose failure nobody looks at.
SetLive ==
  /\ word' \in BOOLEAN /\ live' = word' /\ saved_live' \in {word', saved_live}
  /\ late_starts' = 0 /\ revived' = FALSE
  /\ UNCHANGED <<now, queue, control, recent, open_trades, books, trade_log, bucket,
                 offers, crashes, outcome, started, booked, restarts, real_pnl>>

-----------------------------------------------------------------------------
(* run and the admission part of execute_opportunity. *)

\* Mutation of ReadFlag: the flag is read for the first opportunity and kept.
ReadFlagOnce == opp_live' = IF opp = <<>> THEN live ELSE opp_live

\* config.lock().live_trading_enabled
ReadFlag == opp_live' = live

\* rx.recv().await, and the flag read before execute_opportunity is called.
Dequeue ==
  /\ phase = "idle" /\ queue # <<>>
  /\ phase' = "admit"
  /\ opp' = Head(queue) /\ queue' = Tail(queue)
  /\ ReadFlag
  /\ reply' = [l \in Leg |-> "none"]
  /\ fill' = [l \in Leg |-> 0]
  /\ honest' = TRUE /\ reversed' = {} /\ alarm' = FALSE /\ cut' = FALSE
  /\ UNCHANGED <<now, live, saved_live, recent, open_trades, books, trade_log, bucket,
                 offers, crashes, history>>

\* 0. The daily counters start again on the first opportunity of a new day.
NewDay == Day(now) # daily_pnl_date

\* Mutation of ResetDay: the new date is noted but the PnL of the old one kept.
ResetDateOnly ==
  /\ daily_pnl_date' = Day(now)
  /\ circuit_open' = (circuit_open /\ ~NewDay)
  /\ real_pnl' = IF NewDay THEN 0 ELSE real_pnl
  /\ UNCHANGED daily_pnl

ResetDay ==
  /\ daily_pnl_date' = Day(now)
  /\ daily_pnl' = IF NewDay THEN 0 ELSE daily_pnl
  /\ circuit_open' = (circuit_open /\ ~NewDay)
  /\ real_pnl' = IF NewDay THEN 0 ELSE real_pnl

KeyOf(o) == <<o.symbol, o.long, o.short>>

\* 2. The same key was executed less than EXEC_DEDUP_MS ago.
Repeated ==
  /\ recent[KeyOf(opp)] # NoTime
  /\ now - recent[KeyOf(opp)] < EXEC_DEDUP_MS

\* 0b, 0c, 1, 2: the early returns before recent_executions is touched.
Refused ==
  \/ circuit_open /\ ~NewDay
  \/ open_trades >= MAX_CONCURRENT_TRADES
  \/ now - opp.ts > MAX_OPP_AGE_MS
  \/ Repeated

\* Mutation of Remember: retain keeps the old entries and drops the fresh.
RememberOld ==
  recent' = [k \in Key |-> IF k # KeyOf(opp) /\ now - recent[k] >= EXEC_DEDUP_MS * EVICT_FACTOR
                           THEN recent[k] ELSE NoTime]

\* The insertion into recent_executions and the eviction of its old entries.
Remember ==
  recent' = [k \in Key |-> IF k = KeyOf(opp) THEN now
                           ELSE IF now - recent[k] < EXEC_DEDUP_MS * EVICT_FACTOR THEN recent[k]
                           ELSE NoTime]

\* check_limit(e, true, 1.0)
MayOrder(e) == e \in Limited => CanAcquire(bucket[e], 1, now)
TakeToken(es) ==
  bucket' = [e \in Limited |-> IF e \in es THEN AfterAcquire(bucket[e], 1, now) ELSE bucket[e]]

\* Mutation of Skip: the refused opportunity goes back to the channel.
SkipRequeues ==
  /\ phase = "admit"
  /\ Refused
  /\ ResetDay
  /\ phase' = "idle"
  /\ queue' = Append(queue, opp)
  /\ UNCHANGED <<now, live, saved_live, opp, opp_live, reply, recent, open_trades,
                 trade_log, bucket, offers, crashes, outcome, started, intent, booked, restarts>>

Skip ==
  /\ phase = "admit"
  /\ Refused
  /\ ResetDay
  /\ phase' = "idle"
  /\ UNCHANGED <<now, queue, live, saved_live, opp, opp_live, reply, recent, open_trades,
                 trade_log, bucket, offers, crashes, outcome, started, intent, booked, restarts>>

\* A rate limit says no: the key stays remembered and a token taken for the
\* long leg is not given back.
Abort ==
  /\ phase = "admit"
  /\ ~Refused
  /\ ~(MayOrder(opp.long) /\ MayOrder(opp.short))
  /\ ResetDay
  /\ Remember
  /\ TakeToken(IF MayOrder(opp.long) THEN {opp.long, opp.short} ELSE {opp.long})
  /\ phase' = "idle"
  /\ UNCHANGED <<now, queue, live, saved_live, opp, opp_live, reply, open_trades,
                 trade_log, offers, crashes, outcome, started, intent, booked, restarts>>

Admit ==
  /\ phase = "admit"
  /\ ~Refused
  /\ MayOrder(opp.long) /\ MayOrder(opp.short)
  /\ ResetDay
  /\ Remember
  /\ TakeToken({opp.long, opp.short})
  /\ started' = [started EXCEPT ![KeyOf(opp)] = now]

\* Live: both orders are sent at once (tokio::join!).
StartLive ==
  /\ Admit
  /\ opp_live
  /\ phase' = "legs"
  /\ open_trades' = open_trades + 1
  /\ reply' = [l \in Leg |-> "pending"]
  /\ late_starts' = IF word THEN late_starts ELSE late_starts + 1
  /\ UNCHANGED <<now, queue, live, saved_live, opp, opp_live, trade_log, offers, crashes,
                 outcome, word, revived, booked, restarts>>

StartSimulated ==
  /\ Admit
  /\ ~opp_live
  /\ phase' = "simulated"
  /\ UNCHANGED <<now, queue, live, saved_live, opp, opp_live, reply, open_trades, trade_log,
                 offers, crashes, outcome, intent, booked, restarts>>

-----------------------------------------------------------------------------
(* The legs, their settlement and the rollback. *)

ExchangeOf(l) == IF l = "long" THEN opp.long ELSE opp.short
\* Mutation of Opposite: the reversal repeats the side of the leg.
OppositeSame(side) == side
\* The side of the reversal of a leg.
Opposite(side) == IF side = "BUY" THEN "SELL" ELSE "BUY"
Other(l) == IF l = "long" THEN "short" ELSE "long"
Signed(side, q) == IF side = "BUY" THEN q ELSE 0 - q

\* place_order_live(e, side): Ok for an accepted order, whatever was filled
\* of it; Err without an order (no credentials, quantity zero, rejected), and
\* also when the connection fails after the exchange has filled it.
Answer(e, side) == [ok: BOOLEAN, qty: 0..Qty[e][side]]
Truthful(a, e, side) == a.qty = IF a.ok THEN Qty[e][side] ELSE 0

ReplyLeg(l) ==
  /\ phase = "legs" /\ reply[l] = "pending"
  /\ \E a \in Answer(ExchangeOf(l), SideOf[l]) :
       /\ reply' = [reply EXCEPT ![l] = IF a.ok THEN "ok" ELSE "err"]
       /\ fill' = [fill EXCEPT ![l] = @ + Signed(SideOf[l], a.qty)]
       /\ honest' = (honest /\ Truthful(a, ExchangeOf(l), SideOf[l]))
  /\ UNCHANGED <<now, queue, live, saved_live, phase, opp, opp_live, recent, open_trades,
                 books, trade_log, bucket, offers, crashes, reversed, alarm, cut, history>>

\* tokio::join! returns.
Joined == phase = "legs" /\ \A l \in Leg : reply[l] # "pending"

\* saturating_sub
Landed == open_trades' = IF open_trades > 0 THEN open_trades - 1 ELSE 0

\* Mutation of PushRecord: the length is compared before the push.
PushRecordLate ==
  trade_log' = IF trade_log > MAX_LOG THEN trade_log + 1 - LOG_CUT ELSE trade_log + 1

\* push_record.  Nothing reads the records again: only their number is kept.
PushRecord ==
  trade_log' = IF trade_log + 1 > MAX_LOG THEN trade_log + 1 - LOG_CUT ELSE trade_log + 1

PnlWith(gain) == daily_pnl + gain

\* Both orders accepted: the estimated profit is booked, and a day below the
\* limit opens the circuit breaker and switches live trading off, in memory.
SettleBoth ==
  /\ Joined
  /\ \A l \in Leg : reply[l] = "ok"
  /\ Landed
  /\ daily_pnl' = PnlWith(opp.gain)
  /\ LET trips == daily_pnl' < DAILY_PNL_LIMIT_USDT /\ ~circuit_open
     IN  /\ circuit_open' = (circuit_open \/ trips)
         /\ live' = (live /\ ~trips)
  /\ PushRecord
  /\ booked' = [booked EXCEPT ![Day(started[KeyOf(opp)])] = @ + opp.gain]
  /\ real_pnl' = real_pnl + opp.gain
  /\ phase' = "idle"
  /\ UNCHANGED <<now, queue, saved_live, opp, opp_live, reply, recent, daily_pnl_date, bucket,
                 offers, crashes, outcome, started, intent, restarts>>

\* Both orders failed.
SettleNone ==
  /\ Joined
  /\ \A l \in Leg : reply[l] = "err"
  /\ Landed
  /\ PushRecord
  /\ phase' = "idle"
  /\ UNCHANGED <<now, queue, live, saved_live, opp, opp_live, reply, recent, books, bucket,
                 offers, crashes, outcome, history>>

\* One order failed: the rollback alert, and the reversal of leg l is sent,
\* past the rate limiter.
StartRollback(l) ==
  /\ Joined
  /\ reply[l] = "ok" /\ reply[Other(l)] = "err"
  /\ Landed
  /\ phase' = "rollback"
  /\ UNCHANGED <<now, queue, live, saved_live, opp, opp_live, reply, recent, books, trade_log,
                 bucket, offers, crashes, outcome, history>>

\* The reversal is answered; an error asks for manual intervention.
FinishRollback(l) ==
  /\ phase = "rollback" /\ reply[l] = "ok"
  /\ LET e == ExchangeOf(l)
         side == Opposite(SideOf[l])
     IN  \E a \in Answer(e, side) :
           /\ fill' = [fill EXCEPT ![l] = @ + Signed(side, a.qty)]
           /\ honest' = (honest /\ Truthful(a, e, side))
           /\ alarm' = ~a.ok
           /\ reversed' = {e}
           /\ real_pnl' = IF a.ok THEN real_pnl - ReversalCost ELSE real_pnl
  /\ PushRecord
  /\ phase' = "idle"
  /\ UNCHANGED <<now, queue, live, saved_live, opp, opp_live, reply, recent, open_trades,
                 books, bucket, offers, crashes, cut, started, intent, booked, restarts>>

\* The simulated trade: 50 ms, and a record that says filled, with a PnL.
FinishSimulated ==
  /\ phase = "simulated"
  /\ PushRecord
  /\ phase' = "idle"
  /\ UNCHANGED <<now, queue, live, saved_live, opp, opp_live, reply, recent, open_trades,
                 books, bucket, offers, crashes, outcome, history>>

-----------------------------------------------------------------------------
\* What leg l may come to once the orders in flight have been dealt with.
LateFill(l) ==
  CASE phase = "legs" /\ reply[l] = "pending" ->
         {Signed(SideOf[l], q) : q \in 0..Qty[ExchangeOf(l)][SideOf[l]]}
    [] phase = "rollback" /\ reply[l] = "ok" ->
         {fill[l] + Signed(Opposite(SideOf[l]), q) : q \in 0..Qty[ExchangeOf(l)][Opposite(SideOf[l])]}
    [] OTHER -> {fill[l]}

\* The process stops and starts again: all of the actor's memory and the
\* channel are gone, orders in flight may still be filled.
Crash ==
  /\ crashes < MaxCrashes
  /\ crashes' = crashes + 1
  /\ live' = saved_live
  /\ phase' = "idle" /\ queue' = <<>>
  /\ reply' = [l \in Leg |-> IF reply[l] = "pending" THEN "none" ELSE reply[l]]
  /\ recent' = [k \in Key |-> NoTime]
  /\ open_trades' = 0
  /\ daily_pnl' = 0 /\ daily_pnl_date' = Day(now) /\ circuit_open' = FALSE
  /\ trade_log' = 0
  /\ bucket' = [e \in Limited |-> NewBucket(OrderCap, OrderRate, now)]
  /\ \E p \in LateFill("long"), q \in LateFill("short") :
       fill' = [l \in Leg |-> IF l = "long" THEN p ELSE q]
  /\ cut' = (cut \/ phase \in {"legs", "rollback"})
  /\ started' = [k \in Key |-> NoTime]
  /\ revived' = (revived \/ (saved_live /\ ~word))
  /\ restarts' = restarts \cup {Day(now)}
  /\ real_pnl' = IF NewDay THEN 0 ELSE real_pnl
  /\ UNCHANGED <<now, saved_live, opp, opp_live, offers, honest, reversed, alarm, word,
                 late_starts, booked>>

-----------------------------------------------------------------------------
\* What the actor's task does once it is scheduled, no exchange involved.
ActorStep ==
  \/ Dequeue
  \/ Skip
  \/ Abort
  \/ StartLive
  \/ StartSimulated
  \/ SettleBoth
  \/ SettleNone
  \/ \E l \in Leg : StartRollback(l)
  \/ FinishSimulated

Next ==
  \/ Tick
  \/ Offer
  \/ SetLive
  \/ Crash
  \/ Dequeue
  \/ Skip
  \/ Abort
  \/ StartLive
  \/ StartSimulated
  \/ SettleBoth
  \/ SettleNone
  \/ FinishSimulated
  \/ \E l \in Leg : StartRollback(l)
  \/ \E l \in Leg : ReplyLeg(l)
  \/ \E l \in Leg : FinishRollback(l)

Spec == Init /\ [][Next]_vars

\* The runtime polls the actor's task as long as it can go on.  No fairness
\* for the exchanges: an order is posted without a timeout.
FairSpec == Spec /\ WF_vars(ActorStep)

-----------------------------------------------------------------------------
(* Properties. *)

WorldOK ==
  /\ now \in 0..MaxTime
  /\ queue \in Seq(Opp)
  /\ live \in BOOLEAN /\ saved_live \in BOOLEAN
  /\ offers \in Nat /\ crashes \in Nat

TradeOK ==
  /\ phase \in {"idle", "admit", "legs", "rollback", "simulated"}
  /\ opp \in Opp \cup {<<>>}
  /\ opp = <<>> => phase = "idle"
  /\ opp_live \in BOOLEAN
  /\ reply \in [Leg -> {"none", "pending", "ok", "err"}]
  /\ fill \in [Leg -> Int]
  /\ honest \in BOOLEAN /\ alarm \in BOOLEAN /\ cut \in BOOLEAN
  /\ reversed \in SUBSET Exchange

Bucket == [tokens: Int, max_tokens: Nat, refill_rate: Nat, last_refill: Nat]

BooksOK ==
  /\ recent \in [Key -> Int]
  /\ open_trades \in Nat
  /\ daily_pnl \in Int /\ daily_pnl_date \in 0..Day(MaxTime) /\ circuit_open \in BOOLEAN
  /\ trade_log \in 0..MAX_LOG
  /\ bucket \in [Limited -> Bucket]

HistoryOK ==
  /\ started \in [Key -> Int]
  /\ word \in BOOLEAN /\ revived \in BOOLEAN /\ late_starts \in Nat
  /\ booked \in [0..Day(MaxTime) -> Int]
  /\ restarts \subseteq 0..Day(MaxTime)
  /\ real_pnl \in Int

\* Every variable holds a value of its type, the trade log never outgrows its
\* limit, and no step of a trade is taken without an opportunity in hand.
TypeOK == WorldOK /\ TradeOK /\ BooksOK /\ HistoryOK

\* The quantity leg l was meant to leave, and the two good ends of a trade.
Target(l) == Signed(SideOf[l], Qty[ExchangeOf(l)][SideOf[l]])
Hedged == \A l \in Leg : fill[l] = Target(l)
Flat == \A l \in Leg : fill[l] = 0

\* The exchanges on which a reversal has the size of the leg it reverses:
\* not Hyperliquid, whose size is computed from the price of the side.
Even == {e \in Exchange : Qty[e]["BUY"] = Qty[e]["SELL"]}

\* After every trade the two positions are hedged or both zero, or one of
\* four things happened: a reply did not say what was filled, manual
\* intervention was asked for, the process stopped in the middle, or the leg
\* was reversed on an exchange that sizes the two sides differently
\* (execute_opportunity's rollback, lines 170-201).
ExposureExplained ==
  phase = "idle" =>
    \/ Flat \/ Hedged
    \/ ~honest \/ alarm \/ cut
    \/ ~(reversed \subseteq Even)

\* Two trades of the same symbol and direction start at least EXEC_DEDUP_MS
\* apart, although old entries are evicted and entries are also written for
\* trades the rate limiter then stopped.  A restart forgets.
DedupSpacing ==
  [][\A k \in Key : (phase = "admit" /\ phase' \in {"legs", "simulated"} /\ k = KeyOf(opp)
                      /\ started[k] # NoTime)
                    => now - started[k] >= EXEC_DEDUP_MS]_vars

\* Every opportunity's gain is positive, and nothing else is ever booked: the
\* daily PnL cannot fall, so the circuit breaker never opens.
CircuitNeverOpens == ~circuit_open /\ daily_pnl >= 0

\* The daily PnL never exceeds the gains of the live trades admitted on the
\* date it stands for, and is their sum, none lost and none counted twice,
\* also when a trade ends after midnight, unless the process was restarted on
\* that date: then what the day had gained until then is forgotten.
PnlOfTheDay ==
  /\ daily_pnl <= booked[daily_pnl_date]
  /\ daily_pnl_date \notin restarts => daily_pnl = booked[daily_pnl_date]

\* After the operator has switched live trading off at most one live trade
\* starts until the switch is touched again, restarts included: the one whose
\* opportunity had been taken from the channel before.  Unless the save of the
\* operator's word failed and a restart read the old one from config.json.
AtMostOneLateStart == late_starts <= 1 \/ revived

\* The actor takes every opportunity off the channel, provided every order
\* is answered.
Waiting == phase = "rollback" \/ (phase = "legs" /\ \E l \in Leg : reply[l] = "pending")
OrdersAnswered == []<>~Waiting
QueueDrains == []<>(queue = <<>>)
QueueDrainsIfAnswered == OrdersAnswered => QueueDrains

-----------------------------------------------------------------------------
(* What documents and comments say and the code does not do. *)

\* "Simulated or live trading with rollback protection" (README.md:82): a
\* trade whose every reply was truthful and that asked for no intervention
\* leaves both legs or none (the reversal sends volume_usdt again, and
\* place_hyperliquid_perp divides it by another price on the other side).
RollbackProtection ==
  (phase = "idle" /\ honest /\ ~alarm /\ ~cut) => Flat \/ Hedged

\* "Circuit breaker: halt if daily loss exceeded" (execution.rs:112): no
\* order is sent on a day that has lost more than the limit.
LossesHaltTrading == real_pnl < DAILY_PNL_LIMIT_USDT => phase # "legs"

=============================================================================
