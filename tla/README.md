# ArbitroBot in TLA+

The repository is an arbitrage trading bot in Rust (`bot/`), a .NET backend with a React dashboard (`backend/`), and
their deployment files. This directory holds TLA+ models of the bot, the TLC configurations that check them on small
instances, and theorems about them whose proofs TLAPS checks. Paths below are relative to the repository's `bot/src`
unless they begin with `backend/` or `docs/`.

Check one model with `tlc -config MCRateLimiter.cfg MCRateLimiter`, one proof module with
`tlapm RateLimiterProofs.tla`. `PROJECT.json` lists the runs, the hazards, the mutations each property detects, and
the source lines behind each definition.

## 1. The system

### Components

| Component | State | Operations | What makes it correct | Module |
|---|---|---|---|---|
| **RateLimiter** (`rate_limiter.rs`) | per limited exchange a "rest" and an "order" token bucket, each behind a tokio mutex | `check_limit` by the pollers (rest) and the execution actor (order) | a window never grants more than its burst and what it earned; no token is lost | `RateLimiter` |
| **ExecutionActor** (`execution.rs`) | cooldown of every key, open trades, daily PnL and its date, circuit breaker, trade log | `run`, `execute_opportunity`, rollback | a trade ends hedged or flat, or the reason is known; cooldowns and the daily limit hold | `ExecutionActor` |
| **OrderPlacement** (`execution.rs:295-752`) | none | `place_*` of five exchanges | limits within the slippage; a reversal closes what its leg opened | `Orders` |
| **Aggregator, detection** (`aggregator.rs`) | market data per symbol and exchange | `update_market_data`, `detect_sharps`, alerts | sends only fresh, validated opportunities; never stops | `TradePipeline`, `LockRuntime` |
| **RiskManager** (`risk_manager.rs`) | none | `validate`, `max_safe_volume_usdt` | a validated opportunity fills, and passed every check on facts of its own detection | `Risk`, `OrderBook` |
| **Poller** (`poller.rs`) | funding rates, market filters, account state | public loop (hourly), private loop (30 s) | readers see whole maps; what a failed request hides does no harm | `TradePipeline`, `OperatorConsole` |
| **Commands, config** (`aggregator.rs:334-464`, `config.rs`, `auth.rs`) | config and secrets in memory and on disk, `users.json` | `handle_command`, `save`, `load`, `register_user` | settings are never mixed; a restart restores what was in force | `CommandPath` |
| **Messaging** (`messaging.rs`) | RabbitMQ channel | `publish`, `setup_command_consumer`, `consume` | commands are applied in order, and none is lost silently | `CommandPath` |
| **Notifier** (`notifier.rs`) | chat conversation states | `run_listener`, `/login`, `/setup`, `/status` | a conversation stores the keys of the exchange it was begun for; the owner stays the owner | `OperatorConsole` |
| **RebalanceAdvisor** (`rebalance_advisor.rs`) | thresholds, the last advice | `check`, `check_rebalancing` | advice is given for a cause and comes to an end when it is followed | `Rebalance` |
| **Exchange feeds** (`exchange/*`) | connection, symbols | discovery, dialing, reading, pinging | a feed that fails comes back; a quote tells the book it came from | `MarketFeeds` |
| **Listener client** (`listener.rs`) | connection, watched URL | dial, read, follow the URL | it ends up where its URL points | `MarketFeeds` |
| **History store** (`history.rs`) | SQLite rows, channel of 32 | `add_snapshot`, `trim_oldest_until_under`, queries | the newest rows are kept, the cap holds | `MarketFeeds` |
| **Backend bridge** (`backend/Services`, `backend/Hubs`) | RabbitMQ connection | forwarding commands and broadcasts | commands go out while it is connected | `CommandPath` |
| **Backend authentication, dashboard hooks and views, logger** | users in a database; browser state; lines for the terminal | | | not modelled, see 5 |

### How they interact

The feeds send tickers over a channel of 1000 to the aggregator, RabbitMQ commands arrive over one of 10, and the
aggregator sends opportunities over one of 100 to the execution actor (`main.rs:127-129`). Config, secrets, funding
rates, market filters and account state are `Arc<std::sync::Mutex>` shared by the aggregator, both pollers, the
Telegram listener and the actor. The aggregator runs in `main`, on the thread of `block_on`; all other loops are tokio
tasks on the worker threads, one per CPU. The bot publishes state over RabbitMQ; the backend forwards it to browsers.
The dashboard has a connection to the broker of its own (`useRabbitMQ.js`). Credentials travel on three ways: `.env`,
read once at a start, for the pollers; the `api_keys` of the configuration for the orders; `secrets.json` for Telegram.

### What is hard

* **Partial failure.** Two orders go out at once and each may be accepted, rejected, filled in part or filled and
  reported as failed; the code looks at the reply only. The reversal may fail in the same ways.
* **Restart.** Nothing about trades, cooldowns or PnL survives; orders in flight do.
* **Stale reads.** The live switch is read once per opportunity; prices are checked at detection and the opportunity
  then waits in a channel, behind a sender that waits for room.
* **Locks over awaits.** `detect_sharps` awaits the exec channel with three std mutexes held, which block whole worker
  threads and not only tasks.
* **Unanswered calls.** Orders are posted without a timeout by a single task; two feeds read without one.
* **Delivery.** Acknowledgements are lost and commands come twice, the broker forgets what is not persistent, and a
  reconnected channel has no consumer.
* **Files without a transaction.** `config.json`, `secrets.json`, `.env` and `users.json` are overwritten or appended to
  in place, by several tasks, and read back at the next start; the history is inserted, measured and trimmed under
  three separate locks.
* **Partial knowledge.** Every map a poll fills is replaced by whatever answered; what is missing refuses nothing.
* **Numbers at a boundary.** Lazy refills of the buckets; eviction of cooldowns; the midnight reset; a trade that
  straddles midnight; a trade log cut in half.

Each is listed at its line in `PROJECT.json` under `hazards`, with the properties that cover it.

## 2. What is modelled

### RateLimiter

`TokenBucket` has the bucket of `rate_limiter.rs:1-41` as operators on a record: `NewBucket`, `Available` (what
`refill` leaves), `Refill`, `CanAcquire`, `AfterAcquire`. `RateLimiter` has one bucket per limited exchange and kind
and an action per outcome of `check_limit`: `Grant`, `Deny` (which refills all the same) and `Unlimited` for exchanges
not in the map. The bucket reads the clock inside its mutex, so one `acquire` is one step. Time is an integer; a tick
earns `Rate` tokens, so only f64 rounding is left out. Time never runs back (`Instant` is monotonic).

`granted` and `before` are history: what a bucket granted in all, and before each past instant.

`SlidingWindow` is the abstract specification. It has no bucket: a request is granted exactly when, for each past
instant `t`, the weight granted since `t` stays within `Cap + Rate * (now - t)`. `RateLimiter` implements it with two
numbers per budget (`ImplementsWindow`): same grants and same denials.

### ExecutionActor

| Action | Code |
|---|---|
| `Dequeue` | `rx.recv().await` and the live flag read before `execute_opportunity` (94-100) |
| `Skip` | the early returns: breaker, open trades, age, cooldown (112-139), after the midnight reset (103-110) |
| `Abort` | a rate limit says no: cooldown and token are spent (140-158) |
| `StartLive`, `StartSimulated` | the rest of the admission; two orders are posted, or 50 ms pass |
| `ReplyLeg` | one order is answered: `Ok` or `Err`, with any fill up to its quantity |
| `SettleBoth`, `SettleNone` | both accepted (PnL, breaker, record) or both failed (record) |
| `StartRollback`, `FinishRollback` | the accepted leg is reversed; an error of the reversal is the manual-intervention alarm |
| `FinishSimulated` | the record of a simulated trade |
| `Offer`, `SetLive`, `Tick`, `Crash` | the aggregator, the operator, the clock, a restart |

The exchanges are an environment without promises: `Answer` gives every reply with every fill. An accepted order may
be unfilled because orders are immediate-or-cancel, and an error may hide a fill because the connection may break
after the exchange acted. `Qty[e][side]` is the base quantity an exchange computes for one volume: on Hyperliquid it
depends on the side (`execution.rs:511-516`), on the others it does not. Saving the config may fail and nobody looks
(`SetLive`). `Crash` forgets what the process forgets, and lets orders in flight fill to any quantity.

`fill`, `honest`, `reversed`, `alarm`, `cut` (this trade) and `started`, `late_starts`, `word`, `revived`, `booked`,
`restarts`, `real_pnl` are history variables: nothing in the actor reads them. `booked` (what each day gained) and
`late_starts` survive a `Crash`; `started` does not, because the cooldowns are promised for one process only.

### LockRuntime

Each task is a *program*: the sequence of what it does to mutexes, channel and scheduler, written from its function
(`DetectSharps`, `HandleCommand`, `Authenticate`, `HandleListenerAlert`, `Interval` for the arms of the aggregator's
`select!`; `Run`, `RunPrivate` for the pollers; `Status`, `Callback` for Telegram; `Execute` for the actor). Actions
execute one operation: `TakeLock` (the guard lives to the end), `TouchLock` (locked and unlocked with nothing blocking
between, so one step is enough), `Test` (an early return is taken or not), `Resume` (what was awaited came),
`SendOpp`, `ReceiveOpp`, `Finish` (guards are dropped, the loop comes round). A task of the pool needs one of
`WORKERS` threads from one await to the next and keeps it while it waits for a std mutex; the aggregator has its own.

Mutexes that are only ever locked for a moment (secrets, conversation states, log lines, last advice, stdout) can
delay but never hold up anyone, and are left out, as are the tokio mutexes. Short-lived tasks (alerts, health server)
lock none of the four mutexes.

### OrderBook, Risk, Orders, TradePipeline

`OrderBook` has a side of a book as a sequence of levels, `SafeNotional` (what `max_safe_volume_usdt` adds up before the
average price leaves the best one by the slippage) and, as the reference it is checked against, `FillsWithin`: an order
that takes the side level by level. `Risk` has the eight checks of `validate` as predicates, in their order; `Orders`
has what each `place_*` makes of a volume, a price and a side: the quantity, the rounded or cut-off limit, and that
nothing is sent for a quantity of zero.

`TradePipeline` composes them for one symbol, from a quote to a pair of orders.

| Action | Code |
|---|---|
| `Publish`, `Tick`, `UpdateConfig` | a feed sends a quote stamped by it or by its exchange; the clock; the operator |
| `WorthChanges` | gains, losses and transfers on the exchanges, which the bot learns of at the next poll |
| `PollPublic`, `PollPrivate` | the maps are replaced by what this poll could fetch (`poller.rs:104`, `246`), when the lock is free |
| `Detect`, `Ignore` | `update_market_data` and `detect_sharps` up to the choice of a volume: the account is locked for the equity and unlocked |
| `Consult` | funding rates are locked and kept; the wallet states are copied under the account lock |
| `Accept`, `Reject` | filters and account are locked, `validate`; the three guards stay |
| `Send` | `exec_tx.send(opp).await`, when there is room |
| `Alert`, `Fetched` | `handle_listener_alert` fetches two books over REST |
| `Start`, `Drop` | the actor's age check; what it does with a trade is in `ExecutionActor` |

The five steps of a detection are exactly what lies between its locks, so a poll can fall anywhere the code lets it.
`seen` is history: the account states in force since the detection began. Prices are in 0.001 USDT, quantities are
fractions; Decimal arithmetic on them is exact, except for the roundings of the code itself, which are modelled.

### SettingsLog, CommandPath

`SettingsLog` is the abstract specification: commands are numbered, in one run they take effect in that order, each at
most once, and what is in force is a past configuration with at most one setting changed. `CommandPath` is the way
itself: dashboard or backend (`Issue`, `BridgeDown`, `BridgeUp`), broker (`Cut`, `BrokerRestart`, `Deliver`), consumer
(`Forward`, `Ack`), `Apply` (the whole of `handle_command`: memory, the file, the listener's URL, the broadcast),
`Broadcast`, and `Crash`, `CrashInSave`, `Start`. A setting's value is the number of the command that gave it, so
`UpdateConfig` carries the configuration a dashboard showed (`shown`) with one setting changed, however old the view.
Files are overwritten in place: a write ends as the new file, the old one or one that does not parse (`Torn`), which a
start reads as the defaults. `publish` opens a closed connection again and registers no consumer (`messaging.rs:71`).

### Rebalance, OperatorConsole

`Rebalance` has `RebalanceAdvisor::check` as operators on a snapshot of the accounts. `OperatorConsole` is the circle
around it: the conversation of each chat (`Command`, `Password`, `Selection`, `Key`, `Secret`), the dashboard's
`UpdateApiKeys`, `UpdateSecrets` and `OtherCommand`, the appends to `.env` line by line (`WriteLine`), `Poll`, `Advise`,
the operator who moves the money of one suggestion (`Follow`), the transfer's arrival (`Arrive`), `Restart` and `Start`.
Pairs of credentials are numbered; a key fits a secret when the numbers agree. `dotenv` holds what each variable is
*first* declared as, which is what a start reads. Every write may fail, and nobody looks: a line of `.env` is missing,
`config.json` and `secrets.json` stay as they were or no longer parse and count as none (`ConfigLost`, `SecretsLost`).
`Reply` is what an account request may show: the amounts, or zeros where the response has no such field, as an error has
none (`poller.rs:266-267`, `311-312`; the status is not looked at), also for a pair the exchange refuses.

### MarketFeeds

One feed, or the Listener client, and the history store. `feed.at` is where its task is; `DiscoverOnce` (Binance) and
`Discover` (the others, up to five times) may end without symbols; `Dial`, `DialUrl`, `Dialed`, `Drop`, `Moved`, `Wake`
are the connection loop; `LoseSilently` is a peer that is gone without a word, on a connection or while the answer to a
request or a handshake is awaited, for which there is no timeout; only a task that also writes (`Notice`) finds out.
`Whole`, `BybitMessage` and `AsterPoll` are what each kind of feed makes of a message: Bybit takes
a delta for a book (`bybit.rs:144`). `Snapshot` offers to the channel with `try_send`; `Insert`, `CheckSize`, `Trim`
are `add_snapshot` under its separate locks, each of which may end with an error of the database (`GiveUp`, and the
failed `Insert`), `Crash` falls anywhere, and `ClockTick` may set the clock back. The feeds
share nothing, so one at a time is followed; a scenario says which.

`Collections` has no model in it: it holds what the proofs need to know of sets of numbers, of recursions and sums over
finite sets, and of sequences of numbered records.

## 3. The runs

| Run | Checks | Shows |
|---|---|---|
| `rate_limiter` | `TypeOK`, `WindowBound`, `WindowTight`, `ImplementsWindow` | buckets give the answers of the sliding-window limiter; no token created or lost |
| `execution` | `TypeOK`, `ExposureExplained`, `PnlOfTheDay`, `AtMostOneLateStart`, `DedupSpacing`, `QueueDrainsIfAnswered` | what a trade leaves behind, and how one follows another |
| `lock_runtime` | `TypeOK`, `NoCircularWait`, `ActorCanRun`, `AggregatorReturns` | with 4 workers: no circular wait, the actor keeps a thread, the aggregator returns to `select!` |
| `trade_pipeline` | `TypeOK`, `QuoteAgeBound`, `FilledWithinSlippage`, `LockedFactsHold`, `ChecksOfThisDetection`, `MissedOnlyForStale`, `LegsBalanced` | what an order rests on, whatever the pollers replace meanwhile |
| `command_path` | `TypeOK`, `DeafAfterCut`, `AcceptedIsKept`, `ListenerFollows`, `ImplementsLog`, `UndoneIsRedone`, `HeardIsHandled` | commands under lost connections, redelivery, restarts and torn files |
| `operator_console` | `TypeOK`, `TradedIsPolled`, `OneWriterWins`, `MovedForCause`, `Settles` | which keys the bot ends up with, why money is moved, and whether advice ends |
| `market_feeds` | `TypeOK`, `QuoteIsNoBetter`, `HistoryIsLatest`, `CapKept`, `Recovers` | when a feed comes back, what its quotes say, what the history holds |
| `order_burst` | `CapPerSecond` violated | finding 1 |
| `rollback_protection` | `RollbackProtection` violated | finding 2 |
| `losses_do_not_halt` | `LossesHaltTrading` violated | finding 3 |
| `few_workers` | `ActorCanRun` violated | finding 4 |
| `slippage_band` | `SlippageBand` violated | finding 5 |

`execution`:

* `ExposureExplained`: an idle actor's last trade left both legs or none, or one of four things happened: a reply did
  not tell what was filled, the alarm was raised, the process stopped in between, or the leg was reversed on an
  exchange whose two sides differ in size. There is no fifth cause.
* `DedupSpacing`: two starts of one key are at least the cooldown apart, though entries are evicted and are also
  written for attempts a rate limit then stopped.
* `PnlOfTheDay`: the daily PnL is never more than the gains of the trades admitted on its date, and is their sum unless
  the process was restarted on that date. The PnL is booked when a trade ends, maybe after midnight, while the date
  changes only when an opportunity is examined.
* `AtMostOneLateStart`: after the operator's switch at most one more live trade starts, restarts included; unless the
  save of the switch failed and a restart read the old word from `config.json` (`revived`).
* `QueueDrainsIfAnswered`: if the exchanges answer, the channel is emptied again and again.

`trade_pipeline`:

* `QuoteAgeBound`: no order goes out on a quote that reached the bot longer ago than both limits together, plus what the
  exchange's clock is ahead. The stamp of an opportunity is taken after validation and its quotes were fresh then,
  which is why a sender that waits for room adds nothing.
* `FilledWithinSlippage`: the volume that is sent fills on both books, within the slippage, by the reference.
* `LockedFactsHold`, `ChecksOfThisDetection`: the account is read under three locks; the facts that decide are still in
  force when the opportunity leaves, and each other one was in force during this detection.
* `LegsBalanced`: both legs are sized in USDT, each at its own price, so more coins are bought than sold. The difference is
  within the sanity cap on the spread, plus costs and two coins of rounding. That cap is looked at once, at detection.
* `MissedOnlyForStale`: a worthwhile pair of fresh quotes is passed over only because a stale quote has a better price.

`command_path`:

* `ImplementsLog`: settings are never mixed, in one run nothing is applied out of order, nothing twice.
* `DeafAfterCut`: what is issued after the consumer's connection was lost has no effect until a restart.
* `AcceptedIsKept`: nothing disappears between acknowledgement and application, but with somebody's memory.
* `UndoneIsRedone`: an older command for one setting overrides a newer one only by a second delivery, and the newer one
  then comes again too, unless the broker lost it.
* `ListenerFollows`: the one way for the listener to miss its URL is an `UpdateConfig`.
* `HeardIsHandled`: what a registered consumer can receive is handled, or the connection is lost first.

`operator_console`:

* `TypeOK` contains a conservation law: the money of the accounts and of a transfer on its way is what it was at first.
* `TradedIsPolled`: the account polled is the one traded on once the bot was restarted after its keys were given. The
  exceptions are keys that replaced others, keys of `UpdateSecrets`, and a pair that was spoilt: lines of
  two savers that overlapped, a line not written, or /cancel taken for an answer.
* `OneWriterWins`: `secrets.json` has two writers with a copy each. A login is forgotten only when the dashboard wrote
  after it, a token only when a login did, or else a write failed or was cut short, which nobody hears of.
* `MovedForCause`: concentration moves money only off an exchange that has most of it, or when the snapshot does not show
  all of it: an account missing or read as empty, or a transfer on its way (then the other looks as if it held everything).
* `Settles`: with full answers and an operator who follows it and waits for transfers to arrive the advice ends, but for
  the advice to move a surplus from Binance to Binance (`rebalance_advisor.rs:127`).

`market_feeds`:

* `Recovers`: a feed whose peer stays reachable quotes again and again, and the Listener ends at its URL, unless the feed
  never learnt its symbols, waits on a dead connection that it never writes to (Binance, the Listener), or lost its peer
  while it awaited a request or a handshake.
* `QuoteIsNoBetter`: only Bybit's quotes may differ from the best of their book, and then they are worse or show a level
  of size zero.
* `HistoryIsLatest`: the table and the channel hold the latest snapshots without a gap, but for those lost to a full
  channel, to a second one in a millisecond, to an error of the database or to a crash.
* `CapKept`: each cleanup that a crash or an error ends early costs one snapshot over the cap, no more, and the next one
  that succeeds makes it good.

### Findings

1. `order_burst`: the comment "Orders: 10 per sec" (`rate_limiter.rs:78`) does not hold for a second after a quiet
   one: burst and refill are both 10, so up to 20 orders go out within it. `WindowBound` is what the code does promise.
2. `rollback_protection`: README.md promises "rollback protection"; a reversal on Hyperliquid closes another quantity
   than was opened, with every reply truthful and no alarm.
3. `losses_do_not_halt`: "Circuit breaker: halt if daily loss exceeded" (`execution.rs:112`); what reversals lose is
   never booked, so a day that loses more than the limit goes on trading.
4. `few_workers`: "Run Execution Actor (Background Thread)" (`main.rs:150`); the actor is a task on the shared
   workers. With three workers or fewer both pollers and `/status` can block all of them on mutexes that
   `detect_sharps` holds while it waits for the actor to make room. The bot then stops for good.
5. `slippage_band`: "Slippage cap for CEX limit-IOC orders (0.3%)" (`execution.rs:49`); limits are rounded to two
   decimals after the slippage, so for a coin of some cents the limit lies per cents outside the band.

### Seen while modelling

Disagreements between code and documents that no run is about, because they concern a single line or another program:

* "Cumulative realized PnL for today (reset at UTC midnight)" (`execution.rs:68`): it is kept in memory, so every restart
  resets it too (`execution.rs:88`). This is the exception `restarts` of `PnlOfTheDay`.
* "Maximum position size as a fraction of total equity" (`constants.rs:46`): an equity of zero, before the first private
  poll, when no account request succeeded, or when only exchanges without one have keys, is taken for "not known", and
  the full 1000 USDT replace the cap (`aggregator.rs:612-616`); a known equity is that of the last poll, up to 30 s old.
* "(or type /cancel)" (`notifier.rs:220`): only the idle state handles it; the prompt is repeated, and the later ones take
  the text for a key or a secret, which is saved. "so they persist across restarts" (`notifier.rs:343`): keys that
  replace others are appended to `.env`, whose first declaration counts, so the next start reads the old ones. Both are
  exceptions of `TradedIsPolled`.
* `taker_fee_overrides` (`UpdateFees`) is stored and saved, and `detect_sharps` never reads it.
* `listener.opportunity` is published without a look at freshness; quotes fetched over REST for an alert may be
  overwritten by older ones that waited in the channel. The margin check never refuses anything on Binance, whose
  ratio is always zero.
* `EmergencyStop` and `Resume` are only logged; `CommandConsumer` (`aggregator.rs:942-998`) is registered nowhere.
* The dashboard's settings panel calls `sendCommand('UpdateConfig', cfg)`, the function behind it takes one argument,
  and a bare string is not a command the bot parses; `BotCommand` is snake_case, the names in the hub's documentation
  are not.
* "Bot will now start polling" (`notifier.rs:236`): `.env` is read at a start only, and Gate's keys are saved nowhere.
* "real MARKET orders", for Binance and Bybit only (`docs/OPERATION.md:69`): all five exchanges are implemented
  (`execution.rs:295-313`), all but Aster with limit orders that are immediate or cancelled.
* Telegram messages are sent with the token of `secrets.json`, not of `.env` (`docs/OPERATION.md:95`); `api_keys` are
  serialised into `config.json` (`docs/SECURITY.md:8` excludes them); advice is computed again every two seconds
  without the debouncing of `docs/DEV_PLAN.md:16`, and reconnection waits 2^min(n, 6) seconds, reset at each success,
  so `docs/DEV_PLAN.md:30` holds only for a server that never answers.
* Bybit's topics are built from the normalised symbol, without USDT; what the exchange answers is outside this code.
* The history's cap counts characters, not the file's size, and the file never shrinks.

### Bounds

* `MCRateLimiter`: one limited and one unlimited exchange, `MaxTime = 4`, 3 ticks a second. Order bucket: burst 3,
  weight 1; rest bucket: burst 5, weight 2, so the cap is not a multiple of the weight and a bucket can run empty,
  refill in part, hit its cap and deny with tokens left. Buckets share no state but the clock, so more exchanges add
  products and no behaviour. 128,752 states.
* `MCExecutionActor`: one symbol, two exchanges (an even one with a rate limit and an uneven one without), so both
  directions are keys of their own; `MaxTime = 3` with a day of 3 ticks: a midnight, a cooldown that expires
  (2 ticks), an opportunity that grows stale; two offers (one in the channel while one is traded); one restart;
  a log of 1 record, so it is cut; `EVICT_FACTOR = 1`, the tightest eviction (10 in the code). With two offers no third
  key evicts an entry between two starts of one key; for that there is the theorem `CooldownKept`. 974,852 states.
* `MCLockRuntime`: the five tasks are the whole program; 4 workers, channel of 2 (the code's 100 only adds sends
  between the same operations). 123,552 states.
* `MCTradePipeline`: Binance, Bybit and Gate, so that one leg may be neither polled nor stamped by the bot; books that
  differ in what decides (a thin best level, a level of size zero, prices above the sanity cap); channels of one; three quotes, a clock of three,
  two polls, commands or changes of what the accounts are worth, each reply failing in a way of its own: a poll of each
  kind can fall within one detection. 2,156,078 states.
* `MCCommandPath`: two settings, three commands (every kind occurs, `UpdateConfig` second so that its view can be stale
  and overridden), a channel of one, two faults: an acknowledgement lost and a crash after it. 266,697 states.
* `MCOperatorConsole`: nine scenarios. Two chats that log in while the dashboard saves secrets (three faults: a failed
  write before and after another, and the restart that reveals it); keys for a bot that has none, up to two pairs of
  one exchange, and for one that has Bybit's; and 1000 USDT lying in six ways, one with an operator who does not wait
  for a transfer, each with what the answers may lack. 234,890 states.
* `MCMarketFeeds`: every kind of feed with two faults (Bybit one: its book of three prices of which two are kept is what
  grows), the Listener with two URLs, and three snapshots of one or two units in a table of three. 403,282 states.

`CHECK_DEADLOCK FALSE` where the model really stops: the clock or a bounded number of commands or quotes is used up; a
Listener without a URL waits for ever. `lock_runtime` and `operator_console` check deadlock.

### Fairness

* `ExecutionActor.FairSpec`: `WF_vars(ActorStep)`: the runtime polls a task that can go on. None for `ReplyLeg` or
  `FinishRollback`, for an order is posted without a timeout; `QueueDrainsIfAnswered` makes the answers its premise.
* `LockRuntime.FairSpec`: strong fairness of `Scheduled(t)` for every task. Strong, because a mutex and a worker may
  be free and taken again while a task waits: tokio's queues serve a ready task before the same tasks again, and a
  thread in a futex wait is not passed over for ever (an assumption about the operating system: std mutexes are not
  FIFO). None for `Resume`: a reply may never come, and `AggregatorReturns` only assumes that orders are answered and
  that the broker takes what the aggregator publishes (`Answered`).
* `CommandPath`: weak fairness of `Deliver`, `Forward`, `Ack`, `Apply`: the broker delivers to a consumer, the bot's
  tasks are polled. None for anything that reconnects or restarts.
* `OperatorConsole`: weak fairness of polls that are answered in full, of the two-second interval, of an operator who
  does as advised, and of the arrival of transfers; `Settles` has the full answers, and an operator who waits for the
  arrival and for what the bot says next, as its premise as well. Nobody has to give keys or restart.
* `MarketFeeds`: requests and handshakes are answered or fail unless their peer is gone silently, delays pass (each sleep is bounded by 64 s), pings fail
  on a dead connection sooner or later (the operating system gives up retransmitting), the watch channel wakes its
  waiter, quotes grow old, and a reachable exchange that has subscriptions goes on sending: quotes for Bybit only come
  of messages that change the book. None for `Return`: `Recovers` assumes a peer that stays reachable.
* `RateLimiter` and `TradePipeline` have no liveness of their own: `check_limit` never waits, and what waits in the
  pipeline waits in `LockRuntime`.

## 4. What is proved

All theorems hold for every value of the constants that satisfies the module's named assumptions, which TLC evaluates
for the instances above. An invariant that every action keeps, by one lemma per action, carries the theorems of a module:
`IInv`, and beside it further ones where a theorem needs facts of another kind (one per theorem in
`ExecutionActorProofs`; `Repeats`, `Fitting`, `Money`, `Limits`, `FeedInv` and `Sizes` in the others).

**`RateLimiterProofs`** (assumption: caps, rates and weights are naturals). The inductive invariant is
`IInv == TypeOK /\ Ledger /\ WindowTight`; `Ledger` says that for every past instant what was granted since plus what
the bucket would hold now is at most `Cap + Rate * (now - t)`. It must speak of `Available` and not of `tokens`,
because refills are lazy. `Bounded` and `Tight` follow, and with both `Fits` is equivalent to `CanAcquire`
(`SameAnswer`), which gives `WindowRefinement`: the buckets implement `SlidingWindow`.

**`ExecutionActorProofs`** (assumption `ExecutionAssumption`: the gain of an opportunity is not negative, since
`detect_sharps` sends only when the expected profit exceeds the transfer fee, `aggregator.rs:619-623`; the PnL limit is
not positive).
* `Exposure` from `TradeInv`: in phase "legs" each answered leg is zero, its target, or the trade is not honest; in
  "rollback" one leg is being reversed and the other is settled.
* `CooldownKept` from `DedupInv`: for a key in its cooldown, `recent` is at least as late as its last start: an entry
  is evicted only when it is old, and an aborted attempt writes a later one.
* `PnlIsOfTheDay`, `BreakerNeverOpens` from `PnlInv`: nothing is booked on dates after `daily_pnl_date`, and a trade
  in flight was admitted on that date, for the actor looks at no opportunity while it trades. `booked` survives a
  restart, so the theorem says what of the day's PnL does.
* `LateStarts` from `LateInv`: the one late start allowed belongs to the opportunity in hand, and without `revived` a
  restart reads the switch as it was left.

**`LockRuntimeProofs`** (assumption: at least one worker, a channel of at least one).
* `HeldIsTaken`: a task holds only mutexes its program takes before its position (`LockInv`).
* `NoDeadlyEmbrace`: every program locks in the order funding rates, market filters, account state, config
  (`AllOrdered`), so along a chain of waiting tasks the rank rises, and it cannot rise more than three times.
* `ActorHasThread`: with `WORKERS > 3` the actor has a thread whatever the capacity of the channel: only the pollers
  and the listener can wait for the aggregator, and the config is not held at the send (`SendHolds`).

**`TradePipelineProofs`** (assumptions: limits, fees and capacities are naturals and the exchanges are those of `ExchangeId`;
`WorthAssumption`: no account is worth less than nothing; `BookAssumption`: a side of a book is a nonempty sequence of
levels, and a level without a price has no size, for nobody gives coins away. Nothing is assumed of the order of levels).
* `QuotesAreRecent` from `Flow`: what waits in a channel or in hand was fresh at its stamp (`Passed`), and the stamp is
  in the past of the start by at most `AGE`.
* `FactsStayLocked`, `AccountsOfThisDetection` from `Grounds`: the account in force is among those seen, the chosen volume
  was capped by one of them, the copied wallet states belong to one of them, and what is locked does not change while
  the stage is "sending".
* `MissedForStale`: if no stale quote is as good as those of the best fresh pairs, the pair chosen among all quotes is
  one of them, so it was worth trading. That the choice looks at the symbol at all (`TwoAreLookedAt`) is where
  the finite set of exchanges is needed.
* `FillsAsSeen` from `Fitting`: from detection to the channel the size is positive and no more than either book's
  `SafeNotional`. That such a size fills within the slippage is `SafeFills`. `max_safe_volume_usdt` bounds the average
  only where a level ends, an order may end within one: with `N` and `A` for value and coins of whole levels, the bound
  at both ends of the level gives it in between (`Between`), because there value and coins grow in a fixed ratio. The
  sums are those of `Collections`; levels of size zero are skipped on both sides (`NoCoinsNoValue`), and the size is
  not zero because it pays the transfer fee (`WorthFits`).
* `LegsStayBalanced` from `Fitting` too, for it also keeps the prices below the sanity cap, from detection to the trade.
  `Bought` and `Sold` bound what each exchange's rounding makes of a volume (`NearestIsNear` for the half-even one); with
  the bound on the two prices, `Balance` multiplies by the ask, compares and cancels.

**`CommandPathProofs`** (assumption: the URL is a setting). `Gone`, `InOrder` and `InHand` say how the four places a
command can be in relate: ids rise along each and from one to the next, `unacked` is `buffer` behind the command just
forwarded, and without a consumer nothing is to be acknowledged. `NoneForgotten` and `Deaf` follow; `Followed` follows
from the commands applied in this run; `CommandRefinement` maps every step to one of `SettingsLog` or a stutter, for
which all configurations anywhere (in a file, a view, a command on its way) must be past ones (`Pasts`).
`FollowedAgain` needs a second invariant, `Repeats`, over the numbers of the commands the broker still holds, those the
bot has taken and those handled: an accepted command that is still on its way while a newer one was handled was itself
handled before (`Again`), and then the newer one is behind it wherever the older one is, or lost (`Behind`).

**`OperatorConsoleProofs`** (assumptions: "nobody" is no chat; a scenario's accounts hold natural amounts of which no
more is locked than is there, and it has at least one pair of keys). `PairInv`: for an exchange that is
not spoilt either nobody appends and the declared pair is whole, or one saver does and exactly its first line may be
there. `SameAccount` from it, `Ungiven`, `GivenOnce` and `FiledInv`: an exchange given one pair has it in `.env`, or on its
way there, and in `config.json` or not at all. `LastWriter` follows a token and a login through memory and file, failed
writes included. `CauseOfMoves` from `Money`: all the money is in the accounts or on its way, and until the operator acts
the snapshot shows no more than there is; advice against concentration is computed from the snapshot, so when its total
is all the money, most of it was there. For this the advice to one recipient, a fold over the donors, is shown to
contain "margin" suggestions only (`PromisesAre`, by `FoldTyped`), and the total to be the sum (`TotalIsAll`).
`TypeCorrect` from `Limits` and `Money`.

**`MarketFeedsProofs`** (assumption: capacities and sizes are positive, prices are natural and finitely many).
`HistoryKept`: the numbers of the snapshots rise from the oldest row to the end of the channel as long as the clock is
not set back (`InOrder`), so the row with the lowest timestamp is the oldest snapshot and deleting it leaves no gap.
`BestIsTrue` from `FeedInv`: what is quoted is one side of a nonempty set of prices, ranked (`Ranked`: there is a k-th
lowest), of the book itself or, on Bybit, of what changed in it. `CapIsKept` from `Sizes`: no snapshot, waiting or
stored, is larger than `BIGGEST`, so an insert adds at most that before the size is checked; a removed row takes its size
with it (`TotalRows`), and trimming goes on until the target is met, which is below the cap. `TypeCorrect` from both.

**`Collections`**. The folds of the community modules are functions chosen by their recursive equation. `FoldExists` shows
that on a finite set there is such a function, by counting up cardinalities (`Counting`: a set of naturals with zero and
all successors is all of them, from the library's well-foundedness); `FoldTyped` and `FoldUnique` say what holds of every
one. From there `SumOver` and `SumSame` give the arithmetic of `SumFunctionOnSet`: one element more, equal terms. The
models therefore sum with that operator.

**Only model-checked**: what needs fairness (`QueueDrainsIfAnswered`, `AggregatorReturns`, `HeardIsHandled`, `Settles`,
`Recovers`), which TLAPS cannot prove, and the five findings, which are counterexamples. Every invariant and every action
property of a passing run is a theorem. One theorem speaks of what no run checks: `BreakerNeverOpens`, that the
circuit breaker is dead code because only gains are booked; its run is the counterexample of finding 3.

## 5. Not modelled, and why

* Backend authentication, dashboard hooks and views, the history proxy, entity classes, migrations and test endpoints:
  the web application around the bot. Nothing in the bot depends on them, and each request is one database transaction.
  The bridge is modelled as far as commands and the configuration go; its connected flag is for display only, and the
  other messages it forwards carry no state.
* The logger (lines for the terminal) and texts, formatting, slices of log lines (`aggregator.rs:857`).
* f64 and Decimal rounding beyond the roundings the code asks for; HTTP, signing and parsing.
* Transfers between exchanges (`handle_callback`): only reached from buttons of a message nothing sends
  (`notifier.rs:60`).
* The wall clock stepping back in `ExecutionActor` and `TradePipeline`: `chrono::Utc` could; their `now` only grows. In
  `MarketFeeds` it may.
* The order budget and reversals (`execution.rs:178`): reversals ask no rate limiter; how many fall into one window
  depends on how fast an exchange answers, which nothing here bounds.
* The lengths of reconnection delays; that history queries block a worker while a trim holds the mutex; batches and the
  number of symbols a feed subscribes to.
* The circuit-trip branch is one step in `SettleBoth`, though the code awaits an alert in it: the branch is never
  taken (`BreakerNeverOpens`). Poisoned mutexes: a panic while a guard lives ends that task; most callers ignore the
  poison, `aggregator.rs:659` and the pollers do not.
* In `OperatorConsole`, `UpdateConfig`, which replaces `api_keys` too: what it may bring back is in `CommandPath`. An
  `UpdateSecrets` names one exchange at a time. An account request that fails and one that shows zeros look the same to
  `TradePipeline` (no equity, no margin to refuse on), which therefore has the former only.
* `LegsBalanced` bounds the coins bought beyond those sold only: the ask of a pair is the lower price, so less is bought
  than sold by rounding alone, and on Hyperliquid by its 0.5 %.
* Two dashboards that register users at once: only the aggregator writes `users.json`, one command at a time.

## 6. Plan

All modules of the plan are built. What would add most next, in this order:

1. Several symbols in `TradePipeline`, for the per-symbol independence that one symbol assumes.
2. `TradePipeline` and `ExecutionActor` composed, so that `Drop` is given the actor's reasons and the books give
   `Qty`.
3. A liveness argument for the supervision of the feeds that says how long a dead connection may go unnoticed.
