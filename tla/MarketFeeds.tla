----------------------------- MODULE MarketFeeds -----------------------------
(***************************************************************************)
(* Where market data comes from and where it ends: the task of one feed      *)
(* (exchange/*.rs) or of the Listener client (listener.rs), the quote it     *)
(* leaves with the aggregator, and the snapshots of opportunities the        *)
(* aggregator hands to the history store (history.rs).                       *)
(*                                                                         *)
(* The feeds are tasks that share nothing, so a behaviour follows one of     *)
(* them; the rest of the market is up to date.  How long a task sleeps is    *)
(* left out.  Of an order book, the asks of one symbol are followed.         *)
(***************************************************************************)
EXTENDS Integers, SequencesExt, FiniteSetsExt

CONSTANTS
  Scenarios,
    \* [kind, prices, urls, snapshots, faults]: the feed, the prices of its
    \* book, and bounds: changes of the Listener's URL, snapshots, faults
  DEPTH,      \* levels of a side that most feeds keep (5)
  CAPACITY,  \* snapshots the channel to the writer holds (32)
  CAP,       \* MAX_DB_BYTES
  TARGET,    \* TARGET_AFTER_CLEANUP_BYTES
  BIGGEST,   \* size of the largest snapshot
  LastMs     \* bound: the clock

WebSocket == {"Binance", "Bybit", "Gate", "Hyperliquid"}
Pinging == {"Bybit", "Gate", "Hyperliquid"}   \* feeds that write, too
Kind == WebSocket \cup {"Aster", "Listener"}
NOWHERE == ""                                 \* no URL: the client is disabled

ASSUME FeedsAssumption ==
  /\ {DEPTH, CAPACITY, CAP, TARGET, BIGGEST, LastMs} \subseteq Nat \ {0}
  /\ BIGGEST <= TARGET /\ TARGET <= CAP
  /\ \A b \in Scenarios :
       /\ b.kind \in Kind /\ NOWHERE \notin b.urls
       /\ b.prices # {} /\ b.prices \subseteq Nat /\ IsFiniteSet(b.prices)

VARIABLES
  bound,      \* the scenario
  reachable,  \* the exchange, or the Listener, answers
  faults,     \* bound: what went wrong so far
  feed,       \* the task: [at, tries, url]
  symbols,    \* it knows what to subscribe to
  silent,     \* its request, dial or connection is dead, and nothing said so
  url,        \* the watch channel of the Listener's URL ...
  unseen,     \* ... holds a version that was not yet waited for
  moves,      \* bound: changes of the URL
  book,       \* the asks of the exchange
  told,       \* the asks as Bybit last reported them
  quote,      \* market_data: levels [price, size]
  quoted,     \* history: the asks when that quote came
  fresh,      \* the quote is not older than TICKER_STALE_MS
  queue,      \* the snapshot channel
  writer,     \* add_snapshot: "idle", "check", "trim"
  rows,       \* the table: timestamp -> [id, size]
  clock,      \* milliseconds
  back,       \* history: the clock was set back
  taken,      \* history: snapshots so far
  real,       \* history: those that were not empty
  excused,    \* history: those lost to a full channel, a refused row, a crash
  cut         \* history: cleanups cut short since the last that was not

task == <<feed, symbols, silent>>
watch == <<url, unseen, moves>>
market == <<book, told, quote, quoted, fresh>>
history == <<queue, writer, rows, taken, real, excused, cut>>
time == <<clock, back>>
vars == <<bound, reachable, faults, task, watch, market, history, time>>

kind == bound.kind
At(place) == [feed EXCEPT !.at = place]
First == [at |-> IF kind = "Listener" THEN "connect" ELSE "discover", tries |-> 0, url |-> NOWHERE]

Init ==
  /\ bound \in Scenarios
  /\ reachable = TRUE /\ faults = 0
  /\ feed = First /\ symbols = (kind = "Listener") /\ silent = FALSE
  /\ url = NOWHERE /\ unseen = FALSE /\ moves = 0
  /\ book = bound.prices /\ told = {}
  /\ quote = << >> /\ quoted = {} /\ fresh = FALSE
  /\ queue = << >> /\ writer = "idle" /\ rows = << >>
  /\ clock = 1 /\ back = FALSE
  /\ taken = 0 /\ real = {} /\ excused = {} /\ cut = 0

Fault == faults < bound.faults /\ faults' = faults + 1
NoFault == UNCHANGED faults

-----------------------------------------------------------------------------
(* The task of a feed. *)

\* Binance asks once for its symbols, and goes on without any.
DiscoverOnce ==
  /\ kind = "Binance" /\ feed.at = "discover" /\ ~silent
  /\ symbols' \in {FALSE, reachable}
  /\ feed' = At("connect")
  /\ UNCHANGED <<bound, reachable, faults, silent, watch, market, history, time>>

\* The others ask up to five times.
Discover ==
  /\ kind # "Binance" /\ feed.at = "discover" /\ ~silent
  /\ symbols' \in {FALSE, reachable}
  /\ feed' = IF symbols' \/ feed.tries = 4 THEN At("connect") ELSE [feed EXCEPT !.tries = @ + 1]
  /\ UNCHANGED <<bound, reachable, faults, silent, watch, market, history, time>>

Dial ==
  /\ kind # "Listener" /\ feed.at = "connect"
  /\ feed' = At(IF kind = "Aster" THEN "open" ELSE "dialing")
  /\ UNCHANGED <<bound, reachable, faults, symbols, silent, watch, market, history, time>>

\* The Listener client borrows the URL, which does not mark it seen; without a
\* URL it waits for the next.
DialUrl ==
  /\ kind = "Listener" /\ feed.at = "connect"
  /\ IF url # NOWHERE
     THEN feed' = [feed EXCEPT !.at = "dialing", !.url = url] /\ UNCHANGED unseen
     ELSE unseen /\ unseen' = FALSE /\ UNCHANGED feed
  /\ UNCHANGED <<bound, reachable, faults, symbols, silent, url, moves, market, history, time>>

\* Mutation of Dialed: a refused connection ends the task.
DialedOnce ==
  /\ feed.at = "dialing" /\ ~silent
  /\ feed' = At(IF reachable THEN "open" ELSE "ended")
  /\ UNCHANGED <<bound, reachable, faults, symbols, silent, watch, market, history, time>>

\* connect_async returns.
Dialed ==
  /\ feed.at = "dialing" /\ ~silent
  /\ feed' = At(IF reachable THEN "open" ELSE "sleep")
  /\ UNCHANGED <<bound, reachable, faults, symbols, silent, watch, market, history, time>>

Connected == feed.at \in {"open", "live"}

\* The stream ends, or an error is read.
Drop ==
  /\ Connected /\ kind # "Aster" /\ Fault
  /\ feed' = At("sleep") /\ silent' = FALSE
  /\ UNCHANGED <<bound, reachable, symbols, watch, market, history, time>>

\* The peer is gone without a word: a task that only reads waits on, and so
\* does one that awaits the answer to a request or to a handshake.  Only the
\* requests of Aster have a timeout.
LoseSilently ==
  /\ Connected \/ feed.at \in {"discover", "dialing"}
  /\ kind # "Aster" /\ ~silent /\ Fault
  /\ silent' = TRUE
  /\ UNCHANGED <<bound, reachable, feed, symbols, watch, market, history, time>>

\* A ping cannot be delivered: the write fails and the reader gets the error.
Notice ==
  /\ Connected /\ silent /\ kind \in Pinging
  /\ feed' = At("sleep") /\ silent' = FALSE
  /\ UNCHANGED <<bound, reachable, faults, symbols, watch, market, history, time>>

\* The connected Listener client waits for a new URL as well.
Moved ==
  /\ kind = "Listener" /\ Connected /\ unseen
  /\ feed' = At("sleep") /\ silent' = FALSE /\ unseen' = FALSE
  /\ UNCHANGED <<bound, reachable, faults, symbols, url, moves, market, history, time>>

\* After the delay; the Listener client also when the URL changed.
Wake ==
  /\ feed.at = "sleep"
  /\ feed' = At("connect")
  /\ unseen' \in {unseen, FALSE}
  /\ UNCHANGED <<bound, reachable, faults, symbols, silent, url, moves, market, history, time>>

SetUrl ==
  /\ kind = "Listener" /\ moves < Cardinality(bound.urls) /\ moves' = moves + 1
  /\ url' \in bound.urls \cup {NOWHERE}
  /\ unseen' = TRUE
  /\ UNCHANGED <<bound, reachable, faults, task, market, history, time>>

Vanish ==
  /\ reachable /\ Fault /\ reachable' = FALSE
  /\ UNCHANGED <<bound, task, watch, market, history, time>>
Return ==
  /\ ~reachable /\ NoFault /\ reachable' = TRUE
  /\ UNCHANGED <<bound, task, watch, market, history, time>>

-----------------------------------------------------------------------------
(* Quotes. *)

Trade ==
  /\ kind # "Listener"
  /\ book' \in (SUBSET bound.prices) \ {{}}
  /\ UNCHANGED <<bound, reachable, faults, task, watch, told, quote, quoted, fresh, history, time>>

\* The k-th lowest of some prices.
Lowest(prices, k) == CHOOSE p \in prices : Cardinality({q \in prices : q < p}) = k - 1

\* Best first; size 0 says that a level is gone.  Binance keeps what it gets.
Depth(prices) ==
  IF kind = "Binance" THEN Cardinality(prices) ELSE Min({DEPTH, Cardinality(prices)})
Side(prices, there) ==
  [k \in 1..Depth(prices) |->
     [price |-> Lowest(prices, k), size |-> IF Lowest(prices, k) \in there THEN 1 ELSE 0]]

Quote(side) == quote' = side /\ quoted' = book /\ fresh' = TRUE

\* A message with the book as it is.
Whole ==
  /\ Connected /\ kind \in {"Binance", "Gate", "Hyperliquid"}
  /\ reachable /\ ~silent /\ symbols
  /\ Quote(Side(book, book))
  /\ feed' = At("live")
  /\ UNCHANGED <<bound, reachable, faults, symbols, silent, watch, book, told, history, time>>

\* Mutation of Delta: levels that are gone are passed over, those quoted stay.
DeltaMerged(changed) ==
  Quote(Side({quote[k].price : k \in DOMAIN quote} \cup changed, bound.prices))

\* What changed is taken for the book.
Delta(changed) == Quote(Side(changed, book))

\* Bybit: the book after subscribing, then what changed in it; a message that
\* has nothing of one side is passed over.
BybitMessage ==
  /\ Connected /\ kind = "Bybit" /\ reachable /\ ~silent /\ symbols
  /\ \/ feed.at = "open" /\ Quote(Side(book, book))
     \/ /\ feed.at = "live"
        /\ \E resized \in SUBSET (told \cap book) :
             LET changed == (told \ book) \cup (book \ told) \cup resized
             IN \/ changed # {} /\ Delta(changed)
                \/ UNCHANGED <<quote, quoted, fresh>>
  /\ told' = book /\ feed' = At("live")
  /\ UNCHANGED <<bound, reachable, faults, symbols, silent, watch, book, history, time>>

\* Aster: a request for each symbol in turn, with a timeout.
AsterPoll ==
  /\ Connected /\ kind = "Aster" /\ reachable /\ symbols
  /\ Quote(Side(book, book))
  /\ UNCHANGED <<bound, reachable, faults, task, watch, book, told, history, time>>

\* The quote passes TICKER_STALE_MS.
Age ==
  /\ fresh /\ fresh' = FALSE
  /\ UNCHANGED <<bound, reachable, faults, task, watch, book, told, quote, quoted, history, time>>

-----------------------------------------------------------------------------
(* Snapshots. *)

Total == SumFunction([t \in DOMAIN rows |-> rows[t].size])

\* Mutation of Offer: the channel takes them all.
OfferUnbounded(s) == queue' = Append(queue, s) /\ UNCHANGED excused

\* try_send: dropped when the channel is full.
Offer(s) ==
  IF Len(queue) < CAPACITY
  THEN queue' = Append(queue, s) /\ UNCHANGED excused
  ELSE excused' = excused \cup {s.id} /\ UNCHANGED queue

\* Every 150th tick: the opportunities of fresh quotes; an empty list, too, is
\* handed on.
Snapshot ==
  /\ taken < bound.snapshots /\ taken' = taken + 1
  /\ \E size \in {0} \cup (IF fresh THEN 1..BIGGEST ELSE {}) :
       /\ real' = IF size > 0 THEN real \cup {taken'} ELSE real
       /\ Offer([id |-> taken', size |-> size])
  /\ UNCHANGED <<bound, reachable, faults, task, watch, market, writer, rows, cut, time>>

\* add_snapshot: an empty list is passed over; a second row of one millisecond
\* is refused, and the database may fail on any other.  Both are only logged.
Insert ==
  /\ writer = "idle" /\ queue # << >>
  /\ queue' = Tail(queue)
  /\ LET s == Head(queue)
     IN \/ s.size = 0 /\ NoFault /\ UNCHANGED <<rows, writer, excused>>
        \/ /\ s.size > 0
           /\ (clock \in DOMAIN rows /\ NoFault) \/ Fault
           /\ excused' = excused \cup {s.id}
           /\ UNCHANGED <<rows, writer>>
        \/ /\ s.size > 0 /\ clock \notin DOMAIN rows
           /\ rows' = [t \in DOMAIN rows \cup {clock} |-> IF t = clock THEN s ELSE rows[t]]
           /\ writer' = "check"
           /\ NoFault /\ UNCHANGED excused
  /\ UNCHANGED <<bound, reachable, task, watch, market, taken, real, cut, time>>

Done == writer' = "idle" /\ cut' = 0 /\ NoFault

\* A query or a delete fails: add_snapshot returns, which is only logged.
GiveUp == writer' = "idle" /\ cut' = cut + 1 /\ Fault

\* cleanup_if_needed, under the lock again.
CheckSize ==
  /\ writer = "check"
  /\ \/ Total > CAP /\ writer' = "trim" /\ NoFault /\ UNCHANGED cut
     \/ Total <= CAP /\ Done
     \/ GiveUp
  /\ UNCHANGED <<bound, reachable, task, watch, market, queue, rows, taken, real, excused, time>>

Without(t) == [r \in DOMAIN rows \ {t} |-> rows[r]]

\* Mutation of Trim: the newest row goes first.
TrimNewest ==
  /\ writer = "trim"
  /\ IF Total > TARGET
     THEN rows' = Without(Max(DOMAIN rows)) /\ NoFault /\ UNCHANGED <<writer, cut>>
     ELSE Done /\ UNCHANGED rows
  /\ UNCHANGED <<bound, reachable, task, watch, market, queue, taken, real, excused, time>>

\* Mutation of Trim: one row makes room for one.
TrimOne ==
  /\ writer = "trim"
  /\ rows' = Without(Min(DOMAIN rows)) /\ Done
  /\ UNCHANGED <<bound, reachable, task, watch, market, queue, taken, real, excused, time>>

\* trim_oldest_until_under: row by row, each deleted for good.
Trim ==
  /\ writer = "trim"
  /\ \/ Total > TARGET /\ rows' = Without(Min(DOMAIN rows)) /\ NoFault /\ UNCHANGED <<writer, cut>>
     \/ Total <= TARGET /\ Done /\ UNCHANGED rows
     \/ GiveUp /\ UNCHANGED rows
  /\ UNCHANGED <<bound, reachable, task, watch, market, queue, taken, real, excused, time>>

ClockTick ==
  /\ bound.snapshots > 0
  /\ \/ clock < LastMs /\ clock' = clock + 1 /\ NoFault /\ UNCHANGED back
     \/ Fault /\ clock' \in 1..(clock - 1) /\ back' = TRUE
  /\ UNCHANGED <<bound, reachable, task, watch, market, history>>

\* The process dies and starts again; the table stays.
Crash ==
  /\ Fault
  /\ feed' = First /\ symbols' = (kind = "Listener") /\ silent' = FALSE /\ unseen' = FALSE
  /\ quote' = << >> /\ quoted' = {} /\ fresh' = FALSE
  /\ queue' = << >> /\ excused' = excused \cup {queue[k].id : k \in DOMAIN queue}
  /\ writer' = "idle" /\ cut' = IF writer = "idle" THEN cut ELSE cut + 1
  /\ UNCHANGED <<bound, reachable, url, moves, book, told, rows, taken, real, time>>

Next ==
  \/ DiscoverOnce \/ Discover \/ Dial \/ DialUrl \/ Dialed
  \/ Drop \/ LoseSilently \/ Notice \/ Moved \/ Wake \/ SetUrl \/ Vanish \/ Return
  \/ Trade \/ Whole \/ BybitMessage \/ AsterPoll \/ Age
  \/ Snapshot \/ Insert \/ CheckSize \/ Trim \/ ClockTick \/ Crash

\* Requests and dials return unless their peer has gone silently, delays pass,
\* pings are sent, and an exchange that is reached sends its books again and
\* again.
Fairness ==
  /\ WF_vars(DiscoverOnce) /\ WF_vars(Discover)
  /\ WF_vars(Dial) /\ WF_vars(DialUrl) /\ WF_vars(Dialed)
  /\ WF_vars(Notice) /\ WF_vars(Moved) /\ WF_vars(Wake)
  /\ WF_vars(Whole) /\ WF_vars(BybitMessage /\ fresh') /\ WF_vars(AsterPoll) /\ WF_vars(Age)

Spec == Init /\ [][Next]_vars /\ Fairness

-----------------------------------------------------------------------------
(* Properties. *)

\* The variables are of their types; no channel holds more than its capacity.
TypeOK ==
  /\ feed.at \in {"discover", "connect", "dialing", "open", "live", "sleep"}
  /\ feed.tries \in 0..4 /\ feed.url \in bound.urls \cup {NOWHERE}
  /\ {reachable, symbols, silent, unseen, fresh, back} \subseteq BOOLEAN
  /\ \A k \in DOMAIN quote : quote[k].price \in bound.prices
  /\ (kind = "Binance" \/ Len(quote) <= DEPTH) /\ Len(queue) <= CAPACITY
  /\ writer \in {"idle", "check", "trim"} /\ DOMAIN rows \subseteq 1..LastMs
  /\ real \cup excused \subseteq 1..taken

\* A quote of Bybit shows no better ask than its book had, except a level that
\* was just removed; every other quote shows the best ask of its book.
QuoteIsNoBetter ==
  quote # << >> =>
    LET best == Head(quote) IN
      IF kind = "Bybit" THEN best.size = 0 \/ best.price >= Min(quoted)
      ELSE best = [price |-> Min(quoted), size |-> 1]

\* A feed whose peer stays reachable quotes again and again, and the Listener
\* client ends up where its URL points, whatever was lost before: unless it
\* never learnt what to subscribe to, or its peer was lost without a word while
\* it waited for the answer to a request or to a handshake, which have no
\* timeout, or on a connection over which it sends nothing.
Served == IF kind = "Listener" THEN Connected /\ feed.url = url ELSE fresh
Recovers ==
  <>[]reachable =>
    \/ []<>Served
    \/ <>[](IF kind = "Listener" THEN url = NOWHERE ELSE ~symbols)
    \/ <>[](silent /\ (kind \notin Pinging \/ ~Connected))

\* Unless the clock was set back, the table and the channel hold the latest
\* snapshots without a gap, but for those lost to a full channel, to a second
\* one in the same millisecond, to an error of the database, or to a crash.
Held == {queue[k].id : k \in DOMAIN queue} \cup {rows[t].id : t \in DOMAIN rows}
HistoryIsLatest ==
  ~back => \E k \in 0..taken : \A id \in real : id \in Held <=> id > k /\ id \notin excused

\* The table passes its cap by the snapshot being added, and by one more for
\* each cleanup since the last successful one that a crash or an error of the
\* database has ended early.
CapKept == Total <= CAP + BIGGEST * (cut + IF writer = "idle" THEN 0 ELSE 1)

=============================================================================
