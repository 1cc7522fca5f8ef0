--------------------------- MODULE MCTradePipeline ---------------------------
(***************************************************************************)
(* Small values for TradePipeline: Binance and Bybit, which are polled and   *)
(* stamped with the bot's clock, and Gate, which is neither.  The books      *)
(* differ in what decides: a cheap and a dear side, one beyond the sanity    *)
(* cap, a thin best level, a level of size zero as Bybit's deltas leave it.  At most one exchange's    *)
(* requests fail in one poll, or all of them.                                *)
(***************************************************************************)
EXTENDS TradePipeline

MCExchange == {"Binance", "Bybit", "Gate"}
MCPolled == {"Binance", "Bybit"}
MCOwnClock == {"Gate"}
MCRoundTrip == [e \in MCExchange |-> IF e = "Bybit" THEN 12 ELSE 10]

Cheap == [bids |-> << <<96, 50>> >>, asks |-> << <<97, 40>> >>]
Deep == [bids |-> << <<105, 40>> >>, asks |-> << <<106, 40>> >>]
Deleted == [bids |-> << <<112, 0>>, <<105, 30>>, <<104, 40>> >>, asks |-> << <<113, 40>> >>]
Dear == [bids |-> << <<113, 40>> >>, asks |-> << <<114, 40>> >>]
Cheaper == [bids |-> << <<94, 40>> >>, asks |-> << <<95, 2>>, <<96, 60>> >>]

MCBook == [e \in MCExchange |->
  CASE e = "Binance" -> {Cheap}
    [] e = "Bybit" -> {Deep, Deleted, Dear}
    [] e = "Gate" -> {Cheaper}]

MCWorth(binance, bybit) ==
  [e \in MCExchange |-> CASE e = "Binance" -> binance [] e = "Bybit" -> bybit [] OTHER -> 0]
MCFirstWorth == MCWorth(300, 500)
MCWorths == {MCFirstWorth, MCWorth(300, 100)}

\* Everything answers, in quiet times; the rates differ by more than the spread
\* pays; the symbol is halted on one exchange; little traded, with one volume
\* missing; a high minimum, with one exchange missing; one rate missing.
Quiet == [filters |-> MCExchange, volumes |-> MCPolled, rates |-> MCPolled,
          halted |-> {}, minNotional |-> 5, volume |-> 50, rate |-> [e \in MCExchange |-> 1]]
Apart == [Quiet EXCEPT !.rate["Binance"] = 60, !.rate["Bybit"] = -40]
MCPublicReply ==
  {Apart,
   [Quiet EXCEPT !.halted = {"Bybit"}],
   [Quiet EXCEPT !.volume = 5, !.volumes = {"Binance"}],
   [Apart EXCEPT !.rates = {"Binance"}, !.filters = {"Binance", "Gate"}, !.minNotional = 50]}

\* Both accounts; Bybit's margin bound; its wallet closed to deposits and its
\* positions missing; Binance alone; nobody.
Open == [known |-> TRUE, withdraw |-> TRUE, deposit |-> TRUE]
Both == [accounts |-> MCPolled, positions |-> {"Bybit"}, wallets |-> MCPolled,
         margin |-> 20, wallet |-> [e \in MCExchange |-> Open]]
MCPrivateReply ==
  {Both,
   [Both EXCEPT !.margin = 90],
   [Both EXCEPT !.wallet["Bybit"].deposit = FALSE, !.positions = {}],
   [Both EXCEPT !.accounts = {"Binance"}, !.wallets = {"Binance"}, !.positions = {}],
   [Both EXCEPT !.accounts = {}, !.wallets = {}, !.positions = {}]}

MCConfig == {[blacklisted |-> b, threshold |-> 500, minVolume |-> 10] : b \in BOOLEAN}
=============================================================================
