---------------------------- MODULE MCMarketFeeds ----------------------------
(***************************************************************************)
(* Small values for MarketFeeds: each feed with its faults, Bybit with a     *)
(* book of three prices of which two are kept, the Listener with two URLs,   *)
(* and three snapshots of one or two units in a table of three.               *)
(***************************************************************************)
EXTENDS MarketFeeds

Feed(x) == [kind |-> x, prices |-> 1..3, urls |-> {}, snapshots |-> 0, faults |-> 2]
MCScenarios ==
  {Feed(x) : x \in {"Binance", "Gate", "Hyperliquid", "Aster"}}
  \cup {[Feed("Bybit") EXCEPT !.faults = 1],
        [Feed("Listener") EXCEPT !.urls = {"a", "b"}],
        [Feed("Binance") EXCEPT !.prices = {1}, !.snapshots = 3]}
=============================================================================
