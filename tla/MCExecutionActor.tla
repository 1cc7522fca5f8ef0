--------------------------- MODULE MCExecutionActor ---------------------------
(***************************************************************************)
(* Small values for ExecutionActor.                                         *)
(***************************************************************************)
EXTENDS ExecutionActor

CONSTANTS btc, binance, hyper

MCSymbol == {btc}
MCExchange == {binance, hyper}
MCLimited == {binance}
MCPnlLimit == -1
\* Hyperliquid buys volume / (1.005 price) and sells volume / (0.995 price).
MCQty == [e \in MCExchange |->
            IF e = binance THEN [s \in {"BUY", "SELL"} |-> 1]
            ELSE [s \in {"BUY", "SELL"} |-> IF s = "BUY" THEN 1 ELSE 2]]
=============================================================================
