---------------------------- MODULE MCRateLimiter ----------------------------
(***************************************************************************)
(* Small values for RateLimiter: one exchange with a limiter and one        *)
(* without.  The order bucket has the shape the code gives Binance's, a     *)
(* burst equal to one second's refill (10 and 10 per second: here 3 and 3   *)
(* ticks); the rest bucket has a burst of several requests, a weight above  *)
(* one (the pollers ask 2) and a cap the weight does not divide.            *)
(***************************************************************************)
EXTENDS RateLimiter

CONSTANTS binance, gate

MCExchange == {binance, gate}
MCLimited == {binance}
MCKind == {"rest", "order"}
MCCap == [b \in MCLimited \X MCKind |-> IF b[2] = "rest" THEN 5 ELSE 3]
MCRate == [b \in MCLimited \X MCKind |-> 1]
MCWeight == [b \in MCLimited \X MCKind |-> IF b[2] = "rest" THEN 2 ELSE 1]
=============================================================================
