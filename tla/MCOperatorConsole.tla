-------------------------- MODULE MCOperatorConsole --------------------------
(***************************************************************************)
(* Small values for OperatorConsole: two chats, 1000 USDT.  Two chats log in *)
(* while the dashboard saves secrets; keys are given to a bot that has none, *)
(* and to one that has Bybit's, where Binance may refuse what it is given;   *)
(* and a bot that has both sees the money lie                                *)
(* too thin for its margin, too thin to be topped up without concentrating   *)
(* it, locked beyond what can be moved, concentrated, and locked on both.    *)
(***************************************************************************)
EXTENDS OperatorConsole

MCChat == {"ann", "bob"}
Split(bybit, onBybit, onBinance) ==
  [equity |-> [x \in Polled |-> IF x = "Bybit" THEN bybit ELSE 1000 - bybit],
   locked |-> [x \in Polled |-> IF x = "Bybit" THEN onBybit ELSE onBinance]]
Scenario(c, o, e, pairs, saved, bad) ==
  [chats |-> c, owner |-> o, inEnv |-> e, token |-> 1, given |-> pairs, tokens |-> saved, faults |-> bad,
   funds |-> Split(600, 100, 0), loose |-> TRUE, patient |-> TRUE, answers |-> {}, gaps |-> {}]
Lying(f, lacking, waits) ==
  [Scenario({}, "ann", Polled, 1, 1, 0) EXCEPT
     !.funds = f, !.loose = (100 * f.locked["Bybit"] <= 28 * 1000), !.patient = waits,
     !.answers = Polled, !.gaps = lacking]

MCScenarios ==
  {Scenario(MCChat, NOBODY, {}, 1, 3, 3),
   Scenario({"ann"}, "ann", {}, 3, 1, 1),
   [Scenario({"ann"}, "ann", {"Bybit"}, 2, 2, 1) EXCEPT !.answers = {"Binance"}]}
  \cup {Lying(f, {"account", "positions"}, TRUE) :
          f \in {Split(200, 100, 0), Split(1000, 800, 0), Split(950, 250, 0)}}
  \cup {[Lying(Split(600, 250, 100), {"account", "positions"}, TRUE) EXCEPT !.faults = 1],
        Lying(Split(400, 200, 0), {"balance", "deposits", "withdrawals"}, TRUE),
        Lying(Split(900, 100, 0), {"account"}, FALSE)}
=============================================================================
