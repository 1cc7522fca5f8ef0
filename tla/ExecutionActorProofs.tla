------------------------- MODULE ExecutionActorProofs -------------------------
(***************************************************************************)
(* Proofs about ExecutionActor for every set of symbols and exchanges,      *)
(* every quantity, gain, limit, cooldown and length of the day, and every   *)
(* bound of the clock and of the environment.                               *)
(***************************************************************************)
EXTENDS ExecutionActor, TLAPS

-----------------------------------------------------------------------------
\* Lemmas about the operators.

LEMMA Products ==
  ASSUME NEW s \in Nat, NEW f \in Nat \ {0}, NEW x \in Int, NEW r \in Nat
  PROVE  s * f \in Nat /\ s * f >= s /\ x * r \in Int
BY SMT

\* Days are counted from zero and never run backwards.
LEMMA DayFacts ==
  ASSUME NEW t \in Nat
  PROVE  /\ Day(t) \in Nat
         /\ \A s \in Nat : s <= t => Day(s) <= Day(t)
BY ExecutionAssumption, SMT DEF Day, ExecutionAssumption

LEMMA OppFacts ==
  ASSUME NEW o \in Opp
  PROVE  /\ KeyOf(o) \in Key
         /\ o.symbol \in Symbol /\ o.long \in Exchange /\ o.short \in Exchange
         /\ o.gain \in Nat /\ o.ts \in 0..MaxTime
BY ExecutionAssumption DEF Opp, KeyOf, Key, ExecutionAssumption

LEMMA BucketFacts ==
  ASSUME NEW b \in Bucket, NEW t \in Nat
  PROVE  AfterAcquire(b, 1, t) \in Bucket
<1>1. (t - b.last_refill) * b.refill_rate \in Int
  BY Products DEF Bucket
<1>2. Available(b, t) \in Int
  BY <1>1 DEF Available, Bucket
<1>3. Refill(b, t) \in Bucket
  BY <1>2 DEF Refill, Bucket
<1> QED BY <1>3 DEF AfterAcquire, Bucket

\* The constants' types, in the form the steps need them.
LEMMA ConstantFacts ==
  /\ MaxTime \in Nat /\ Day(MaxTime) \in Nat /\ 0 \in 0..Day(MaxTime)
  /\ OrderCap \in Nat /\ OrderRate \in Nat
  /\ MAX_LOG \in Nat /\ LOG_CUT \in 1..MAX_LOG
  /\ ReversalCost \in Nat
  /\ TimeSteps \subseteq Nat \ {0}
  /\ \A t \in 0..MaxTime : Day(t) \in 0..Day(MaxTime)
  /\ \A e \in Exchange, s \in Side : Qty[e][s] \in Nat
BY DayFacts, ExecutionAssumption DEF ExecutionAssumption

-----------------------------------------------------------------------------
\* Types.

LEMMA NewBucketFacts ==
  ASSUME NEW t \in Nat
  PROVE  NewBucket(OrderCap, OrderRate, t) \in Bucket
BY ConstantFacts DEF NewBucket, Bucket

LEMMA InitTypeOK == Init => TypeOK
<1> SUFFICES ASSUME Init PROVE TypeOK
  OBVIOUS
<1>1. WorldOK
  BY ConstantFacts DEF Init, WorldOK
<1>2. TradeOK
  <2>1. reply \in [Leg -> {"none", "pending", "ok", "err"}] /\ fill \in [Leg -> Int]
    BY DEF Init
  <2> QED BY <2>1 DEF Init, TradeOK
<1>3. BooksOK
  <2>1. now = 0 /\ Day(now) \in 0..Day(MaxTime)
    BY ConstantFacts DEF Init
  <2>2. bucket \in [Limited -> Bucket]
    BY <2>1, NewBucketFacts DEF Init
  <2>3. recent \in [Key -> Int]
    BY DEF Init, NoTime
  <2>4. /\ open_trades = 0 /\ daily_pnl = 0 /\ daily_pnl_date = Day(now)
        /\ circuit_open = FALSE /\ trade_log = 0
    BY DEF Init
  <2>5. trade_log \in 0..MAX_LOG /\ open_trades \in Nat /\ daily_pnl \in Int
    BY <2>4, ConstantFacts
  <2> QED BY <2>1, <2>2, <2>3, <2>4, <2>5, Zenon DEF BooksOK
<1>4. HistoryOK
  <2>1. started \in [Key -> Int]
    BY DEF Init, NoTime
  <2>2. booked \in [0..Day(MaxTime) -> Int]
    BY DEF Init
  <2>3. word \in BOOLEAN /\ revived = FALSE /\ late_starts = 0 /\ restarts = {} /\ real_pnl = 0
    BY DEF Init
  <2>4. late_starts \in Nat /\ real_pnl \in Int
    BY <2>3
  <2> QED BY <2>1, <2>2, <2>3, <2>4, Zenon DEF HistoryOK
<1> QED BY <1>1, <1>2, <1>3, <1>4 DEF TypeOK

\* An opportunity is not the value opp has before the first one.
LEMMA OppIsNotEmpty == <<>> \notin Opp
BY DEF Opp

\* An order in flight belongs to an opportunity.
LEMMA OppInHand ==
  ASSUME TypeOK, phase # "idle"
  PROVE  /\ opp \in Opp
         /\ opp.gain \in Nat
         /\ KeyOf(opp) \in Key
         /\ \A l \in Leg : ExchangeOf(l) \in Exchange
BY OppFacts DEF TypeOK, TradeOK, ExchangeOf

\* What an exchange may have filled is a natural number.
LEMMA AnswerFacts ==
  ASSUME TypeOK, phase # "idle", NEW l \in Leg, NEW side \in Side,
         NEW a \in Answer(ExchangeOf(l), side)
  PROVE  /\ a.ok \in BOOLEAN /\ a.qty \in Nat
         /\ Signed(side, a.qty) \in Int
         /\ Truthful(a, ExchangeOf(l), side) \in BOOLEAN
<1>1. Qty[ExchangeOf(l)][side] \in Nat
  BY ConstantFacts, OppInHand
<1> QED BY <1>1 DEF Answer, Signed, Truthful

LEMMA SideFacts ==
  ASSUME NEW l \in Leg
  PROVE  SideOf[l] \in Side /\ Opposite(SideOf[l]) \in Side /\ Other(l) \in Leg
BY DEF Leg, SideOf, Side, Opposite, Other

LEMMA LateFillFacts ==
  ASSUME TypeOK, NEW l \in Leg
  PROVE  LateFill(l) \subseteq Int
<1>1. fill[l] \in Int
  BY DEF TypeOK, TradeOK
<1>2. CASE phase = "legs" /\ reply[l] = "pending"
  <2>1. Qty[ExchangeOf(l)][SideOf[l]] \in Nat
    BY <1>2, ConstantFacts, OppInHand, SideFacts
  <2> QED BY <1>2, <2>1 DEF LateFill, Signed
<1>3. CASE phase = "rollback" /\ reply[l] = "ok"
  <2>1. Qty[ExchangeOf(l)][Opposite(SideOf[l])] \in Nat
    BY <1>3, ConstantFacts, OppInHand, SideFacts
  <2> QED BY <1>1, <1>3, <2>1 DEF LateFill, Signed
<1> QED BY <1>1, <1>2, <1>3 DEF LateFill

LEMMA ResetDayTypeOK ==
  ASSUME TypeOK, ResetDay
  PROVE  /\ daily_pnl' \in Int /\ daily_pnl_date' \in 0..Day(MaxTime)
         /\ circuit_open' \in BOOLEAN /\ real_pnl' \in Int
BY ConstantFacts DEF TypeOK, WorldOK, BooksOK, HistoryOK, ResetDay

LEMMA RememberTypeOK ==
  ASSUME TypeOK, Remember
  PROVE  recent' \in [Key -> Int]
BY ConstantFacts DEF TypeOK, WorldOK, BooksOK, Remember, NoTime

LEMMA TakeTokenTypeOK ==
  ASSUME TypeOK, NEW es, TakeToken(es)
  PROVE  bucket' \in [Limited -> Bucket]
BY ConstantFacts, BucketFacts DEF TypeOK, WorldOK, BooksOK, TakeToken

LEMMA NextTypeOK == TypeOK /\ [Next]_vars => TypeOK'
<1> SUFFICES ASSUME TypeOK, [Next]_vars PROVE TypeOK'
  OBVIOUS
<1>0. WorldOK /\ TradeOK /\ BooksOK /\ HistoryOK
  BY DEF TypeOK
<1>1. CASE Tick
  <2>1. WorldOK'
    BY <1>0, <1>1, ConstantFacts DEF Tick, WorldOK
  <2>2. TradeOK'
    BY <1>0, <1>1 DEF Tick, TradeOK, control, outcome
  <2>3. BooksOK'
    BY <1>0, <1>1 DEF Tick, BooksOK, books
  <2>4. HistoryOK'
    BY <1>0, <1>1 DEF Tick, HistoryOK, history, intent
  <2> QED BY <2>1, <2>2, <2>3, <2>4 DEF TypeOK
<1>2. CASE Offer
  <2>1. WorldOK'
    BY <1>0, <1>2 DEF Offer, WorldOK
  <2>2. TradeOK'
    BY <1>0, <1>2 DEF Offer, TradeOK, control, outcome
  <2>3. BooksOK'
    BY <1>0, <1>2 DEF Offer, BooksOK, books
  <2>4. HistoryOK'
    BY <1>0, <1>2 DEF Offer, HistoryOK, history, intent
  <2> QED BY <2>1, <2>2, <2>3, <2>4 DEF TypeOK
<1>3. CASE SetLive
  <2>1. WorldOK'
    BY <1>0, <1>3 DEF SetLive, WorldOK
  <2>2. TradeOK'
    BY <1>0, <1>3 DEF SetLive, TradeOK, control, outcome
  <2>3. BooksOK'
    BY <1>0, <1>3 DEF SetLive, BooksOK, books
  <2>4. HistoryOK'
    BY <1>0, <1>3 DEF SetLive, HistoryOK
  <2> QED BY <2>1, <2>2, <2>3, <2>4 DEF TypeOK
<1>4. CASE Crash
  <2>1. WorldOK'
    BY <1>0, <1>4 DEF Crash, WorldOK
  <2>2. TradeOK'
    <3>1. PICK p \in LateFill("long"), q \in LateFill("short") :
             fill' = [l \in Leg |-> IF l = "long" THEN p ELSE q]
      BY <1>4 DEF Crash
    <3>2. p \in Int /\ q \in Int
      BY LateFillFacts DEF Leg
    <3>3. fill' \in [Leg -> Int]
      BY <3>1, <3>2
    <3>4. reply' \in [Leg -> {"none", "pending", "ok", "err"}]
      BY <1>0, <1>4 DEF Crash, TradeOK
    <3>5. cut' \in BOOLEAN
      BY <1>0, <1>4 DEF Crash, TradeOK
    <3> QED BY <1>0, <1>4, <3>3, <3>4, <3>5 DEF Crash, TradeOK
  <2>3. BooksOK'
    <3>1. now \in Nat /\ Day(now) \in 0..Day(MaxTime)
      BY <1>0, ConstantFacts DEF WorldOK
    <3>2. bucket' \in [Limited -> Bucket]
      BY <1>4, <3>1, NewBucketFacts DEF Crash
    <3>3. recent' \in [Key -> Int]
      BY <1>4 DEF Crash, NoTime
    <3>4. /\ open_trades' = 0 /\ daily_pnl' = 0 /\ daily_pnl_date' = Day(now)
          /\ circuit_open' = FALSE /\ trade_log' = 0
      BY <1>4 DEF Crash
    <3>5. trade_log' \in 0..MAX_LOG /\ open_trades' \in Nat /\ daily_pnl' \in Int
      BY <3>4, ConstantFacts
    <3> QED BY <3>1, <3>2, <3>3, <3>4, <3>5, Zenon DEF BooksOK
  <2>4. HistoryOK'
    <3>1. Day(now) \in 0..Day(MaxTime)
      BY <1>0, ConstantFacts DEF WorldOK
    <3>5. restarts' = restarts \cup {Day(now)} /\ restarts \subseteq 0..Day(MaxTime)
          /\ real_pnl' \in {0, real_pnl} /\ real_pnl \in Int
      BY <1>0, <1>4 DEF Crash, HistoryOK
    <3>6. restarts' \subseteq 0..Day(MaxTime)
      BY <3>1, <3>5, Zenon
    <3>2. restarts' \subseteq 0..Day(MaxTime) /\ real_pnl' \in Int
      BY <3>5, <3>6
    <3>4. started' \in [Key -> Int]
      BY <1>4 DEF Crash, NoTime
    <3>3. word' \in BOOLEAN /\ revived' \in BOOLEAN /\ late_starts' \in Nat
      BY <1>0, <1>4 DEF Crash, HistoryOK, WorldOK
    <3> QED BY <1>0, <1>4, <3>2, <3>3, <3>4 DEF Crash, HistoryOK
  <2> QED BY <2>1, <2>2, <2>3, <2>4 DEF TypeOK
<1>5. CASE Dequeue
  <2>1. WorldOK'
    BY <1>0, <1>5 DEF Dequeue, WorldOK
  <2>2. TradeOK'
    <3>1. reply' \in [Leg -> {"none", "pending", "ok", "err"}] /\ fill' \in [Leg -> Int]
      BY <1>5 DEF Dequeue
    <3>2. Head(queue) \in Opp
      BY <1>0, <1>5 DEF Dequeue, WorldOK
    <3> QED BY <1>0, <1>5, <3>1, <3>2, OppIsNotEmpty DEF Dequeue, WorldOK, TradeOK, ReadFlag
  <2>3. BooksOK'
    BY <1>0, <1>5 DEF Dequeue, BooksOK, books
  <2>4. HistoryOK'
    BY <1>0, <1>5 DEF Dequeue, HistoryOK, history, intent
  <2> QED BY <2>1, <2>2, <2>3, <2>4 DEF TypeOK
<1>6. CASE Skip
  <2>1. WorldOK'
    BY <1>0, <1>6 DEF Skip, WorldOK
  <2>2. TradeOK'
    BY <1>0, <1>6 DEF Skip, TradeOK, outcome
  <2>3. BooksOK'
    BY <1>0, <1>6, ResetDayTypeOK DEF Skip, BooksOK
  <2>4. HistoryOK'
    BY <1>0, <1>6, ResetDayTypeOK DEF Skip, HistoryOK, intent
  <2> QED BY <2>1, <2>2, <2>3, <2>4 DEF TypeOK
<1>7. CASE Abort
  <2>1. WorldOK'
    BY <1>0, <1>7 DEF Abort, WorldOK
  <2>2. TradeOK'
    BY <1>0, <1>7 DEF Abort, TradeOK, outcome
  <2>3. BooksOK'
    BY <1>0, <1>7, ResetDayTypeOK, RememberTypeOK, TakeTokenTypeOK DEF Abort, BooksOK
  <2>4. HistoryOK'
    BY <1>0, <1>7, ResetDayTypeOK, RememberTypeOK, TakeTokenTypeOK DEF Abort, HistoryOK, intent
  <2> QED BY <2>1, <2>2, <2>3, <2>4 DEF TypeOK
<1>8. CASE StartLive
  <2>1. WorldOK'
    BY <1>0, <1>8 DEF StartLive, WorldOK
  <2>2. TradeOK'
    BY <1>0, <1>8 DEF StartLive, TradeOK, Admit, outcome
  <2>3. BooksOK'
    BY <1>0, <1>8, ResetDayTypeOK, RememberTypeOK, TakeTokenTypeOK DEF StartLive, BooksOK, Admit
  <2>4. HistoryOK'
    <3> DEFINE k == KeyOf(opp)
    <3>1. started' = [started EXCEPT ![k] = now] /\ started \in [Key -> Int] /\ now \in Int
      BY <1>0, <1>8, ConstantFacts DEF StartLive, Admit, WorldOK, HistoryOK
    <3> HIDE DEF k
    <3>3. started' \in [Key -> Int]
      BY <3>1
    <3>2. real_pnl' \in Int
      BY <1>8, ResetDayTypeOK DEF StartLive, Admit
    <3> QED BY <1>0, <1>8, <3>3, <3>2 DEF StartLive, HistoryOK
  <2> QED BY <2>1, <2>2, <2>3, <2>4 DEF TypeOK
<1>9. CASE StartSimulated
  <2>1. WorldOK'
    BY <1>0, <1>9 DEF StartSimulated, WorldOK
  <2>2. TradeOK'
    BY <1>0, <1>9 DEF StartSimulated, TradeOK, Admit, outcome
  <2>3. BooksOK'
    BY <1>0, <1>9, ResetDayTypeOK, RememberTypeOK, TakeTokenTypeOK DEF StartSimulated, BooksOK, Admit
  <2>4. HistoryOK'
    <3> DEFINE k == KeyOf(opp)
    <3>1. started' = [started EXCEPT ![k] = now] /\ started \in [Key -> Int] /\ now \in Int
      BY <1>0, <1>9, ConstantFacts DEF StartSimulated, Admit, WorldOK, HistoryOK
    <3> HIDE DEF k
    <3>3. started' \in [Key -> Int]
      BY <3>1
    <3>2. real_pnl' \in Int
      BY <1>9, ResetDayTypeOK DEF StartSimulated, Admit
    <3> QED BY <1>0, <1>9, <3>3, <3>2 DEF StartSimulated, HistoryOK, intent
  <2> QED BY <2>1, <2>2, <2>3, <2>4 DEF TypeOK
<1>10. CASE SettleBoth
  <2>1. WorldOK'
    BY <1>0, <1>10 DEF SettleBoth, WorldOK
  <2>2. TradeOK'
    BY <1>0, <1>10 DEF SettleBoth, TradeOK, outcome
  <2>3. BooksOK'
    BY <1>0, <1>10, ConstantFacts, OppInHand DEF SettleBoth, BooksOK, Joined, Landed, PushRecord, PnlWith
  <2>4. HistoryOK'
    <3>1. opp.gain \in Int
      BY <1>10, OppInHand DEF SettleBoth, Joined
    <3>2. booked' \in [0..Day(MaxTime) -> Int]
      <4> DEFINE d == Day(started[KeyOf(opp)])
                 g == opp.gain
                 days == 0..Day(MaxTime)
      <4>1. /\ booked' = [booked EXCEPT ![d] = booked[d] + g]
            /\ booked \in [days -> Int] /\ g \in Int
        BY <1>0, <1>10, <3>1 DEF SettleBoth, HistoryOK, intent
      <4> HIDE DEF d, g, days
      <4>2. ASSUME NEW x \in days PROVE booked'[x] \in Int
        <5>1. booked[x] \in Int /\ booked[x] + g \in Int
          BY <4>1
        <5>2. booked'[x] = IF x = d THEN booked[x] + g ELSE booked[x]
          BY <4>1
        <5> QED BY <5>1, <5>2
      <4>3. booked' \in [days -> Int]
        BY <4>1, <4>2, Zenon
      <4> QED BY <4>3 DEF days
    <3> QED BY <1>0, <1>10, <3>1, <3>2 DEF SettleBoth, HistoryOK, intent
  <2> QED BY <2>1, <2>2, <2>3, <2>4 DEF TypeOK
<1>11. CASE SettleNone
  <2>1. WorldOK'
    BY <1>0, <1>11 DEF SettleNone, WorldOK
  <2>2. TradeOK'
    BY <1>0, <1>11 DEF SettleNone, TradeOK, outcome
  <2>3. BooksOK'
    BY <1>0, <1>11, ConstantFacts DEF SettleNone, BooksOK, Landed, PushRecord, books
  <2>4. HistoryOK'
    BY <1>0, <1>11 DEF SettleNone, HistoryOK, history, intent
  <2> QED BY <2>1, <2>2, <2>3, <2>4 DEF TypeOK
<1>12. CASE FinishSimulated
  <2>1. WorldOK'
    BY <1>0, <1>12 DEF FinishSimulated, WorldOK
  <2>2. TradeOK'
    BY <1>0, <1>12 DEF FinishSimulated, TradeOK, outcome
  <2>3. BooksOK'
    BY <1>0, <1>12, ConstantFacts DEF FinishSimulated, BooksOK, PushRecord, books
  <2>4. HistoryOK'
    BY <1>0, <1>12 DEF FinishSimulated, HistoryOK, history, intent
  <2> QED BY <2>1, <2>2, <2>3, <2>4 DEF TypeOK
<1>13. ASSUME NEW l \in Leg, StartRollback(l) PROVE TypeOK'
  <2>1. WorldOK'
    BY <1>0, <1>13 DEF StartRollback, WorldOK
  <2>2. TradeOK'
    BY <1>0, <1>13, OppInHand DEF StartRollback, TradeOK, Joined, outcome
  <2>3. BooksOK'
    BY <1>0, <1>13 DEF StartRollback, BooksOK, Landed, books
  <2>4. HistoryOK'
    BY <1>0, <1>13 DEF StartRollback, HistoryOK, history, intent
  <2> QED BY <2>1, <2>2, <2>3, <2>4 DEF TypeOK
<1>14. ASSUME NEW l \in Leg, ReplyLeg(l) PROVE TypeOK'
  <2>1. WorldOK'
    BY <1>0, <1>14 DEF ReplyLeg, WorldOK
  <2>2. TradeOK'
    <3>1. PICK a \in Answer(ExchangeOf(l), SideOf[l]) :
            /\ reply' = [reply EXCEPT ![l] = IF a.ok THEN "ok" ELSE "err"]
            /\ fill' = [fill EXCEPT ![l] = @ + Signed(SideOf[l], a.qty)]
            /\ honest' = (honest /\ Truthful(a, ExchangeOf(l), SideOf[l]))
      BY <1>14 DEF ReplyLeg
    <3>2. Signed(SideOf[l], a.qty) \in Int
      BY <1>14, AnswerFacts, SideFacts DEF ReplyLeg
    <3>3. fill' \in [Leg -> Int]
      BY <1>0, <3>1, <3>2 DEF TradeOK
    <3>4. reply' \in [Leg -> {"none", "pending", "ok", "err"}] /\ honest' \in BOOLEAN
      BY <1>0, <3>1 DEF TradeOK
    <3> QED BY <1>0, <1>14, <3>3, <3>4 DEF ReplyLeg, TradeOK
  <2>3. BooksOK'
    BY <1>0, <1>14 DEF ReplyLeg, BooksOK, books
  <2>4. HistoryOK'
    BY <1>0, <1>14 DEF ReplyLeg, HistoryOK, history, intent
  <2> QED BY <2>1, <2>2, <2>3, <2>4 DEF TypeOK
<1>15. ASSUME NEW l \in Leg, FinishRollback(l) PROVE TypeOK'
  <2>1. WorldOK'
    BY <1>0, <1>15 DEF FinishRollback, WorldOK
  <2>2. TradeOK'
    <3> DEFINE e == ExchangeOf(l)
               side == Opposite(SideOf[l])
    <3>1. PICK a \in Answer(e, side) :
            /\ fill' = [fill EXCEPT ![l] = @ + Signed(side, a.qty)]
            /\ honest' = (honest /\ Truthful(a, e, side))
            /\ alarm' = ~a.ok
            /\ reversed' = {e}
      BY <1>15 DEF FinishRollback
    <3>2. Signed(side, a.qty) \in Int /\ e \in Exchange
      BY <1>15, AnswerFacts, SideFacts, OppInHand DEF FinishRollback
    <3> HIDE DEF e, side
    <3>3. fill' \in [Leg -> Int]
      BY <1>0, <3>1, <3>2 DEF TradeOK
    <3>4. honest' \in BOOLEAN /\ alarm' \in BOOLEAN /\ reversed' \in SUBSET Exchange
      BY <3>1, <3>2
    <3> QED BY <1>0, <1>15, <3>3, <3>4 DEF FinishRollback, TradeOK
  <2>3. BooksOK'
    BY <1>0, <1>15, ConstantFacts DEF FinishRollback, BooksOK, PushRecord, books
  <2>4. HistoryOK'
    BY <1>0, <1>15, ConstantFacts DEF FinishRollback, HistoryOK, intent
  <2> QED BY <2>1, <2>2, <2>3, <2>4 DEF TypeOK
<1>16. CASE UNCHANGED vars
  BY <1>0, <1>16 DEF vars, TypeOK, WorldOK, TradeOK, BooksOK, HistoryOK
<1> QED
  BY <1>1, <1>2, <1>3, <1>4, <1>5, <1>6, <1>7, <1>8, <1>9, <1>10, <1>11, <1>12, <1>13, <1>14, <1>15, <1>16 DEF Next

\* Every variable holds a value of its type.
THEOREM TypeCorrect == Spec => []TypeOK
BY InitTypeOK, NextTypeOK, PTL DEF Spec

-----------------------------------------------------------------------------
(***************************************************************************)
(* Late starts.  The flag in memory is on only if the operator's word is or  *)
(* a restart has revived it, so once a late start has taken the opportunity  *)
(* that was in hand, every later one is read with the flag off.              *)
(***************************************************************************)

LateInv ==
  /\ live => (word \/ revived)
  /\ (phase = "admit" /\ opp_live /\ ~word /\ ~revived) => late_starts = 0
  /\ AtMostOneLateStart

LEMMA NextLateInv == TypeOK /\ LateInv /\ [Next]_vars => LateInv'
<1> SUFFICES ASSUME TypeOK, LateInv, [Next]_vars PROVE LateInv'
  OBVIOUS
<1>0. late_starts \in Nat
  BY DEF TypeOK, HistoryOK
<1>1. CASE Tick
  BY <1>0, <1>1 DEF Tick, control, books, outcome, history, intent, LateInv, AtMostOneLateStart
<1>2. CASE Offer
  BY <1>0, <1>2 DEF Offer, control, books, outcome, history, intent, LateInv, AtMostOneLateStart
<1>3. CASE SetLive
  BY <1>0, <1>3 DEF SetLive, control, books, outcome, LateInv, AtMostOneLateStart
<1>4. CASE Crash
  BY <1>0, <1>4 DEF Crash, LateInv, AtMostOneLateStart
<1>5. CASE Dequeue
  BY <1>0, <1>5 DEF Dequeue, ReadFlag, books, history, intent, LateInv, AtMostOneLateStart
<1>6. CASE Skip
  BY <1>0, <1>6 DEF Skip, outcome, intent, LateInv, AtMostOneLateStart
<1>7. CASE Abort
  BY <1>0, <1>7 DEF Abort, outcome, intent, LateInv, AtMostOneLateStart
<1>8. CASE StartLive
  BY <1>0, <1>8 DEF StartLive, Admit, outcome, intent, LateInv, AtMostOneLateStart
<1>9. CASE StartSimulated
  BY <1>0, <1>9 DEF StartSimulated, Admit, outcome, intent, LateInv, AtMostOneLateStart
<1>10. CASE SettleBoth
  BY <1>0, <1>10 DEF SettleBoth, outcome, intent, LateInv, AtMostOneLateStart
<1>11. CASE SettleNone
  BY <1>0, <1>11 DEF SettleNone, books, outcome, history, intent, LateInv, AtMostOneLateStart
<1>12. CASE FinishSimulated
  BY <1>0, <1>12 DEF FinishSimulated, books, outcome, history, intent, LateInv, AtMostOneLateStart
<1>13. ASSUME NEW l \in Leg, StartRollback(l) PROVE LateInv'
  BY <1>0, <1>13 DEF StartRollback, books, outcome, history, intent, LateInv, AtMostOneLateStart
<1>14. ASSUME NEW l \in Leg, ReplyLeg(l) PROVE LateInv'
  BY <1>0, <1>14 DEF ReplyLeg, books, history, intent, LateInv, AtMostOneLateStart
<1>15. ASSUME NEW l \in Leg, FinishRollback(l) PROVE LateInv'
  BY <1>0, <1>15 DEF FinishRollback, books, intent, LateInv, AtMostOneLateStart
<1>16. CASE UNCHANGED vars
  BY <1>0, <1>16 DEF vars, LateInv, AtMostOneLateStart
<1> QED
  BY <1>1, <1>2, <1>3, <1>4, <1>5, <1>6, <1>7, <1>8,
     <1>9, <1>10, <1>11, <1>12, <1>13, <1>14, <1>15, <1>16 DEF Next

\* After the operator has switched live trading off at most one live trade
\* starts, unless a failed save and a restart bring the old setting back.
THEOREM LateStarts == Spec => []AtMostOneLateStart
<1>1. Init => LateInv
  BY DEF Init, LateInv, AtMostOneLateStart
<1>2. LateInv => AtMostOneLateStart
  BY DEF LateInv
<1> QED BY <1>1, <1>2, NextLateInv, TypeCorrect, PTL DEF Spec

-----------------------------------------------------------------------------
(***************************************************************************)
(* The cooldown.  While a key is in its cooldown recent_executions still    *)
(* holds an entry for it that is at least as late as its last trade: an     *)
(* eviction only drops entries that are older than a cooldown.              *)
(***************************************************************************)

Time == {NoTime} \cup 0..now

InCooldown(k) == started[k] # NoTime /\ now - started[k] < EXEC_DEDUP_MS

DedupInv ==
  /\ recent \in [Key -> Time] /\ started \in [Key -> Time]
  /\ \A k \in Key : InCooldown(k) => recent[k] >= started[k]

\* Remembering a key at the present instant keeps every cooldown alive.
LEMMA RememberFacts ==
  ASSUME TypeOK, DedupInv, Remember, now' = now
  PROVE  /\ recent' \in [Key -> Time']
         /\ \A j \in Key : InCooldown(j) => recent'[j] >= started[j]
         /\ started' = started => DedupInv'
<1> DEFINE old == EXEC_DEDUP_MS * EVICT_FACTOR
<1>1. now \in Nat /\ EXEC_DEDUP_MS \in Nat /\ old \in Nat /\ old >= EXEC_DEDUP_MS
  <2>1. EXEC_DEDUP_MS \in Nat /\ EVICT_FACTOR \in Nat \ {0}
    BY ExecutionAssumption DEF ExecutionAssumption
  <2>2. now \in Nat
    BY ConstantFacts DEF TypeOK, WorldOK
  <2> QED BY <2>1, <2>2, Products
<1>2. recent' = [k \in Key |-> IF k = KeyOf(opp) THEN now
                               ELSE IF now - recent[k] < old THEN recent[k] ELSE NoTime]
  BY DEF Remember
<1> HIDE DEF old
<1>3. recent' \in [Key -> Time']
  BY <1>1, <1>2 DEF DedupInv, Time, NoTime
<1>4. ASSUME NEW j \in Key, InCooldown(j) PROVE recent'[j] >= started[j]
  <2>1. started[j] \in 0..now /\ recent[j] >= started[j] /\ recent[j] \in Int
    BY <1>1, <1>4 DEF DedupInv, InCooldown, Time, NoTime
  <2> QED BY <1>1, <1>2, <1>4, <2>1 DEF InCooldown
<1> QED BY <1>3, <1>4 DEF DedupInv, InCooldown, Time

LEMMA NextDedupInv == TypeOK /\ DedupInv /\ [Next]_vars => DedupInv'
<1> SUFFICES ASSUME TypeOK, DedupInv, [Next]_vars PROVE DedupInv'
  OBVIOUS
<1>0. now \in Nat /\ EXEC_DEDUP_MS \in Nat
  BY ConstantFacts, ExecutionAssumption DEF TypeOK, WorldOK, ExecutionAssumption
<1>1. CASE Tick
  <2>1. now' \in Nat /\ now <= now' /\ recent' = recent /\ started' = started
    BY <1>0, <1>1, ConstantFacts DEF Tick, history
  <2>2. Time \subseteq Time'
    BY <1>0, <2>1 DEF Time, NoTime
  <2>3. \A k \in Key : InCooldown(k)' => InCooldown(k)
    BY <1>0, <2>1 DEF DedupInv, InCooldown, Time, NoTime
  <2> QED BY <2>1, <2>2, <2>3 DEF DedupInv
<1>2. CASE Offer
  BY <1>0, <1>2 DEF Offer, history, DedupInv, Time, InCooldown
<1>3. CASE SetLive
  BY <1>0, <1>3 DEF SetLive, DedupInv, Time, InCooldown
<1>4. CASE Crash
  BY <1>0, <1>4 DEF Crash, DedupInv, Time, NoTime
<1>5. CASE Dequeue
  BY <1>0, <1>5 DEF Dequeue, history, DedupInv, Time, InCooldown
<1>6. CASE Skip
  BY <1>0, <1>6 DEF Skip, DedupInv, Time, InCooldown
<1>7. CASE Abort
  <2>1. Remember /\ UNCHANGED <<now, started>>
    BY <1>7 DEF Abort
  <2> QED BY <1>0, <2>1, RememberFacts
<1>8. CASE StartLive
  <2> DEFINE k == KeyOf(opp)
  <2>1. Remember /\ now' = now /\ started' = [started EXCEPT ![k] = now]
    BY <1>8 DEF StartLive, Admit
  <2>2. k \in Key /\ recent'[k] = now
    BY <1>0, <2>1, <1>8, OppInHand DEF StartLive, Admit, Remember
  <2> HIDE DEF k
  <2>3. /\ recent' \in [Key -> Time']
        /\ \A j \in Key : InCooldown(j) => recent'[j] >= started[j]
    BY <2>1, RememberFacts
  <2>4. started \in [Key -> Int]
    BY DEF TypeOK, HistoryOK
  <2>5. started' \in [Key -> Time']
    BY <1>0, <2>1, <2>2, <2>4 DEF DedupInv, Time
  <2> QED BY <1>0, <2>1, <2>2, <2>3, <2>5 DEF DedupInv, InCooldown, Time, NoTime
<1>9. CASE StartSimulated
  <2> DEFINE k == KeyOf(opp)
  <2>1. Remember /\ now' = now /\ started' = [started EXCEPT ![k] = now]
    BY <1>9 DEF StartSimulated, Admit
  <2>2. k \in Key /\ recent'[k] = now
    BY <1>0, <2>1, <1>9, OppInHand DEF StartSimulated, Admit, Remember
  <2> HIDE DEF k
  <2>3. /\ recent' \in [Key -> Time']
        /\ \A j \in Key : InCooldown(j) => recent'[j] >= started[j]
    BY <2>1, RememberFacts
  <2>4. started \in [Key -> Int]
    BY DEF TypeOK, HistoryOK
  <2>5. started' \in [Key -> Time']
    BY <1>0, <2>1, <2>2, <2>4 DEF DedupInv, Time
  <2> QED BY <1>0, <2>1, <2>2, <2>3, <2>5 DEF DedupInv, InCooldown, Time, NoTime
<1>10. CASE SettleBoth
  BY <1>0, <1>10 DEF SettleBoth, DedupInv, Time, InCooldown
<1>11. CASE SettleNone
  BY <1>0, <1>11 DEF SettleNone, history, DedupInv, Time, InCooldown
<1>12. CASE FinishSimulated
  BY <1>0, <1>12 DEF FinishSimulated, history, DedupInv, Time, InCooldown
<1>13. ASSUME NEW l \in Leg, StartRollback(l) PROVE DedupInv'
  BY <1>0, <1>13 DEF StartRollback, history, DedupInv, Time, InCooldown
<1>14. ASSUME NEW l \in Leg, ReplyLeg(l) PROVE DedupInv'
  BY <1>0, <1>14 DEF ReplyLeg, history, DedupInv, Time, InCooldown
<1>15. ASSUME NEW l \in Leg, FinishRollback(l) PROVE DedupInv'
  BY <1>0, <1>15 DEF FinishRollback, DedupInv, Time, InCooldown
<1>16. CASE UNCHANGED vars
  BY <1>0, <1>16 DEF vars, DedupInv, Time, InCooldown
<1> QED
  BY <1>1, <1>2, <1>3, <1>4, <1>5, <1>6, <1>7, <1>8,
     <1>9, <1>10, <1>11, <1>12, <1>13, <1>14, <1>15, <1>16 DEF Next

\* Two trades of a key start at least a cooldown apart.
THEOREM CooldownKept == Spec => DedupSpacing
<1>1. Init => DedupInv
  BY DEF Init, DedupInv, InCooldown, Time, NoTime
<1>2. TypeOK /\ DedupInv /\ [Next]_vars =>
        [\A k \in Key : (phase = "admit" /\ phase' \in {"legs", "simulated"} /\ k = KeyOf(opp)
                          /\ started[k] # NoTime)
                        => now - started[k] >= EXEC_DEDUP_MS]_vars
  <2> SUFFICES ASSUME TypeOK, DedupInv, Next, NEW k \in Key,
                      phase = "admit", phase' \in {"legs", "simulated"}, k = KeyOf(opp),
                      started[k] # NoTime
               PROVE  now - started[k] >= EXEC_DEDUP_MS
    OBVIOUS
  <2>1. StartLive \/ StartSimulated
    BY DEF Next, Tick, Offer, SetLive, Crash, Dequeue, Skip, Abort, SettleBoth, SettleNone,
           FinishSimulated, StartRollback, ReplyLeg, FinishRollback, Joined, control
  <2>2. ~Repeated
    BY <2>1 DEF StartLive, StartSimulated, Admit, Refused
  <2>3. /\ started[k] \in 0..now /\ recent[k] \in Time
        /\ InCooldown(k) => recent[k] >= started[k]
    BY DEF DedupInv, Time
  <2>4. now \in Nat /\ EXEC_DEDUP_MS \in Nat
    BY ConstantFacts, ExecutionAssumption DEF TypeOK, WorldOK, ExecutionAssumption
  <2> QED BY <2>2, <2>3, <2>4 DEF Repeated, InCooldown, Time, NoTime
<1> QED BY <1>1, <1>2, NextDedupInv, TypeCorrect, PTL DEF Spec, DedupSpacing

-----------------------------------------------------------------------------
(***************************************************************************)
(* The daily PnL.  It belongs to the date it carries, days that have not    *)
(* begun have no gains, and the trade in hand started on that date even if  *)
(* midnight has passed since.                                               *)
(***************************************************************************)

DayOfTrade == Day(started[KeyOf(opp)])

PnlInv ==
  /\ ~circuit_open
  /\ daily_pnl >= 0
  /\ PnlOfTheDay
  /\ daily_pnl_date <= Day(now)
  /\ \A d \in 0..Day(MaxTime) : booked[d] >= 0 /\ (d > daily_pnl_date => booked[d] = 0)
  /\ phase = "legs" => DayOfTrade = daily_pnl_date

\* The types the steps need.
LEMMA PnlTypes ==
  ASSUME TypeOK
  PROVE  /\ now \in 0..MaxTime /\ MaxTime \in Nat /\ Day(now) \in 0..Day(MaxTime)
         /\ daily_pnl \in Int /\ daily_pnl_date \in 0..Day(MaxTime) /\ Day(MaxTime) \in Nat
         /\ booked \in [0..Day(MaxTime) -> Int]
BY ConstantFacts DEF TypeOK, WorldOK, BooksOK, HistoryOK

\* A new day starts at zero, with no gains of its own yet.
LEMMA ResetDayFacts ==
  ASSUME TypeOK, PnlInv, ResetDay, now' = now, booked' = booked, restarts' = restarts
  PROVE  /\ ~circuit_open'
         /\ daily_pnl' >= 0
         /\ PnlOfTheDay'
         /\ daily_pnl_date' <= Day(now')
         /\ \A d \in 0..Day(MaxTime) : booked'[d] >= 0 /\ (d > daily_pnl_date' => booked'[d] = 0)
<1>1. daily_pnl_date' = Day(now) /\ Day(now') = Day(now)
  BY DEF ResetDay
<1>2. CASE NewDay
  <2>1. Day(now) > daily_pnl_date
    BY <1>2, PnlTypes DEF NewDay, PnlInv
  <2>2. booked[Day(now)] = 0 /\ daily_pnl' = 0 /\ ~circuit_open'
    BY <1>2, <2>1, PnlTypes DEF PnlInv, PnlOfTheDay, ResetDay
  <2> QED BY <1>1, <2>1, <2>2, PnlTypes DEF PnlInv, PnlOfTheDay
<1>3. CASE ~NewDay
  BY <1>1, <1>3, PnlTypes DEF PnlInv, PnlOfTheDay, ResetDay, NewDay
<1> QED BY <1>2, <1>3

LEMMA NextPnlInv == TypeOK /\ PnlInv /\ [Next]_vars => PnlInv'
<1> SUFFICES ASSUME TypeOK, PnlInv, [Next]_vars PROVE PnlInv'
  OBVIOUS
<1>0. /\ now \in 0..MaxTime /\ MaxTime \in Nat /\ Day(now) \in 0..Day(MaxTime)
      /\ daily_pnl \in Int /\ daily_pnl_date \in 0..Day(MaxTime) /\ Day(MaxTime) \in Nat
      /\ booked \in [0..Day(MaxTime) -> Int]
  BY PnlTypes
<1>1. CASE Tick
  <2>1. now' \in 0..MaxTime /\ now <= now' /\ UNCHANGED <<phase, opp, books, started, booked, restarts>>
    BY <1>0, <1>1, ConstantFacts DEF Tick, control, history
  <2>4. now \in Nat /\ now' \in Nat
    BY <1>0, <2>1
  <2>2. Day(now) <= Day(now') /\ Day(now') \in Int /\ Day(now) \in Int
    BY <2>1, <2>4, DayFacts
  <2>3. PnlOfTheDay' /\ DayOfTrade' = DayOfTrade /\ ~circuit_open'
    BY <2>1 DEF PnlInv, PnlOfTheDay, DayOfTrade, books
  <2> QED BY <1>0, <2>1, <2>2, <2>3 DEF PnlInv, books
<1>2. CASE Offer
  BY <1>0, <1>2 DEF Offer, control, books, history, PnlInv, PnlOfTheDay, DayOfTrade
<1>3. CASE SetLive
  BY <1>0, <1>3 DEF SetLive, control, books, PnlInv, PnlOfTheDay, DayOfTrade
<1>4. CASE Crash
  <2>1. daily_pnl_date' = Day(now) /\ Day(now') = Day(now) /\ Day(now) \in 0..Day(MaxTime)
    BY <1>0, <1>4, ConstantFacts DEF Crash
  <2>2. /\ daily_pnl' = 0 /\ circuit_open' = FALSE /\ phase' = "idle" /\ booked' = booked
        /\ daily_pnl_date' \in restarts'
    BY <2>1, <1>4 DEF Crash
  <2>3. booked[Day(now)] >= 0
    BY <2>1 DEF PnlInv
  <2>4. PnlOfTheDay'
    BY <2>1, <2>2, <2>3 DEF PnlOfTheDay
  <2>5. \A d \in 0..Day(MaxTime) : d > Day(now) => booked[d] = 0
    BY <1>0 DEF PnlInv
  <2> QED BY <1>0, <2>1, <2>2, <2>4, <2>5 DEF PnlInv
<1>5. CASE Dequeue
  BY <1>0, <1>5 DEF Dequeue, books, history, PnlInv, PnlOfTheDay, DayOfTrade
<1>6. CASE Skip
  <2>1. ResetDay /\ phase' = "idle" /\ UNCHANGED <<now, started, booked, restarts>>
    BY <1>6 DEF Skip
  <2> QED BY <1>0, <2>1, ResetDayFacts DEF PnlInv
<1>7. CASE Abort
  <2>1. ResetDay /\ phase' = "idle" /\ UNCHANGED <<now, started, booked, restarts>>
    BY <1>7 DEF Abort
  <2> QED BY <1>0, <2>1, ResetDayFacts DEF PnlInv
<1>8. CASE StartLive
  <2>1. ResetDay /\ phase' = "legs" /\ UNCHANGED <<now, opp, booked, restarts>>
    BY <1>8 DEF StartLive, Admit
  <2>2. started' = [started EXCEPT ![KeyOf(opp)] = now] /\ KeyOf(opp) \in Key
    BY <1>8, OppInHand DEF StartLive, Admit
  <2>3. DayOfTrade' = daily_pnl_date'
    <3>1. started \in [Key -> Int]
      BY DEF TypeOK, HistoryOK
    <3>2. started'[KeyOf(opp)] = now
      BY <2>2, <3>1
    <3> QED BY <2>1, <3>2 DEF DayOfTrade, ResetDay
  <2> QED BY <1>0, <2>1, <2>3, ResetDayFacts DEF PnlInv
<1>9. CASE StartSimulated
  <2>1. ResetDay /\ phase' = "simulated" /\ UNCHANGED <<now, opp, booked, restarts>>
    BY <1>9 DEF StartSimulated, Admit
  <2>2. started' = [started EXCEPT ![KeyOf(opp)] = now] /\ KeyOf(opp) \in Key
    BY <1>9, OppInHand DEF StartSimulated, Admit
  <2>3. DayOfTrade' = daily_pnl_date'
    <3>1. started \in [Key -> Int]
      BY DEF TypeOK, HistoryOK
    <3>2. started'[KeyOf(opp)] = now
      BY <2>2, <3>1
    <3> QED BY <2>1, <3>2 DEF DayOfTrade, ResetDay
  <2> QED BY <1>0, <2>1, <2>3, ResetDayFacts DEF PnlInv
<1>10. CASE SettleBoth
  <2> DEFINE g == opp.gain
             d == daily_pnl_date
  <2>1. g \in Nat
    BY <1>10, OppInHand DEF SettleBoth, Joined
  <2>2. /\ daily_pnl' = daily_pnl + g /\ daily_pnl_date' = d
        /\ booked' = [booked EXCEPT ![d] = booked[d] + g]
        /\ phase' = "idle" /\ now' = now /\ restarts' = restarts
    BY <1>10 DEF SettleBoth, Joined, PnlWith, PnlInv, PnlOfTheDay, DayOfTrade
  <2>3. ~circuit_open'
    <3>1. DAILY_PNL_LIMIT_USDT \in Int /\ DAILY_PNL_LIMIT_USDT <= 0
      BY ExecutionAssumption DEF ExecutionAssumption
    <3>2. ~(daily_pnl' < DAILY_PNL_LIMIT_USDT)
      <4>1. daily_pnl + g >= 0
        BY <1>0, <2>1 DEF PnlInv
      <4>2. daily_pnl + g \in Int
        BY <1>0, <2>1
      <4> HIDE DEF g
      <4> QED BY <2>2, <3>1, <4>1, <4>2
    <3> QED BY <1>10, <3>2 DEF SettleBoth, PnlInv
  <2> HIDE DEF g
  <2>4. booked' \in [0..Day(MaxTime) -> Int]
    BY NextTypeOK DEF TypeOK, HistoryOK
  <2>5. booked'[d] = booked[d] + g /\ \A x \in 0..Day(MaxTime) : x # d => booked'[x] = booked[x]
    BY <1>0, <2>2
  <2>8. daily_pnl <= booked[d] /\ daily_pnl >= 0
        /\ (d \notin restarts => daily_pnl = booked[d])
    BY DEF PnlInv, PnlOfTheDay
  <2>6. daily_pnl' >= 0 /\ PnlOfTheDay'
    <3>1. booked[d] \in Int /\ daily_pnl \in Int
      BY <1>0
    <3>2. /\ booked'[daily_pnl_date'] = booked[d] + g /\ daily_pnl' = daily_pnl + g
          /\ daily_pnl_date' = d /\ restarts' = restarts
      BY <2>2, <2>5
    <3> HIDE DEF d
    <3> QED BY <2>1, <2>8, <3>1, <3>2 DEF PnlOfTheDay
  <2>7. \A x \in 0..Day(MaxTime) : booked'[x] >= 0 /\ (x > d => booked'[x] = 0)
    BY <1>0, <2>1, <2>5 DEF PnlInv
  <2> QED BY <1>0, <2>2, <2>3, <2>6, <2>7 DEF PnlInv
<1>11. CASE SettleNone
  BY <1>0, <1>11 DEF SettleNone, books, history, PnlInv, PnlOfTheDay, DayOfTrade
<1>12. CASE FinishSimulated
  BY <1>0, <1>12 DEF FinishSimulated, books, history, PnlInv, PnlOfTheDay, DayOfTrade
<1>13. ASSUME NEW l \in Leg, StartRollback(l) PROVE PnlInv'
  BY <1>0, <1>13 DEF StartRollback, books, history, PnlInv, PnlOfTheDay, DayOfTrade
<1>14. ASSUME NEW l \in Leg, ReplyLeg(l) PROVE PnlInv'
  BY <1>0, <1>14 DEF ReplyLeg, books, history, PnlInv, PnlOfTheDay, DayOfTrade
<1>15. ASSUME NEW l \in Leg, FinishRollback(l) PROVE PnlInv'
  BY <1>0, <1>15 DEF FinishRollback, books, PnlInv, PnlOfTheDay, DayOfTrade
<1>16. CASE UNCHANGED vars
  BY <1>0, <1>16 DEF vars, PnlInv, PnlOfTheDay, DayOfTrade
<1> QED
  BY <1>1, <1>2, <1>3, <1>4, <1>5, <1>6, <1>7, <1>8,
     <1>9, <1>10, <1>11, <1>12, <1>13, <1>14, <1>15, <1>16 DEF Next

LEMMA PnlInvariance == Spec => []PnlInv
<1>1. Init => PnlInv
  <2>1. Init => now \in Nat /\ Day(now) \in 0..Day(MaxTime)
    BY ConstantFacts DEF Init
  <2> QED BY <2>1 DEF Init, PnlInv, PnlOfTheDay
<1> QED BY <1>1, NextPnlInv, TypeCorrect, PTL DEF Spec

\* No estimated profit is negative, so the daily PnL never falls below its
\* limit and the circuit breaker never opens.
THEOREM BreakerNeverOpens == Spec => []CircuitNeverOpens
<1>1. PnlInv => CircuitNeverOpens
  BY DEF PnlInv, CircuitNeverOpens
<1> QED BY <1>1, PnlInvariance, PTL

\* The daily PnL is what the live trades admitted on its date have gained,
\* less what a restart on that date made the process forget.
THEOREM PnlIsOfTheDay == Spec => []PnlOfTheDay
<1>1. PnlInv => PnlOfTheDay
  BY DEF PnlInv, PnlOfTheDay
<1> QED BY <1>1, PnlInvariance, PTL

-----------------------------------------------------------------------------
(***************************************************************************)
(* The exposure.  While the legs are in flight an answered leg has, if the  *)
(* replies were honest, the quantity its answer says; a rollback starts     *)
(* from one full leg and one empty one, so a reversal of the same size ends *)
(* flat.                                                                    *)
(***************************************************************************)

Untouched == fill = [l \in Leg |-> 0] /\ honest /\ reversed = {} /\ ~alarm /\ ~cut

LegDone(l) ==
  /\ reply[l] \in {"pending", "ok", "err"}
  /\ reply[l] = "pending" => fill[l] = 0
  /\ (honest /\ reply[l] = "ok") => fill[l] = Target(l)
  /\ (honest /\ reply[l] = "err") => fill[l] = 0

Reversing(l) ==
  /\ reply[l] = "ok" /\ reply[Other(l)] = "err"
  /\ honest => (fill[l] = Target(l) /\ fill[Other(l)] = 0)

TradeInv ==
  /\ phase \in {"admit", "simulated"} => Untouched
  /\ phase = "legs" => (reversed = {} /\ \A l \in Leg : LegDone(l))
  /\ phase = "rollback" => \E l \in Leg : Reversing(l)
  /\ ExposureExplained

LEMMA NextTradeInv == TypeOK /\ TradeInv /\ [Next]_vars => TradeInv'
<1> SUFFICES ASSUME TypeOK, TradeInv, [Next]_vars PROVE TradeInv'
  OBVIOUS
<1>0. /\ fill \in [Leg -> Int] /\ reply \in [Leg -> {"none", "pending", "ok", "err"}]
      /\ phase \in {"idle", "admit", "legs", "rollback", "simulated"}
  BY DEF TypeOK, TradeOK
<1>1. CASE Tick
  BY <1>0, <1>1 DEF Tick, control, outcome, TradeInv, ExposureExplained, Flat, Hedged, Untouched, LegDone, Reversing, Target, ExchangeOf
<1>2. CASE Offer
  BY <1>0, <1>2 DEF Offer, control, outcome, TradeInv, ExposureExplained, Flat, Hedged, Untouched, LegDone, Reversing, Target, ExchangeOf
<1>3. CASE SetLive
  BY <1>0, <1>3 DEF SetLive, control, outcome, TradeInv, ExposureExplained, Flat, Hedged, Untouched, LegDone, Reversing, Target, ExchangeOf
<1>4. CASE Crash
  <2>1. phase' = "idle" /\ UNCHANGED <<opp, honest, reversed, alarm>>
        /\ cut' = (cut \/ phase \in {"legs", "rollback"})
    BY <1>4 DEF Crash
  <2>2. CASE phase \in {"legs", "rollback"}
    BY <2>1, <2>2 DEF TradeInv, ExposureExplained
  <2>3. CASE phase \notin {"legs", "rollback"}
    <3>1. fill' = fill
      <4>1. \A l \in Leg : LateFill(l) = {fill[l]}
        BY <2>3 DEF LateFill
      <4> QED BY <1>0, <4>1, <1>4 DEF Crash, Leg
    <3>3. phase \in {"admit", "simulated"} => Flat
      BY DEF TradeInv, Untouched, Flat, Leg
    <3>4. Flat \/ Hedged \/ ~honest \/ alarm \/ cut \/ ~(reversed \subseteq Even)
      BY <1>0, <2>3, <3>3 DEF TradeInv, ExposureExplained
    <3> QED BY <2>1, <2>3, <3>1, <3>4 DEF TradeInv, ExposureExplained, Flat, Hedged, Target, ExchangeOf
  <2> QED BY <2>2, <2>3
<1>5. CASE Dequeue
  BY <1>0, <1>5 DEF Dequeue, TradeInv, ExposureExplained, Untouched
<1>6. CASE Skip
  <2>1. phase' = "idle" /\ UNCHANGED <<outcome, opp>> /\ Untouched
    BY <1>6 DEF Skip, TradeInv
  <2>2. Flat'
    BY <2>1 DEF Untouched, Flat, outcome
  <2> QED BY <2>1, <2>2 DEF TradeInv, ExposureExplained
<1>7. CASE Abort
  <2>1. phase' = "idle" /\ UNCHANGED <<outcome, opp>> /\ Untouched
    BY <1>7 DEF Abort, TradeInv
  <2>2. Flat'
    BY <2>1 DEF Untouched, Flat, outcome
  <2> QED BY <2>1, <2>2 DEF TradeInv, ExposureExplained
<1>8. CASE StartLive
  <2>1. phase' = "legs" /\ UNCHANGED <<outcome, opp>> /\ Untouched
        /\ reply' = [l \in Leg |-> "pending"]
    BY <1>8 DEF StartLive, Admit, TradeInv
  <2>2. \A l \in Leg : LegDone(l)'
    BY <2>1 DEF Untouched, LegDone, outcome
  <2> QED BY <2>1, <2>2 DEF TradeInv, ExposureExplained, Untouched, outcome
<1>9. CASE StartSimulated
  <2>1. phase' = "simulated" /\ UNCHANGED <<outcome, opp>> /\ Untouched
    BY <1>9 DEF StartSimulated, Admit, TradeInv
  <2> QED BY <2>1 DEF TradeInv, ExposureExplained, Untouched, outcome
<1>10. CASE SettleBoth
  <2>1. phase' = "idle" /\ UNCHANGED <<outcome, opp>> /\ \A l \in Leg : reply[l] = "ok"
    BY <1>10 DEF SettleBoth
  <2>2. \A l \in Leg : LegDone(l)
    BY <1>10 DEF SettleBoth, Joined, TradeInv
  <2>3. honest => Hedged'
    BY <2>1, <2>2 DEF LegDone, Hedged, Target, ExchangeOf, outcome
  <2> QED BY <2>1, <2>3 DEF TradeInv, ExposureExplained, outcome
<1>11. CASE SettleNone
  <2>1. phase' = "idle" /\ UNCHANGED <<outcome, opp>> /\ \A l \in Leg : reply[l] = "err"
    BY <1>11 DEF SettleNone
  <2>2. \A l \in Leg : LegDone(l)
    BY <1>11 DEF SettleNone, Joined, TradeInv
  <2>3. honest => Flat'
    BY <2>1, <2>2 DEF LegDone, Flat, Target, ExchangeOf, outcome
  <2> QED BY <2>1, <2>3 DEF TradeInv, ExposureExplained, outcome
<1>12. CASE FinishSimulated
  <2>1. phase' = "idle" /\ UNCHANGED <<outcome, opp>> /\ Untouched
    BY <1>12 DEF FinishSimulated, TradeInv
  <2>2. Flat'
    BY <2>1 DEF Untouched, Flat, outcome
  <2> QED BY <2>1, <2>2 DEF TradeInv, ExposureExplained
<1>13. ASSUME NEW l \in Leg, StartRollback(l) PROVE TradeInv'
  <2>1. /\ phase' = "rollback" /\ UNCHANGED <<outcome, opp, reply>>
        /\ reply[l] = "ok" /\ reply[Other(l)] = "err"
    BY <1>13 DEF StartRollback
  <2>2. reversed = {} /\ LegDone(l) /\ LegDone(Other(l))
    BY <1>13, SideFacts DEF StartRollback, Joined, TradeInv
  <2>3. Reversing(l)'
    BY <2>1, <2>2 DEF LegDone, Reversing, Target, ExchangeOf, Other, outcome
  <2> QED BY <2>1, <2>2, <2>3 DEF TradeInv, ExposureExplained, outcome
<1>14. ASSUME NEW l \in Leg, ReplyLeg(l) PROVE TradeInv'
  <2>1. PICK a \in Answer(ExchangeOf(l), SideOf[l]) :
          /\ reply' = [reply EXCEPT ![l] = IF a.ok THEN "ok" ELSE "err"]
          /\ fill' = [fill EXCEPT ![l] = @ + Signed(SideOf[l], a.qty)]
          /\ honest' = (honest /\ Truthful(a, ExchangeOf(l), SideOf[l]))
    BY <1>14 DEF ReplyLeg
  <2>2. /\ phase = "legs" /\ phase' = "legs" /\ reply[l] = "pending" /\ opp' = opp
        /\ reversed = {} /\ reversed' = {}
        /\ \A m \in Leg : LegDone(m)
    BY <1>14 DEF ReplyLeg, TradeInv
  <2>3. a.ok \in BOOLEAN /\ Signed(SideOf[l], a.qty) \in Int
    BY <2>2, AnswerFacts, SideFacts
  <2>4. LegDone(l)'
    <3>1. fill'[l] = Signed(SideOf[l], a.qty)
      BY <1>0, <2>1, <2>2, <2>3 DEF LegDone
    <3>2. reply'[l] = IF a.ok THEN "ok" ELSE "err"
      BY <1>0, <2>1
    <3>3. honest' => a.qty = IF a.ok THEN Qty[ExchangeOf(l)][SideOf[l]] ELSE 0
      BY <2>1 DEF Truthful
    <3>4. Target(l)' = Signed(SideOf[l], Qty[ExchangeOf(l)][SideOf[l]])
      BY <2>2 DEF Target, ExchangeOf
    <3>5. Signed(SideOf[l], 0) = 0
      BY DEF Signed
    <3> QED BY <2>3, <3>1, <3>2, <3>3, <3>4, <3>5 DEF LegDone
  <2>5. ASSUME NEW m \in Leg, m # l PROVE LegDone(m)'
    BY <1>0, <2>1, <2>2, <2>5 DEF LegDone, Target, ExchangeOf
  <2> QED BY <2>2, <2>4, <2>5 DEF TradeInv, ExposureExplained
<1>15. ASSUME NEW l \in Leg, FinishRollback(l) PROVE TradeInv'
  <2> DEFINE e == ExchangeOf(l)
             side == Opposite(SideOf[l])
  <2>1. PICK a \in Answer(e, side) :
          /\ fill' = [fill EXCEPT ![l] = @ + Signed(side, a.qty)]
          /\ honest' = (honest /\ Truthful(a, e, side))
          /\ alarm' = ~a.ok
          /\ reversed' = {e}
    BY <1>15 DEF FinishRollback
  <2>2. phase = "rollback" /\ phase' = "idle" /\ reply[l] = "ok" /\ Reversing(l)
    <3>1. \A m \in Leg : Reversing(m) /\ reply[l] = "ok" => m = l
      BY DEF Leg, Reversing, Other
    <3> QED BY <3>1, <1>15 DEF FinishRollback, TradeInv
  <2>3. ASSUME honest', ~alarm', reversed' \subseteq Even PROVE Flat'
    <3>1. honest /\ a.qty = Qty[e][side] /\ Qty[e]["BUY"] = Qty[e]["SELL"]
      BY <2>1, <2>3 DEF Truthful, Even
    <3>2. Qty[e]["BUY"] \in Nat /\ Qty[e]["SELL"] \in Nat
      BY <2>2, OppInHand, ConstantFacts DEF Side
    <3>3. Target(l) + Signed(side, a.qty) = 0
      BY <3>1, <3>2 DEF Target, Signed, SideOf, Opposite, Leg
    <3>4. fill'[l] = 0
      BY <1>0, <2>1, <2>2, <3>1, <3>3 DEF Reversing
    <3>5. fill'[Other(l)] = 0
      BY <1>0, <2>1, <2>2, <3>1 DEF Reversing, Other, Leg
    <3> QED BY <3>4, <3>5 DEF Flat, Other, Leg
  <2> QED BY <2>2, <2>3 DEF TradeInv, ExposureExplained
<1>16. CASE UNCHANGED vars
  BY <1>0, <1>16 DEF vars, TradeInv, ExposureExplained, Flat, Hedged, Untouched, LegDone, Reversing, Target, ExchangeOf
<1> QED
  BY <1>1, <1>2, <1>3, <1>4, <1>5, <1>6, <1>7, <1>8,
     <1>9, <1>10, <1>11, <1>12, <1>13, <1>14, <1>15, <1>16 DEF Next

\* A finished trade is hedged or flat, or one of the four things happened
\* that the code cannot or does not repair.
THEOREM Exposure == Spec => []ExposureExplained
<1>1. Init => TradeInv
  BY DEF Init, TradeInv, ExposureExplained, Flat
<1>2. TradeInv => ExposureExplained
  BY DEF TradeInv
<1> QED BY <1>1, <1>2, NextTradeInv, TypeCorrect, PTL DEF Spec

=============================================================================
