-------------------------- MODULE RateLimiterProofs --------------------------
(***************************************************************************)
(* Proofs about RateLimiter for every set of exchanges, every burst, rate   *)
(* and weight, and every bound of the clock.                                *)
(***************************************************************************)
EXTENDS RateLimiter, TLAPS

\* A bucket with the fields' types and no more tokens than its maximum.
GoodBucket(b) ==
  /\ b \in [tokens: Int, max_tokens: Nat, refill_rate: Nat, last_refill: Nat]
  /\ b.tokens \in 0..b.max_tokens

-----------------------------------------------------------------------------
\* Lemmas about the operators of TokenBucket.

LEMMA Distribute ==
  ASSUME NEW r \in Nat, NEW x \in Int
  PROVE  /\ r * (x + 1) = r * x + r
         /\ r * 0 = 0
         /\ x >= 0 => r * x >= 0
         /\ r * x \in Int
         /\ x * r = r * x
BY SMT

\* A refill leaves between nothing and the maximum.
LEMMA AvailableBounds ==
  ASSUME NEW b, GoodBucket(b), NEW now \in Nat, b.last_refill <= now
  PROVE  Available(b, now) \in 0..b.max_tokens
<1>1. b.refill_rate * (now - b.last_refill) \in Nat
  BY Distribute DEF GoodBucket
<1>2. (now - b.last_refill) * b.refill_rate = b.refill_rate * (now - b.last_refill)
  BY Distribute DEF GoodBucket
<1> QED BY <1>1, <1>2 DEF GoodBucket, Available

\* One more tick earns at most one rate, and exactly one below the maximum.
LEMMA AvailableTick ==
  ASSUME NEW b, GoodBucket(b), NEW now \in Nat, b.last_refill <= now
  PROVE  /\ Available(b, now + 1) <= Available(b, now) + b.refill_rate
         /\ \/ Available(b, now + 1) = Available(b, now) + b.refill_rate
            \/ Available(b, now + 1) = b.max_tokens
<1> DEFINE d == now - b.last_refill
<1>1. d \in Nat /\ (now + 1) - b.last_refill = d + 1
  BY DEF GoodBucket
<1>2. (d + 1) * b.refill_rate = d * b.refill_rate + b.refill_rate /\ d * b.refill_rate \in Int
  <2>1. /\ b.refill_rate * (d + 1) = b.refill_rate * d + b.refill_rate
        /\ b.refill_rate * d \in Int
        /\ d * b.refill_rate = b.refill_rate * d
    BY <1>1, Distribute DEF GoodBucket
  <2>2. (d + 1) * b.refill_rate = b.refill_rate * (d + 1)
    BY <1>1, Distribute DEF GoodBucket
  <2> QED BY <2>1, <2>2
<1> HIDE DEF d
<1>3. /\ Available(b, now) = IF b.tokens + d * b.refill_rate <= b.max_tokens
                            THEN b.tokens + d * b.refill_rate ELSE b.max_tokens
      /\ Available(b, now + 1) = IF b.tokens + (d + 1) * b.refill_rate <= b.max_tokens
                            THEN b.tokens + (d + 1) * b.refill_rate ELSE b.max_tokens
  BY <1>1 DEF Available, d
<1> QED BY <1>1, <1>2, <1>3 DEF GoodBucket

\* acquire keeps a bucket good and takes the weight it granted, nothing else.
LEMMA AcquireEffect ==
  ASSUME NEW b, GoodBucket(b), NEW now \in Nat, b.last_refill <= now, NEW w \in Nat
  PROVE  LET a == AfterAcquire(b, w, now)
         IN  /\ GoodBucket(a)
             /\ a.last_refill = now
             /\ a.max_tokens = b.max_tokens
             /\ a.refill_rate = b.refill_rate
             /\ Available(a, now) =
                  IF CanAcquire(b, w, now) THEN Available(b, now) - w ELSE Available(b, now)
<1> DEFINE a == AfterAcquire(b, w, now)
           left == IF CanAcquire(b, w, now) THEN Available(b, now) - w ELSE Available(b, now)
<1>1. Available(b, now) \in 0..b.max_tokens
  BY AvailableBounds
<1>2. left \in 0..b.max_tokens
  BY <1>1 DEF CanAcquire, GoodBucket
<1>3. a = [tokens |-> left, max_tokens |-> b.max_tokens,
           refill_rate |-> b.refill_rate, last_refill |-> now]
  BY <1>1 DEF AfterAcquire, Refill, GoodBucket, CanAcquire
<1>4. GoodBucket(a)
  BY <1>2, <1>3 DEF GoodBucket
<1>5. (now - now) * b.refill_rate = 0
  BY Distribute DEF GoodBucket
<1>6. Available(a, now) = left
  <2> HIDE DEF left
  <2>1. Available(a, now) = IF left + (now - now) * b.refill_rate <= b.max_tokens
                            THEN left + (now - now) * b.refill_rate ELSE b.max_tokens
    BY <1>3 DEF Available
  <2> QED BY <2>1, <1>2, <1>5 DEF GoodBucket
<1> QED BY <1>3, <1>4, <1>6

-----------------------------------------------------------------------------
\* Type correctness.

LEMMA InitTypeOK == Init => TypeOK
BY RateLimiterAssumption DEF Init, TypeOK, NewBucket, BucketType, NoAnswer

LEMMA NextTypeOK == TypeOK /\ [Next]_vars => TypeOK'
<1> SUFFICES ASSUME TypeOK, [Next]_vars PROVE TypeOK'
  OBVIOUS
<1> USE RateLimiterAssumption
<1>1. ASSUME NEW b \in Budget
      PROVE  /\ GoodBucket(bucket[b]) /\ clock \in Nat
             /\ bucket[b].last_refill <= clock /\ Weight[b] \in Nat
             /\ bucket[b].max_tokens = Cap[b] /\ bucket[b].refill_rate = Rate[b]
  BY DEF TypeOK, BucketType, GoodBucket
<1>2. ASSUME NEW b \in Budget
      PROVE  LET a == AfterAcquire(bucket[b], Weight[b], clock)
             IN  /\ a \in [tokens: Int, max_tokens: Nat, refill_rate: Nat, last_refill: Nat]
                 /\ a \in BucketType(Cap[b], Rate[b])
                 /\ a.last_refill <= clock
  <2>1. LET a == AfterAcquire(bucket[b], Weight[b], clock)
        IN  /\ GoodBucket(a) /\ a.last_refill = clock
            /\ a.max_tokens = Cap[b] /\ a.refill_rate = Rate[b]
    BY <1>1, AcquireEffect
  <2> QED BY <2>1, <1>1 DEF GoodBucket, BucketType
<1>3. ASSUME NEW b \in Budget, Grant(b) PROVE TypeOK'
  <2> DEFINE a == AfterAcquire(bucket[b], Weight[b], clock)
  <2>1. bucket' = [bucket EXCEPT ![b] = a] /\ UNCHANGED <<clock, before>>
    BY <1>3 DEF Grant
  <2>2. /\ a \in [tokens: Int, max_tokens: Nat, refill_rate: Nat, last_refill: Nat]
        /\ a \in BucketType(Cap[b], Rate[b])
        /\ a.last_refill <= clock
    BY <1>2
  <2> HIDE DEF a
  <2>3. granted' \in [Budget -> Nat] /\ answer' \in [of: SUBSET Budget, ok: BOOLEAN]
    BY <1>3, <1>1 DEF Grant, TypeOK
  <2> QED BY <2>1, <2>2, <2>3 DEF TypeOK
<1>4. ASSUME NEW b \in Budget, Deny(b) PROVE TypeOK'
  <2> DEFINE a == AfterAcquire(bucket[b], Weight[b], clock)
  <2>1. bucket' = [bucket EXCEPT ![b] = a] /\ UNCHANGED <<clock, granted, before>>
    BY <1>4 DEF Deny
  <2>2. /\ a \in [tokens: Int, max_tokens: Nat, refill_rate: Nat, last_refill: Nat]
        /\ a \in BucketType(Cap[b], Rate[b])
        /\ a.last_refill <= clock
    BY <1>2
  <2> HIDE DEF a
  <2>3. answer' \in [of: SUBSET Budget, ok: BOOLEAN]
    BY <1>4 DEF Deny, TypeOK
  <2> QED BY <2>1, <2>2, <2>3 DEF TypeOK
<1>5. ASSUME NEW e \in Exchange, Unlimited(e) PROVE TypeOK'
  BY <1>5 DEF TypeOK, Unlimited
<1>6. CASE Tick
  BY <1>6 DEF TypeOK, Tick, BucketType
<1>7. CASE UNCHANGED vars
  BY <1>7 DEF TypeOK, vars
<1> QED BY <1>3, <1>4, <1>5, <1>6, <1>7 DEF Next

\* Every bucket keeps its parameters, stays within its maximum and was last
\* refilled in the past; the histories are functions of numbers
\* (TokenBucket::refill and acquire).
THEOREM TypeCorrect == Spec => []TypeOK
BY InitTypeOK, NextTypeOK, PTL DEF Spec

-----------------------------------------------------------------------------
(***************************************************************************)
(* The window bound.  It is not inductive: a bucket could have granted all  *)
(* a window allows and still hold tokens.  The strengthening counts what    *)
(* the bucket would still grant as already granted (Ledger); with           *)
(* WindowTight it says that the tokens left are exactly the room of the     *)
(* tightest window.                                                         *)
(***************************************************************************)

Used(b) == granted[b] + Available(bucket[b], clock)

Ledger ==
  \A b \in Budget : \A t \in 0..clock :
    Used(b) - before[b][t] <= Cap[b] + Rate[b] * (clock - t)

IInv == TypeOK /\ Ledger /\ WindowTight

LEMMA TypeFacts ==
  ASSUME TypeOK, NEW b \in Budget
  PROVE  /\ GoodBucket(bucket[b]) /\ clock \in Nat
         /\ bucket[b].last_refill <= clock
         /\ bucket[b].max_tokens = Cap[b] /\ bucket[b].refill_rate = Rate[b]
         /\ Cap[b] \in Nat /\ Rate[b] \in Nat /\ Weight[b] \in Nat /\ granted[b] \in Nat
         /\ Available(bucket[b], clock) \in 0..Cap[b]
         /\ \A t \in 0..clock : before[b][t] \in Nat
<1>1. /\ GoodBucket(bucket[b]) /\ clock \in Nat
      /\ bucket[b].last_refill <= clock
      /\ bucket[b].max_tokens = Cap[b] /\ bucket[b].refill_rate = Rate[b]
  BY DEF TypeOK, BucketType, GoodBucket
<1>2. Available(bucket[b], clock) \in 0..Cap[b]
  BY <1>1, AvailableBounds
<1>3. \A t \in 0..clock : before[b][t] \in Nat
  <2>1. clock <= MaxTime /\ before[b] \in [0..MaxTime -> Nat]
    BY RateLimiterAssumption DEF TypeOK
  <2> QED BY <2>1, RateLimiterAssumption, <1>1
<1>4. Cap[b] \in Nat /\ Rate[b] \in Nat /\ Weight[b] \in Nat /\ granted[b] \in Nat
  BY RateLimiterAssumption DEF TypeOK
<1> QED BY <1>1, <1>2, <1>3, <1>4

\* A call of check_limit moves weight from the tokens to what was granted.
LEMMA CallKeepsUsed ==
  ASSUME TypeOK, NEW c \in Budget, Grant(c) \/ Deny(c), NEW b \in Budget
  PROVE  Used(b)' = Used(b)
<1> DEFINE a == AfterAcquire(bucket[c], Weight[c], clock)
<1>1. Available(a, clock) = IF CanAcquire(bucket[c], Weight[c], clock)
                            THEN Available(bucket[c], clock) - Weight[c]
                            ELSE Available(bucket[c], clock)
  BY TypeFacts, AcquireEffect
<1>2. bucket' = [bucket EXCEPT ![c] = a] /\ clock' = clock
  BY DEF Grant, Deny
<1>3. granted' = IF CanAcquire(bucket[c], Weight[c], clock)
                 THEN [granted EXCEPT ![c] = @ + Weight[c]] ELSE granted
  BY DEF Grant, Deny
<1> HIDE DEF a
<1>4. CASE b = c
  <2>1. bucket'[b] = a
    BY <1>2, <1>4 DEF TypeOK
  <2>2. Available(bucket'[b], clock') = Available(a, clock)
    BY <2>1, <1>2
  <2>3. granted'[b] = IF CanAcquire(bucket[c], Weight[c], clock)
                      THEN granted[c] + Weight[c] ELSE granted[c]
    BY <1>3, <1>4 DEF TypeOK
  <2>4. /\ Weight[c] \in Nat /\ granted[c] \in Nat /\ Available(bucket[c], clock) \in Int
    BY TypeFacts
  <2> QED BY <1>1, <1>4, <2>2, <2>3, <2>4 DEF Used
<1>5. CASE b # c
  <2>1. bucket'[b] = bucket[b] /\ granted'[b] = granted[b]
    BY <1>2, <1>3, <1>5 DEF TypeOK
  <2> QED BY <1>2, <2>1 DEF Used
<1> QED BY <1>4, <1>5

LEMMA InitIInv == Init => IInv
<1> SUFFICES ASSUME Init PROVE IInv
  OBVIOUS
<1>1. TypeOK
  BY InitTypeOK
<1>2. ASSUME NEW b \in Budget
      PROVE  Used(b) = Cap[b] /\ before[b][0] = 0 /\ Rate[b] * (clock - 0) = 0
             /\ granted[b] = 0 /\ Available(bucket[b], clock) = Cap[b] /\ Cap[b] \in Nat
  <2>1. bucket[b] = NewBucket(Cap[b], Rate[b], 0) /\ clock = 0 /\ granted[b] = 0
    BY DEF Init
  <2>2. Cap[b] \in Nat /\ Rate[b] \in Nat
    BY RateLimiterAssumption
  <2>3. (0 - 0) * Rate[b] = 0 /\ Rate[b] * (0 - 0) = 0
    BY <2>2, Distribute
  <2>4. Available(bucket[b], clock) = Cap[b]
    BY <2>1, <2>2, <2>3 DEF Available, NewBucket
  <2>5. before[b][0] = 0
    BY RateLimiterAssumption DEF Init
  <2> QED BY <2>1, <2>2, <2>3, <2>4, <2>5 DEF Used
<1>3. clock = 0
  BY DEF Init
<1>4. Ledger
  BY <1>2, <1>3 DEF Ledger
<1>5. WindowTight
  <2> SUFFICES ASSUME NEW b \in Budget
               PROVE  \E t \in 0..clock :
                        GrantedSince(b, t) + Available(bucket[b], clock)
                          = Cap[b] + Rate[b] * (clock - t)
    BY DEF WindowTight
  <2>1. 0 \in 0..clock
    BY <1>3
  <2>2. GrantedSince(b, 0) + Available(bucket[b], clock) = Cap[b] + Rate[b] * (clock - 0)
    BY <1>2 DEF GrantedSince
  <2> QED BY <2>1, <2>2
<1> QED BY <1>1, <1>4, <1>5 DEF IInv

\* The same facts, and what they say of the windows, after a step.
LEMMA NextFacts ==
  ASSUME TypeOK', NEW b \in Budget, NEW t \in 0..clock'
  PROVE  /\ Available(bucket[b], clock)' \in 0..Cap[b]
         /\ granted'[b] \in Nat /\ before'[b][t] \in Nat
         /\ (GrantedSince(b, t) + Available(bucket[b], clock))' = Used(b)' - before'[b][t]
<1>1. /\ GoodBucket(bucket'[b]) /\ clock' \in Nat
      /\ bucket'[b].last_refill <= clock'
      /\ bucket'[b].max_tokens = Cap[b]
  BY DEF TypeOK, BucketType, GoodBucket
<1>2. Available(bucket'[b], clock') \in 0..Cap[b]
  BY <1>1, AvailableBounds
<1>3. granted'[b] \in Nat
  BY DEF TypeOK
<1>4. before'[b][t] \in Nat
  <2>1. clock' <= MaxTime /\ before'[b] \in [0..MaxTime -> Nat]
    BY RateLimiterAssumption DEF TypeOK
  <2> QED BY <2>1, RateLimiterAssumption, <1>1
<1>5. Cap[b] \in Nat
  BY RateLimiterAssumption
<1> QED BY <1>2, <1>3, <1>4, <1>5 DEF GrantedSince, Used

LEMMA WindowsNow ==
  ASSUME TypeOK, NEW b \in Budget, NEW t \in 0..clock
  PROVE  GrantedSince(b, t) + Available(bucket[b], clock) = Used(b) - before[b][t]
<1>1. granted[b] \in Nat /\ before[b][t] \in Nat /\ Available(bucket[b], clock) \in Int
  BY TypeFacts
<1> QED BY <1>1 DEF GrantedSince, Used

LEMMA CallKeepsIInv ==
  ASSUME IInv, TypeOK', UNCHANGED <<clock, before>>, \A b \in Budget : Used(b)' = Used(b)
  PROVE  Ledger' /\ WindowTight'
<1>1. Ledger'
  BY DEF IInv, Ledger
<1>2. WindowTight'
  <2> SUFFICES ASSUME NEW b \in Budget
               PROVE  \E t \in 0..clock' :
                        (GrantedSince(b, t) + Available(bucket[b], clock))'
                          = Cap[b] + Rate[b] * (clock' - t)
    BY DEF WindowTight
  <2>1. PICK t \in 0..clock : GrantedSince(b, t) + Available(bucket[b], clock)
                                = Cap[b] + Rate[b] * (clock - t)
    BY DEF IInv, WindowTight
  <2>2. Used(b) - before[b][t] = Cap[b] + Rate[b] * (clock - t)
    BY <2>1, WindowsNow DEF IInv
  <2>3. (GrantedSince(b, t) + Available(bucket[b], clock))' = Used(b)' - before'[b][t]
    BY NextFacts
  <2> QED BY <2>2, <2>3
<1> QED BY <1>1, <1>2

LEMMA TickKeepsIInv ==
  ASSUME IInv, TypeOK', Tick
  PROVE  Ledger' /\ WindowTight'
<1> USE RateLimiterAssumption
<1>1. TypeOK /\ clock \in Nat /\ clock' = clock + 1 /\ clock < MaxTime
      /\ bucket' = bucket /\ granted' = granted
  BY DEF IInv, Tick, TypeOK
<1>2. ASSUME NEW b \in Budget
      PROVE  /\ before'[b][clock + 1] = granted[b]
             /\ \A t \in 0..clock : before'[b][t] = before[b][t]
  BY <1>1 DEF Tick, TypeOK
<1>3. ASSUME NEW b \in Budget
      PROVE  /\ Used(b)' <= Used(b) + Rate[b]
             /\ Used(b)' = Used(b) + Rate[b] \/ Used(b)' = granted[b] + Cap[b]
             /\ Used(b)' <= granted[b] + Cap[b]
             /\ Used(b)' \in Int /\ Used(b) \in Int
             /\ granted[b] \in Nat /\ Cap[b] \in Nat /\ Rate[b] \in Nat
  <2>1. /\ Available(bucket[b], clock + 1) <= Available(bucket[b], clock) + Rate[b]
        /\ \/ Available(bucket[b], clock + 1) = Available(bucket[b], clock) + Rate[b]
           \/ Available(bucket[b], clock + 1) = Cap[b]
    BY <1>1, TypeFacts, AvailableTick
  <2>2. /\ Available(bucket[b], clock) \in 0..Cap[b]
        /\ Cap[b] \in Nat /\ Rate[b] \in Nat /\ granted[b] \in Nat
    BY <1>1, TypeFacts
  <2>3. Used(b)' = granted[b] + Available(bucket[b], clock + 1)
    BY <1>1 DEF Used
  <2>4. Available(bucket[b], clock + 1) \in 0..Cap[b]
    <3>1. 0 \in 0..clock'
      BY <1>1
    <3> QED BY <3>1, <1>1, NextFacts
  <2> QED BY <2>1, <2>2, <2>3, <2>4 DEF Used
<1>4. ASSUME NEW b \in Budget, NEW t \in 0..clock
      PROVE  /\ Rate[b] * (clock' - t) = Rate[b] * (clock - t) + Rate[b]
             /\ Rate[b] * (clock - t) \in Int
             /\ Rate[b] * (clock' - (clock + 1)) = 0
             /\ before[b][t] \in Nat
  <2>1. /\ Rate[b] * ((clock - t) + 1) = Rate[b] * (clock - t) + Rate[b]
        /\ Rate[b] * (clock - t) \in Int
        /\ Rate[b] * 0 = 0
    <3>1. Rate[b] \in Nat /\ clock - t \in Int
      BY <1>1
    <3> QED BY <3>1, Distribute
  <2>2. clock' - t = (clock - t) + 1 /\ clock' - (clock + 1) = 0
    BY <1>1
  <2>3. before[b][t] \in Nat
    BY <1>1, TypeFacts
  <2> QED BY <2>1, <2>2, <2>3
<1>5. Ledger'
  <2> SUFFICES ASSUME NEW b \in Budget, NEW t \in 0..clock'
               PROVE  Used(b)' - before'[b][t] <= Cap[b] + Rate[b] * (clock' - t)
    BY DEF Ledger
  <2>1. CASE t = clock + 1
    <3>1. 0 \in 0..clock
      BY <1>1
    <3>2. Rate[b] * (clock' - t) = 0
      BY <3>1, <1>4, <2>1
    <3> QED BY <3>2, <2>1, <1>2, <1>3
  <2>2. CASE t \in 0..clock
    <3>1. Used(b) - before[b][t] <= Cap[b] + Rate[b] * (clock - t)
      BY <2>2 DEF IInv, Ledger
    <3> QED BY <3>1, <2>2, <1>2, <1>3, <1>4
  <2> QED BY <2>1, <2>2, <1>1
<1>6. WindowTight'
  <2> SUFFICES ASSUME NEW b \in Budget
               PROVE  \E t \in 0..clock' :
                        (GrantedSince(b, t) + Available(bucket[b], clock))'
                          = Cap[b] + Rate[b] * (clock' - t)
    BY DEF WindowTight
  <2>1. CASE Used(b)' = Used(b) + Rate[b]
    <3>1. PICK t \in 0..clock : GrantedSince(b, t) + Available(bucket[b], clock)
                                  = Cap[b] + Rate[b] * (clock - t)
      BY DEF IInv, WindowTight
    <3>2. Used(b) - before[b][t] = Cap[b] + Rate[b] * (clock - t)
      BY <3>1, <1>1, WindowsNow
    <3>3. t \in 0..clock'
      BY <1>1
    <3>4. (GrantedSince(b, t) + Available(bucket[b], clock))' = Used(b)' - before'[b][t]
      BY <3>3, NextFacts
    <3>5. Used(b)' - before'[b][t] = Cap[b] + Rate[b] * (clock' - t)
      <4>1. before'[b][t] = before[b][t]
        BY <1>2
      <4>2. /\ Rate[b] * (clock' - t) = Rate[b] * (clock - t) + Rate[b]
            /\ Rate[b] * (clock - t) \in Int /\ before[b][t] \in Nat
        BY <1>4
      <4>3. Used(b) \in Int /\ Cap[b] \in Nat /\ Rate[b] \in Nat
        BY <1>3
      <4> QED BY <3>2, <2>1, <4>1, <4>2, <4>3
    <3> QED BY <3>3, <3>4, <3>5
  <2>2. CASE Used(b)' = granted[b] + Cap[b]
    <3>1. PICK t \in 0..clock' : t = clock + 1
      BY <1>1
    <3>2. (GrantedSince(b, t) + Available(bucket[b], clock))' = Used(b)' - before'[b][t]
      BY NextFacts
    <3>3. Used(b)' - before'[b][t] = Cap[b] + Rate[b] * (clock' - t)
      <4>1. before'[b][t] = granted[b]
        BY <3>1, <1>2
      <4>2. 0 \in 0..clock
        BY <1>1
      <4>3. Rate[b] * (clock' - t) = 0
        BY <3>1, <4>2, <1>4
      <4> QED BY <2>2, <4>1, <4>3, <1>3
    <3> QED BY <3>2, <3>3
  <2> QED BY <2>1, <2>2, <1>3
<1> QED BY <1>5, <1>6

LEMMA NextIInv == IInv /\ [Next]_vars => IInv'
<1> SUFFICES ASSUME IInv, [Next]_vars PROVE Ledger' /\ WindowTight' /\ TypeOK'
  BY DEF IInv
<1>1. TypeOK /\ TypeOK'
  BY NextTypeOK DEF IInv
<1>2. ASSUME NEW c \in Budget, Grant(c) \/ Deny(c) PROVE Ledger' /\ WindowTight'
  <2>1. UNCHANGED <<clock, before>>
    BY <1>2 DEF Grant, Deny
  <2>2. \A b \in Budget : Used(b)' = Used(b)
    BY <1>1, <1>2, CallKeepsUsed
  <2> QED BY <1>1, <2>1, <2>2, CallKeepsIInv
<1>3. ASSUME UNCHANGED <<bucket, clock, granted, before>> PROVE Ledger' /\ WindowTight'
  <2>1. \A b \in Budget : Used(b)' = Used(b)
    BY <1>3 DEF Used
  <2> QED BY <1>1, <1>3, <2>1, CallKeepsIInv
<1>4. CASE Tick
  BY <1>1, <1>4, TickKeepsIInv
<1>5. ASSUME NEW e \in Exchange, Unlimited(e) PROVE Ledger' /\ WindowTight'
  BY <1>3, <1>5 DEF Unlimited
<1>6. CASE UNCHANGED vars
  BY <1>1, <1>3, <1>6 DEF vars
<1> QED BY <1>1, <1>2, <1>4, <1>5, <1>6 DEF Next

LEMMA Invariance == Spec => []IInv
BY InitIInv, NextIInv, PTL DEF Spec

\* Over any window that ends now, a bucket grants at most its burst plus what
\* it earns in the window, for every burst, rate and weight
\* (TokenBucket::acquire).
THEOREM Bounded == Spec => []WindowBound
<1>1. IInv => WindowBound
  <2> SUFFICES ASSUME IInv, NEW b \in Budget, NEW t \in 0..clock
               PROVE  GrantedSince(b, t) <= Cap[b] + Rate[b] * (clock - t)
    BY DEF WindowBound
  <2>1. TypeOK /\ Used(b) - before[b][t] <= Cap[b] + Rate[b] * (clock - t)
    BY DEF IInv, Ledger
  <2>2. /\ granted[b] \in Nat /\ before[b][t] \in Nat
        /\ Available(bucket[b], clock) \in 0..Cap[b] /\ Cap[b] \in Nat
        /\ Rate[b] \in Nat /\ clock \in Nat
    BY <2>1, TypeFacts
  <2>3. Rate[b] * (clock - t) \in Int
    BY <2>2, Distribute
  <2> QED BY <2>1, <2>2, <2>3 DEF Used, GrantedSince
<1> QED BY <1>1, Invariance, PTL

\* The bucket grants no less than that either: some window has exactly the
\* room of the tokens left (no token is lost by a denial or a late refill).
THEOREM Tight == Spec => []WindowTight
<1>1. IInv => WindowTight
  BY DEF IInv
<1> QED BY <1>1, Invariance, PTL

-----------------------------------------------------------------------------
(***************************************************************************)
(* The refinement.  The bucket's test agrees with the test on all windows:  *)
(* Ledger gives one direction, WindowTight the other.                       *)
(***************************************************************************)

LEMMA SameAnswer ==
  ASSUME IInv, NEW b \in Budget
  PROVE  CanAcquire(bucket[b], Weight[b], clock) <=> Window!Fits(b, Weight[b])
<1> DEFINE avail == Available(bucket[b], clock)
           w == Weight[b]
<1>1. /\ avail \in Int /\ w \in Nat /\ granted[b] \in Nat /\ clock \in Nat
      /\ Cap[b] \in Nat /\ Rate[b] \in Nat
  BY TypeFacts DEF IInv
<1>2. ASSUME NEW t \in 0..clock
      PROVE  before[b][t] \in Nat /\ Rate[b] * (clock - t) \in Int
  <2>1. clock - t \in Int
    BY <1>1
  <2> QED BY <1>1, <2>1, TypeFacts, Distribute DEF IInv
<1>3. CanAcquire(bucket[b], Weight[b], clock) <=> avail >= w
  BY DEF CanAcquire
<1>4. ASSUME avail >= w PROVE Window!Fits(b, w)
  <2> SUFFICES ASSUME NEW t \in 0..clock
               PROVE  granted[b] - before[b][t] + w <= Cap[b] + Rate[b] * (clock - t)
    BY DEF Window!Fits
  <2>1. granted[b] + avail - before[b][t] <= Cap[b] + Rate[b] * (clock - t)
    <3>1. Used(b) - before[b][t] <= Cap[b] + Rate[b] * (clock - t)
      BY DEF IInv, Ledger
    <3>2. Used(b) = granted[b] + avail
      BY DEF Used
    <3> HIDE DEF avail
    <3> QED BY <3>1, <3>2, <1>1, <1>2
  <2> HIDE DEF avail, w
  <2> QED BY <1>1, <1>2, <1>4, <2>1
<1>5. ASSUME Window!Fits(b, w) PROVE avail >= w
  <2>1. PICK t \in 0..clock : granted[b] - before[b][t] + avail = Cap[b] + Rate[b] * (clock - t)
    BY DEF IInv, WindowTight, GrantedSince
  <2>2. granted[b] - before[b][t] + w <= Cap[b] + Rate[b] * (clock - t)
    BY <1>5 DEF Window!Fits
  <2> HIDE DEF avail, w
  <2> QED BY <1>1, <1>2, <2>1, <2>2
<1> QED BY <1>3, <1>4, <1>5

\* check_limit gives the answers of the sliding-window limiter: every step of
\* the buckets is a step of SlidingWindow or changes nothing it sees.
THEOREM WindowRefinement == Spec => ImplementsWindow
<1>1. Init => Window!WInit
  BY DEF Init, Window!WInit, NoAnswer, Window!NoAnswer
<1>2. IInv /\ [Next]_vars => [Window!WNext]_(Window!wvars)
  <2> SUFFICES ASSUME IInv, [Next]_vars PROVE [Window!WNext]_(Window!wvars)
    OBVIOUS
  <2>1. ASSUME NEW b \in Budget, Grant(b) PROVE Window!WGrant(b)
    <3>1. Window!Fits(b, Weight[b])
      BY <2>1, SameAnswer DEF Grant
    <3> QED BY <2>1, <3>1 DEF Grant, Window!WGrant
  <2>2. ASSUME NEW b \in Budget, Deny(b) PROVE Window!WDeny(b)
    <3>1. ~Window!Fits(b, Weight[b])
      BY <2>2, SameAnswer DEF Deny
    <3> QED BY <2>2, <3>1 DEF Deny, Window!WDeny
  <2>3. ASSUME NEW e \in Exchange, Unlimited(e) PROVE Window!WUnlimited
    BY <2>3 DEF Unlimited, Window!WUnlimited
  <2>4. CASE Tick
    BY <2>4 DEF Tick, Window!WTick, Window!WNext
  <2>5. CASE UNCHANGED vars
    BY <2>5 DEF vars, Window!wvars
  <2> QED BY <2>1, <2>2, <2>3, <2>4, <2>5 DEF Next, Window!WNext
<1> QED BY <1>1, <1>2, Invariance, PTL DEF Spec, ImplementsWindow, Window!WSpec

=============================================================================
