------------------------- MODULE TradePipelineProofs -------------------------
(***************************************************************************)
(* Proofs about TradePipeline, for every set of exchanges, books and         *)
(* replies, every capacity and every limit.                                  *)
(***************************************************************************)
EXTENDS TradePipeline, Collections

Quotes ==
  {q \in [of : Exchange, book : UNION {Book[e] : e \in Exchange}, ts : Nat, at : Nat] :
     q.book \in Book[q.of] /\ q.ts <= q.at + Lead(q.of)}

Sides(S) == {b.asks : b \in S} \cup {b.bids : b \in S}

\* An opportunity rests on two quotes: what it keeps of them.
Opps ==
  {o \in [long : Exchange, short : Exchange,
          asks : Sides(UNION {Book[e] : e \in Exchange}), bids : Sides(UNION {Book[e] : e \in Exchange}),
          longTs : Nat, shortTs : Nat, longAt : Nat, shortAt : Nat, volume : Int, stamp : Nat] :
     /\ o.longTs <= o.longAt + Lead(o.long)
     /\ o.shortTs <= o.shortAt + Lead(o.short)
     /\ IsSide(o.asks) /\ IsSide(o.bids)}

\* One that has passed validation, and was stamped right after it.
Passed == {o \in Opps : FreshAt(o, o.stamp)}

Markets ==
  {m \in [Exchange -> Quotes \cup {NoQuote}] : \A e \in Exchange : m[e] # NoQuote => m[e].of = e}

Busy == {"sized", "consulted", "sending"}

\* What the properties of a trade rest on.
Flow ==
  /\ now \in 0..MAX_TIME
  /\ config \in Config
  /\ stage \in {"idle", "fetching"} \cup Busy
  /\ feed \in Seq(Quotes) /\ Len(feed) <= FEED_CAP
  /\ market \in Markets
  /\ queue \in Seq(Passed) /\ Len(queue) <= EXEC_CAP
  /\ stage \in Busy => cand \in Opps
  /\ stage = "sending" => cand \in Passed
  /\ trade # NoTrade => trade.opp \in Passed /\ trade.at \in Nat /\ trade.at - trade.opp.stamp <= AGE

-----------------------------------------------------------------------------
LEMMA MinTwo ==
  ASSUME NEW a \in Int, NEW b \in Int
  PROVE  Min({a, b}) \in {a, b} /\ Min({a, b}) <= a /\ Min({a, b}) <= b
<1>1. \E x \in {a, b} : \A y \in {a, b} : x <= y
  BY SMT
<1>2. Min({a, b}) \in {a, b} /\ \A y \in {a, b} : Min({a, b}) <= y
  BY <1>1, SMT DEF Min
<1> QED BY <1>2

LEMMA MinThree ==
  ASSUME NEW a \in Int, NEW b \in Int, NEW c \in Int
  PROVE  /\ Min({a, b, c}) \in {a, b, c}
         /\ Min({a, b, c}) <= a /\ Min({a, b, c}) <= b /\ Min({a, b, c}) <= c
<1>1. \E x \in {a, b, c} : \A y \in {a, b, c} : x <= y
  <2>1. CASE a <= b /\ a <= c BY <2>1
  <2>2. CASE b <= a /\ b <= c BY <2>2
  <2>3. CASE c <= a /\ c <= b BY <2>3
  <2> QED BY <2>1, <2>2, <2>3
<1>2. Min({a, b, c}) \in {a, b, c} /\ \A y \in {a, b, c} : Min({a, b, c}) <= y
  BY <1>1, SMT DEF Min
<1> QED BY <1>2

-----------------------------------------------------------------------------
(* Order books: what the levels of a side up to the k-th hold.               *)

LEMMA LevelOf ==
  ASSUME NEW levels, IsSide(levels)
  PROVE  /\ Len(levels) \in Nat \ {0} /\ DOMAIN levels = 1..Len(levels)
         /\ \A k \in 1..Len(levels) :
              /\ Price(levels[k]) \in Nat /\ Size(levels[k]) \in Nat
              /\ Price(levels[k]) * Size(levels[k]) \in Nat
              /\ Price(levels[k]) = 0 => Size(levels[k]) = 0
         /\ Price(levels[1]) \in Nat
<1>1. levels \in Seq(Nat \X Nat) /\ levels # << >>
  BY DEF IsSide
<1>2. Len(levels) \in Nat \ {0} /\ DOMAIN levels = 1..Len(levels)
  BY <1>1
<1>3. \A k \in 1..Len(levels) : levels[k] \in Nat \X Nat
  BY <1>1
<1>4. \A k \in 1..Len(levels) : /\ Price(levels[k]) \in Nat /\ Size(levels[k]) \in Nat
                                /\ Price(levels[k]) = 0 => Size(levels[k]) = 0
  BY <1>2, <1>3 DEF Price, Size, IsSide
<1>5. \A p, s \in Nat : p * s \in Nat
  OBVIOUS
<1>6. 1 \in 1..Len(levels)
  BY <1>2
<1> QED BY <1>2, <1>4, <1>5, <1>6

LEMMA PrefixSums ==
  ASSUME NEW n \in Nat, NEW f, \A i \in 1..n : f[i] \in Nat
  PROVE  /\ SumFunctionOnSet(f, 1..0) = 0
         /\ \A k \in 0..n : SumFunctionOnSet(f, 1..k) \in Nat
         /\ \A k \in 0..(n - 1) :
              SumFunctionOnSet(f, 1..(k + 1)) = SumFunctionOnSet(f, 1..k) + f[k + 1]
<1>1. \A k \in 0..n : IsFiniteSet(1..k) /\ \A i \in 1..k : f[i] \in Nat
  BY FS_Interval
<1>2. SumFunctionOnSet(f, 1..0) = 0
  <2>1. 1..0 = {} /\ 0 \in 0..n
    OBVIOUS
  <2> QED BY <1>1, <2>1, SumOver
<1>3. ASSUME NEW k \in 0..n PROVE SumFunctionOnSet(f, 1..k) \in Nat
  BY <1>1, SumOver
<1>4. ASSUME NEW k \in 0..(n - 1)
      PROVE  SumFunctionOnSet(f, 1..(k + 1)) = SumFunctionOnSet(f, 1..k) + f[k + 1]
  <2>1. k + 1 \in 0..n /\ k + 1 \in 1..(k + 1) /\ (1..(k + 1)) \ {k + 1} = 1..k
    OBVIOUS
  <2>2. \A x \in 1..(k + 1) :
          SumFunctionOnSet(f, 1..(k + 1)) = SumFunctionOnSet(f, (1..(k + 1)) \ {x}) + f[x]
    BY <1>1, <2>1, SumOver
  <2> QED BY <2>1, <2>2
<1> QED BY <1>2, <1>3, <1>4

\* N[k] and A[k]: what the first k levels are worth, and their coins.
Taken(levels, N, A) ==
  /\ N \in [0..Len(levels) -> Nat] /\ A \in [0..Len(levels) -> Nat]
  /\ N[0] = 0 /\ A[0] = 0
  /\ \A k \in 0..(Len(levels) - 1) :
       /\ N[k + 1] = N[k] + Price(levels[k + 1]) * Size(levels[k + 1])
       /\ A[k + 1] = A[k] + Size(levels[k + 1])
  /\ \A k \in 0..Len(levels) : /\ Notional(First(levels, k)) = N[k]
                               /\ Amount(First(levels, k)) = A[k]
                               /\ Coins(First(levels, k)) = A[k]
  /\ Notional(levels) = N[Len(levels)]

LEMMA TakenExists ==
  ASSUME NEW levels, IsSide(levels)
  PROVE  \E N, A : Taken(levels, N, A)
<1> DEFINE n == Len(levels)
           value == [i \in 1..n |-> Price(levels[i]) * Size(levels[i])]
           size == [i \in 1..n |-> Size(levels[i])]
           N == [k \in 0..n |-> SumFunctionOnSet(value, 1..k)]
           A == [k \in 0..n |-> SumFunctionOnSet(size, 1..k)]
<1>1. n \in Nat /\ DOMAIN levels = 1..n
  BY LevelOf
<1>2. \A i \in 1..n : value[i] \in Nat /\ size[i] \in Nat
  BY LevelOf
<1>3. \A k \in 0..n : IsFiniteSet(1..k) /\ \A i \in 1..k : i \in 1..n
  BY <1>1, FS_Interval
<1>4. /\ \A i \in 1..n : value[i] = Price(levels[i]) * Size(levels[i]) /\ size[i] = Size(levels[i])
      /\ \A k \in 0..n : N[k] = SumFunctionOnSet(value, 1..k) /\ A[k] = SumFunctionOnSet(size, 1..k)
  OBVIOUS
<1>5. /\ N \in [0..n -> Nat] /\ N[0] = 0
      /\ \A k \in 0..(n - 1) : N[k + 1] = N[k] + value[k + 1]
  <2> HIDE DEF value, n
  <2>1. /\ SumFunctionOnSet(value, 1..0) = 0
        /\ \A k \in 0..n : SumFunctionOnSet(value, 1..k) \in Nat
        /\ \A k \in 0..(n - 1) :
             SumFunctionOnSet(value, 1..(k + 1)) = SumFunctionOnSet(value, 1..k) + value[k + 1]
    BY <1>1, <1>2, PrefixSums
  <2>2. 0 \in 0..n /\ \A k \in 0..(n - 1) : k \in 0..n /\ k + 1 \in 0..n
    BY <1>1
  <2> QED BY <2>1, <2>2
<1>6. /\ A \in [0..n -> Nat] /\ A[0] = 0
      /\ \A k \in 0..(n - 1) : A[k + 1] = A[k] + size[k + 1]
  <2> HIDE DEF size, n
  <2>1. /\ SumFunctionOnSet(size, 1..0) = 0
        /\ \A k \in 0..n : SumFunctionOnSet(size, 1..k) \in Nat
        /\ \A k \in 0..(n - 1) :
             SumFunctionOnSet(size, 1..(k + 1)) = SumFunctionOnSet(size, 1..k) + size[k + 1]
    BY <1>1, <1>2, PrefixSums
  <2>2. 0 \in 0..n /\ \A k \in 0..(n - 1) : k \in 0..n /\ k + 1 \in 0..n
    BY <1>1
  <2> QED BY <2>1, <2>2
<1>7. ASSUME NEW k \in 0..n
      PROVE  /\ Notional(First(levels, k)) = N[k]
             /\ Amount(First(levels, k)) = A[k]
             /\ Coins(First(levels, k)) = A[k]
  <2> DEFINE f == First(levels, k)
             v == [i \in 1..k |-> Price(f[i]) * Size(f[i])]
             s == [i \in 1..k |-> Size(f[i])]
             c == [i \in 1..k |-> IF Price(f[i]) > 0 THEN Size(f[i]) ELSE 0]
  <2>1. DOMAIN f = 1..k /\ \A i \in 1..k : f[i] = levels[i]
    <3>1. levels \in Seq(Nat \X Nat) /\ k \in Nat /\ k <= Len(levels)
      BY <1>1 DEF IsSide
    <3> QED BY <3>1 DEF First
  <2>2. \A i \in 1..k : v[i] = value[i] /\ s[i] = size[i] /\ v[i] \in Nat /\ s[i] \in Nat
    BY <1>2, <1>3, <2>1
  <2>3. \A i \in 1..k : c[i] = size[i] /\ c[i] \in Nat
    <3> SUFFICES ASSUME NEW i \in 1..k PROVE c[i] = size[i] /\ c[i] \in Nat
      OBVIOUS
    <3>1. /\ i \in 1..n /\ Price(levels[i]) \in Nat /\ Size(levels[i]) \in Nat
          /\ Price(levels[i]) = 0 => Size(levels[i]) = 0
      BY <1>3, LevelOf
    <3>2. c[i] = IF Price(levels[i]) > 0 THEN Size(levels[i]) ELSE 0
      BY <2>1
    <3>3. Price(levels[i]) > 0 \/ Size(levels[i]) = 0
      BY <3>1
    <3> QED BY <1>4, <3>1, <3>2, <3>3
  <2>4. Notional(f) = SumFunctionOnSet(v, 1..k)
    BY <2>1 DEF Notional, SumFunction
  <2>5. Amount(f) = SumFunctionOnSet(s, 1..k)
    BY <2>1 DEF Amount, SumFunction
  <2>6. Coins(f) = SumFunctionOnSet(c, 1..k)
    BY <2>1 DEF Coins, SumFunction
  <2> HIDE DEF f, v, s, c, value, size, N, A, n
  <2>7. SumFunctionOnSet(v, 1..k) = SumFunctionOnSet(value, 1..k)
    BY <1>3, <2>2, SumSame
  <2>8. SumFunctionOnSet(s, 1..k) = SumFunctionOnSet(size, 1..k)
    BY <1>3, <2>2, SumSame
  <2>9. SumFunctionOnSet(c, 1..k) = SumFunctionOnSet(size, 1..k)
    BY <1>3, <2>3, SumSame
  <2> QED BY <1>4, <2>4, <2>5, <2>6, <2>7, <2>8, <2>9 DEF f
<1>8. Notional(levels) = N[n]
  <2>1. Notional(levels) = SumFunctionOnSet(value, 1..n)
    BY <1>1 DEF Notional, SumFunction
  <2>2. n \in 0..n
    BY <1>1
  <2> QED BY <1>4, <2>1, <2>2
<1>9. \A k \in 0..(n - 1) : k + 1 \in 1..n
  BY <1>1
<1> HIDE DEF value, size, N, A
<1> QED BY <1>4, <1>5, <1>6, <1>7, <1>8, <1>9 DEF Taken

\* Levels without coins are worth nothing.
LEMMA NoCoinsNoValue ==
  ASSUME NEW levels, IsSide(levels), NEW N, NEW A, Taken(levels, N, A),
         NEW k \in 0..Len(levels), A[k] = 0
  PROVE  N[k] = 0
<1> DEFINE K == {j \in Nat : j <= Len(levels) => (A[j] = 0 => N[j] = 0)}
<1>1. 0 \in K
  BY DEF Taken
<1>2. ASSUME NEW j \in K PROVE j + 1 \in K
  <2>1. ASSUME j + 1 <= Len(levels), A[j + 1] = 0 PROVE N[j + 1] = 0
    <3>1. j \in 0..(Len(levels) - 1) /\ j \in 0..Len(levels) /\ j + 1 \in 1..Len(levels) /\ j <= Len(levels)
      BY <2>1, LevelOf
    <3>2. /\ N[j + 1] = N[j] + Price(levels[j + 1]) * Size(levels[j + 1])
          /\ A[j + 1] = A[j] + Size(levels[j + 1]) /\ A[j] \in Nat /\ N[j] \in Nat
      BY <3>1 DEF Taken
    <3>3. Size(levels[j + 1]) \in Nat /\ Price(levels[j + 1]) \in Nat
      BY <3>1, LevelOf
    <3>4. A[j] = 0 /\ Size(levels[j + 1]) = 0
      BY <2>1, <3>2, <3>3
    <3>5. N[j] = 0
      BY <3>1, <3>4
    <3> QED BY <3>2, <3>3, <3>4, <3>5
  <2> QED BY <2>1
<1>3. K \subseteq Nat
  OBVIOUS
<1>4. k \in Nat /\ k <= Len(levels)
  BY LevelOf
<1> HIDE DEF K
<1>5. k \in K
  BY <1>1, <1>2, <1>3, <1>4, Counting
<1> QED BY <1>4, <1>5 DEF K

\* The safe amount is that of some first levels, none of whose prefixes has an
\* average too far from the best price.
LEMMA SafeIs ==
  ASSUME NEW levels, IsSide(levels), NEW side
  PROVE  /\ SafeNotional(levels, side) \in Nat
         /\ \A N, A : Taken(levels, N, A) =>
              \E m \in 0..Len(levels) :
                /\ SafeNotional(levels, side) = N[m]
                /\ \A j \in 1..m : A[j] > 0 => ~TooFar(First(levels, j), Price(levels[1]), side)
<1> DEFINE n == Len(levels)
           breaks == {k \in 1..n : /\ Amount(First(levels, k)) > 0
                                   /\ TooFar(First(levels, k), Price(levels[1]), side)}
           m == IF breaks = {} THEN n ELSE Min(breaks) - 1
<1>1. n \in Nat
  BY LevelOf
<1>2. m \in 0..n /\ \A j \in 1..m : j \in 1..n /\ j \notin breaks
  <2>1. CASE breaks = {}
    BY <1>1, <2>1
  <2>2. CASE breaks # {}
    <3>1. breaks \subseteq Nat /\ breaks \subseteq 1..n
      OBVIOUS
    <3> HIDE DEF breaks
    <3>2. Min(breaks) \in breaks /\ \A t \in breaks : Min(breaks) <= t
      BY <2>2, <3>1, Minimum
    <3>3. m = Min(breaks) - 1 /\ Min(breaks) \in 1..n
      BY <2>2, <3>1, <3>2
    <3>4. m \in 0..n
      BY <1>1, <3>3
    <3>5. ASSUME NEW j \in 1..m PROVE j \in 1..n /\ j \notin breaks
      <4>1. j \in 1..n /\ ~(Min(breaks) <= j)
        BY <1>1, <3>3
      <4> QED BY <3>2, <4>1
    <3> QED BY <3>4, <3>5
  <2> QED BY <2>1, <2>2
<1>3. ASSUME NEW N, NEW A, Taken(levels, N, A)
      PROVE  /\ SafeNotional(levels, side) = N[m]
             /\ \A j \in 1..m : A[j] > 0 => ~TooFar(First(levels, j), Price(levels[1]), side)
  <2>1. SafeNotional(levels, side) =
          Notional(IF breaks = {} THEN levels ELSE First(levels, Min(breaks) - 1))
    BY DEF SafeNotional
  <2>2. SafeNotional(levels, side) = N[m]
    <3>1. CASE breaks = {}
      <4>1. m = n /\ SafeNotional(levels, side) = Notional(levels)
        BY <2>1, <3>1
      <4> QED BY <1>3, <4>1 DEF Taken
    <3>2. CASE breaks # {}
      <4>1. SafeNotional(levels, side) = Notional(First(levels, m))
        BY <2>1, <3>2
      <4> HIDE DEF m
      <4> QED BY <1>2, <1>3, <4>1 DEF Taken
    <3> QED BY <3>1, <3>2
  <2>3. ASSUME NEW j \in 1..m, A[j] > 0 PROVE ~TooFar(First(levels, j), Price(levels[1]), side)
    <3>1. j \in 1..n /\ j \notin breaks
      BY <1>2
    <3>2. j \in 0..n
      BY <1>1, <3>1
    <3>3. Amount(First(levels, j)) = A[j]
      BY <1>3, <3>2 DEF Taken
    <3> QED BY <2>3, <3>1, <3>3
  <2> QED BY <2>2, <2>3
<1> HIDE DEF m
<1>4. SafeNotional(levels, side) \in Nat
  <2>1. PICK N, A : Taken(levels, N, A)
    BY TakenExists
  <2> QED BY <1>2, <1>3, <2>1 DEF Taken
<1> QED BY <1>2, <1>3, <1>4

\* An average of value by coins (per mille) is within the bound.
Within(side, value, coins, bound) == side * (1000 * value - bound * coins) <= 0

\* What lies between two averages within the bound is within it too.
LEMMA Between ==
  ASSUME NEW side \in Int, NEW N \in Int, NEW A \in Int, NEW p \in Nat, NEW s \in Nat,
         NEW r \in Nat, NEW bound \in Int, r <= p * s,
         Within(side, N, A, bound), Within(side, N + p * s, A + s, bound)
  PROVE  Within(side, (N + r) * p, A * p + r, bound)
<1> DEFINE X == side * (1000 * N - bound * A)
           D == side * (1000 * p - bound)
<1>1. X \in Int /\ D \in Int /\ X <= 0
  BY DEF Within
<1>2. side * (1000 * (N + p * s) - bound * (A + s)) = X + s * D
  OBVIOUS
<1>3. side * (1000 * ((N + r) * p) - bound * (A * p + r)) = p * X + r * D
  OBVIOUS
<1>4. X + s * D <= 0
  BY <1>2 DEF Within
<1> HIDE DEF X, D
<1>5. p * X \in Int /\ r * D \in Int /\ s * D \in Int /\ p * (s * D) \in Int /\ p * X <= 0
  <2>1. p * X \in Int /\ r * D \in Int /\ s * D \in Int
    BY <1>1
  <2>2. p * (s * D) \in Int
    BY <2>1
  <2>3. 0 - X \in Nat
    BY <1>1
  <2>4. p * (0 - X) \in Nat
    BY <2>3
  <2>5. p * (0 - X) = 0 - p * X
    BY <1>1
  <2> QED BY <2>1, <2>2, <2>4, <2>5
<1>6. p * X + r * D <= 0
  <2>1. CASE D <= 0
    <3>1. 0 - D \in Nat
      BY <1>1, <2>1
    <3>2. r * (0 - D) \in Nat
      BY <3>1
    <3>3. r * (0 - D) = 0 - r * D
      BY <1>1
    <3> QED BY <1>5, <3>2, <3>3
  <2>2. CASE D > 0
    <3>1. D \in Nat /\ p * s - r \in Nat
      BY <1>1, <2>2
    <3>2. (p * s - r) * D \in Nat
      BY <3>1
    <3>3. (p * s - r) * D = p * (s * D) - r * D
      BY <1>1
    <3>4. 0 - (X + s * D) \in Nat
      BY <1>1, <1>4, <1>5
    <3>5. p * (0 - (X + s * D)) \in Nat
      BY <3>4
    <3>6. p * (0 - (X + s * D)) = 0 - p * X - p * (s * D)
      BY <1>1, <1>5
    <3> QED BY <1>5, <3>2, <3>3, <3>5, <3>6
  <2> QED BY <1>1, <2>1, <2>2
<1> QED BY <1>3, <1>6 DEF Within

\* An order of no more than the safe amount fills completely, at an average
\* within the slippage of the best price.
LEMMA SafeFills ==
  ASSUME NEW levels, IsSide(levels), NEW side \in {Asks, Bids},
         NEW usdt \in Nat \ {0}, usdt <= SafeNotional(levels, side), SLIPPAGE \in Nat
  PROVE  FillsWithin(levels, usdt, Price(levels[1]), side)
<1> DEFINE n == Len(levels)
           best == Price(levels[1])
           bound == best * (1000 + side * SLIPPAGE)
<1>1. n \in Nat /\ best \in Nat /\ side \in Int /\ bound \in Int
  <2>1. n \in Nat /\ best \in Nat /\ side \in Int
    BY LevelOf DEF Asks, Bids
  <2>2. 1000 + side * SLIPPAGE \in Int
    BY <2>1
  <2> HIDE DEF best
  <2> QED BY <2>1, <2>2
<1>2. PICK N, A : Taken(levels, N, A)
  BY TakenExists
<1>3. PICK m \in 0..n : /\ SafeNotional(levels, side) = N[m]
                        /\ \A j \in 1..m : A[j] > 0 => ~TooFar(First(levels, j), best, side)
  BY <1>2, SafeIs
<1>4. \A j \in 0..n : N[j] \in Nat /\ A[j] \in Nat
  BY <1>2 DEF Taken
<1> DEFINE J == {j \in 0..m : usdt <= N[j]}
<1>5. J \subseteq Nat /\ m \in J
  BY <1>1, <1>3
<1>6. Min(J) \in J /\ \A t \in J : Min(J) <= t
  <2> HIDE DEF J
  <2> QED BY <1>5, Minimum
<1>7. Min(J) # 0
  <2>1. N[0] = 0
    BY <1>2 DEF Taken
  <2> QED BY <1>6, <2>1
<1> DEFINE k == Min(J) - 1
<1>8. /\ k \in 0..(n - 1) /\ k \in 0..n /\ k \in 0..m /\ k + 1 \in 1..m /\ k + 1 \in 0..n
      /\ k + 1 \in 1..n /\ N[k] < usdt /\ usdt <= N[k + 1]
  <2>1. Min(J) \in 1..m /\ usdt <= N[Min(J)]
    BY <1>6, <1>7
  <2>2. k \in 0..m /\ k + 1 = Min(J) /\ ~(Min(J) <= k)
    BY <1>1, <2>1
  <2>3. k \notin J
    BY <1>6, <2>2
  <2>4. k \in 0..n
    BY <1>1, <2>2
  <2>5. N[k] < usdt
    BY <1>4, <2>2, <2>3, <2>4
  <2> HIDE DEF k
  <2> QED BY <1>1, <2>1, <2>2, <2>4, <2>5
<1> HIDE DEF k
<1>9. ASSUME NEW j \in 0..m PROVE side * (1000 * N[j] - bound * A[j]) <= 0
  <2>1. j \in 0..n /\ N[j] \in Nat /\ A[j] \in Nat
    BY <1>1, <1>4
  <2>2. CASE A[j] = 0
    <3>1. N[j] = 0
      BY <1>2, <2>1, <2>2, NoCoinsNoValue
    <3> QED BY <1>1, <2>2, <3>1
  <2>3. CASE A[j] # 0
    <3>1. A[j] > 0 /\ j # 0
      BY <1>2, <2>1, <2>3 DEF Taken
    <3>2. j \in 1..m
      BY <1>1, <3>1
    <3>3. ~TooFar(First(levels, j), best, side)
      BY <1>3, <3>1, <3>2
    <3>4. Notional(First(levels, j)) = N[j] /\ Amount(First(levels, j)) = A[j]
      BY <1>2, <2>1 DEF Taken
    <3>5. ~(side * (1000 * N[j] - bound * A[j]) > 0)
      BY <3>3, <3>4 DEF TooFar
    <3>6. side * (1000 * N[j] - bound * A[j]) \in Int
      <4> HIDE DEF bound
      <4>1. 1000 * N[j] \in Int /\ bound * A[j] \in Int
        BY <1>1, <2>1
      <4> QED BY <1>1, <4>1
    <3> HIDE DEF bound
    <3> QED BY <3>5, <3>6
  <2> QED BY <2>2, <2>3
<1> DEFINE p == Price(levels[k + 1])
           s == Size(levels[k + 1])
           r == usdt - N[k]
<1>10. /\ p \in Nat /\ s \in Nat /\ N[k] \in Nat /\ A[k] \in Nat
       /\ N[k + 1] = N[k] + p * s /\ A[k + 1] = A[k] + s
  BY <1>2, <1>4, <1>8, LevelOf DEF Taken
<1>11. r \in Nat /\ 0 < r /\ r <= p * s /\ N[k] + r = usdt
  <2>1. p * s \in Nat
    BY <1>10
  <2> HIDE DEF p, s
  <2> QED BY <1>8, <1>10, <2>1
<1>12. Within(side, N[k], A[k], bound) /\ Within(side, N[k] + p * s, A[k] + s, bound)
  <2>1. k \in 0..m /\ k + 1 \in 0..m
    BY <1>1, <1>8
  <2> HIDE DEF bound, p, s
  <2> QED BY <1>9, <1>10, <2>1 DEF Within
<1>13. side * (1000 * usdt * p - bound * (A[k] * p + r)) <= 0
  <2> HIDE DEF bound, p, s, r
  <2>1. Within(side, (N[k] + r) * p, A[k] * p + r, bound)
    <3>1. N[k] \in Int /\ A[k] \in Int /\ p \in Nat /\ s \in Nat /\ r \in Nat /\ r <= p * s
      BY <1>10, <1>11
    <3> QED BY <1>1, <1>12, <3>1, Between, Zenon
  <2>2. 1000 * ((N[k] + r) * p) = 1000 * usdt * p
    BY <1>10, <1>11
  <2> QED BY <2>1, <2>2 DEF Within
<1>14. Notional(First(levels, k)) = N[k] /\ Coins(First(levels, k)) = A[k]
  BY <1>2, <1>8 DEF Taken
<1> QED BY <1>8, <1>11, <1>13, <1>14 DEF FillsWithin

-----------------------------------------------------------------------------
\* What accounts are worth is a number.
LEMMA TotalOf ==
  ASSUME worth \in Worths, NEW S \in SUBSET Exchange
  PROVE  Total(S) \in Nat
<1>1. IsFiniteSet(S) /\ worth \in [Exchange -> Nat]
  BY PipelineAssumption, WorthAssumption, FS_Subset
<1>2. \A e \in S : worth[e] \in Nat
  BY <1>1
<1>3. SumFunctionOnSet(worth, S) \in Nat
  BY <1>1, <1>2, SumOver
<1> QED BY <1>3 DEF Total

LEMMA LeadNat ==
  ASSUME NEW e \in Exchange
  PROVE  Lead(e) \in Nat
BY PipelineAssumption DEF Lead

LEMMA CapNat ==
  ASSUME NEW q \in Nat
  PROVE  EquityCap(q) \in Nat
<1>1. q * SHARE \in Nat
  BY PipelineAssumption
<1>2. (q * SHARE) \div 100 \in Nat
  BY <1>1
<1> QED BY <1>2, PipelineAssumption DEF EquityCap

\* The size never exceeds the cap of the equity it was computed with.
LEMMA SizeCapped ==
  ASSUME NEW o \in Opps, NEW q \in Nat
  PROVE  VolumeFor(o, q) \in Int /\ VolumeFor(o, q) <= EquityCap(q)
<1>1. SafeVolume(o) \in Int
  <2>1. SafeNotional(o.asks, Asks) \in Int /\ SafeNotional(o.bids, Bids) \in Int
    <3>1. IsSide(o.asks) /\ IsSide(o.bids)
      BY DEF Opps
    <3> QED BY <3>1, SafeIs
  <2>2. Min({SafeNotional(o.asks, Asks), SafeNotional(o.bids, Bids)}) \in Int
    BY <2>1, MinTwo
  <2> QED BY <2>2, PipelineAssumption DEF SafeVolume
<1>2. EquityCap(q) \in Int
  BY CapNat
<1>3. TARGET \in Int
  BY PipelineAssumption
<1>4. /\ VolumeFor(o, q) \in {SafeVolume(o), TARGET, EquityCap(q)}
      /\ VolumeFor(o, q) <= EquityCap(q)
  BY <1>1, <1>2, <1>3, MinThree DEF VolumeFor
<1> QED BY <1>1, <1>2, <1>3, <1>4

\* A chosen pair makes an opportunity on the two quotes.
LEMMA PairMakesOpp ==
  ASSUME NEW m \in Markets, NEW p \in Looked(m)
  PROVE  OppOf(m, p) \in Opps
<1> DEFINE quoting == {e \in Exchange : m[e] # NoQuote}
           o == OppOf(m, p)
           books == UNION {Book[e] : e \in Exchange}
<1>1. p \in quoting \X quoting
  BY DEF Looked, Pairs
<1>2. /\ p[1] \in Exchange /\ m[p[1]] \in Quotes /\ m[p[1]].of = p[1]
      /\ p[2] \in Exchange /\ m[p[2]] \in Quotes /\ m[p[2]].of = p[2]
  BY <1>1 DEF Markets
<1>3. /\ m[p[1]].book \in Book[p[1]] /\ m[p[1]].ts \in Nat /\ m[p[1]].at \in Nat
      /\ m[p[1]].ts <= m[p[1]].at + Lead(p[1])
  BY <1>2 DEF Quotes
<1>4. /\ m[p[2]].book \in Book[p[2]] /\ m[p[2]].ts \in Nat /\ m[p[2]].at \in Nat
      /\ m[p[2]].ts <= m[p[2]].at + Lead(p[2])
  BY <1>2 DEF Quotes
<1>5. m[p[1]].book.asks \in Sides(books) /\ m[p[2]].book.bids \in Sides(books)
  BY <1>2, <1>3, <1>4 DEF Sides
<1>6. IsSide(m[p[1]].book.asks) /\ IsSide(m[p[2]].book.bids)
  BY <1>2, <1>3, <1>4, BookAssumption
<1> QED BY <1>2, <1>3, <1>4, <1>5, <1>6 DEF Opps, OppOf

\* The size is the only thing Sized changes.
LEMMA SizedOpp ==
  ASSUME NEW o \in Opps, account.equity \in Nat
  PROVE  /\ Sized(o) \in Opps
         /\ Sized(o).volume <= EquityCap(account.equity)
<1>1. VolumeFor(o, account.equity) \in Int /\ VolumeFor(o, account.equity) <= EquityCap(account.equity)
  BY SizeCapped
<1>2. Sized(o) \in Opps
  BY <1>1 DEF Sized, Opps
<1>3. Sized(o).volume = VolumeFor(o, account.equity)
  BY DEF Sized, Opps
<1> QED BY <1>1, <1>2, <1>3

LEMMA InsertKeeps ==
  ASSUME feed \in Seq(Quotes), feed # << >>, market \in Markets
  PROVE  Received \in Markets
<1>1. Head(feed) \in Quotes
  OBVIOUS
<1>2. Head(feed).of \in Exchange
  BY <1>1 DEF Quotes
<1> QED BY <1>1, <1>2 DEF Received, Markets

-----------------------------------------------------------------------------
\* What the checks of the current opportunity rest on.
Grounds ==
  /\ worth \in Worths /\ account.equity \in Nat /\ \A a \in seen : a.equity \in Nat
  /\ stage \in Busy => account \in seen /\ \E a \in seen : cand.volume <= EquityCap(a.equity)
  /\ stage \in {"consulted", "sending"} => \E a \in seen : status = a.wallet
  /\ stage = "sending" => /\ WalletOk(cand, status)
                         /\ LockedFactsHold

IInv == Flow /\ Grounds

LEMMA InitIInv == Init => IInv
<1> SUFFICES ASSUME Init PROVE IInv
  OBVIOUS
<1>1. Flow
  <2>1. market \in Markets
    BY DEF Init, Markets
  <2>2. feed \in Seq(Quotes) /\ Len(feed) = 0 /\ queue \in Seq(Passed) /\ Len(queue) = 0
    BY DEF Init
  <2> QED BY <2>1, <2>2, PipelineAssumption DEF Init, Flow, Busy
<1>2. Grounds
  <2>1. worth \in Worths /\ account.equity = 0 /\ seen = {} /\ stage = "idle"
    BY WorthAssumption DEF Init
  <2> QED BY <2>1 DEF Grounds, Busy
<1> QED BY <1>1, <1>2 DEF IInv

\* Steps that touch neither the opportunity nor what it is checked against.
LEMMA GroundsKept ==
  ASSUME IInv, worth' = worth \/ worth' \in Worths, UNCHANGED <<account, seen, stage, cand, status, filters, rate, config>>
  PROVE  Grounds'
<1>1. LockedFactsHold <=> LockedFactsHold'
  BY DEF LockedFactsHold, TradingOk, NotionalOk, VolumeOk, FundingOk, MarginOk
<1>2. WalletOk(cand, status) <=> WalletOk(cand, status)'
  BY DEF WalletOk
<1> QED BY <1>1, <1>2 DEF IInv, Grounds

LEMMA TickStep == ASSUME IInv, Tick PROVE IInv'
<1>1. Grounds'
  BY GroundsKept DEF Tick, known
<1>2. now' \in 0..MAX_TIME
  BY PipelineAssumption DEF IInv, Flow, Tick
<1>3. Flow'
  BY <1>2 DEF IInv, Flow, Tick
<1> QED BY <1>1, <1>3 DEF IInv

LEMMA WorthStep == ASSUME IInv, WorthChanges PROVE IInv'
<1>1. Grounds'
  BY GroundsKept DEF WorthChanges, known
<1>2. Flow'
  BY DEF IInv, Flow, WorthChanges
<1> QED BY <1>1, <1>2 DEF IInv

LEMMA PublishStep == ASSUME IInv, NEW e \in Exchange, Publish(e) PROVE IInv'
<1>1. Grounds'
  BY GroundsKept DEF Publish, known
<1>2. PICK book \in Book[e], skew \in 0..Lead(e) : feed' = Append(feed, Quote(e, book, now + skew))
  BY DEF Publish
<1>3. Quote(e, book, now + skew) \in Quotes
  <2>1. Lead(e) \in Nat /\ now \in Nat
    BY LeadNat, PipelineAssumption DEF IInv, Flow
  <2>2. skew \in Nat /\ now + skew \in Nat /\ now + skew <= now + Lead(e)
    BY <2>1
  <2> QED BY <2>1, <2>2 DEF Quotes, Quote
<1>4. feed' \in Seq(Quotes) /\ Len(feed') <= FEED_CAP
  BY <1>2, <1>3, PipelineAssumption DEF IInv, Flow, Publish
<1>5. Flow'
  BY <1>4 DEF IInv, Flow, Publish
<1> QED BY <1>1, <1>5 DEF IInv

LEMMA UpdateConfigStep == ASSUME IInv, UpdateConfig PROVE IInv'
<1>1. Flow'
  BY DEF IInv, Flow, UpdateConfig, Busy
<1>2. Grounds'
  BY DEF IInv, Grounds, UpdateConfig, Busy, known
<1> QED BY <1>1, <1>2 DEF IInv

LEMMA PollPublicStep == ASSUME IInv, NEW r \in PublicReply, PollPublic(r) PROVE IInv'
<1>1. Flow'
  BY DEF IInv, Flow, PollPublic
<1>2. Grounds'
  BY DEF IInv, Grounds, PollPublic, FundingFree, Busy
<1> QED BY <1>1, <1>2 DEF IInv

LEMMA PollPrivateStep == ASSUME IInv, NEW r \in PrivateReply, PollPrivate(r) PROVE IInv'
<1>1. Flow'
  BY DEF IInv, Flow, PollPrivate
<1>2. account'.equity \in Nat
  <2>1. account'.equity = Total(r.accounts)
    BY DEF PollPrivate, AccountOf
  <2>2. worth \in Worths
    BY DEF IInv, Grounds
  <2> QED BY <2>1, <2>2, TotalOf, ReplyAssumption
<1>3. \A a \in seen' : a \in seen \/ a = account'
  BY DEF PollPrivate
<1>4. stage \in Busy => account' \in seen' /\ seen \subseteq seen'
  BY DEF PollPrivate, AccountFree, Busy
<1>5. Grounds'
  BY <1>2, <1>3, <1>4 DEF IInv, Grounds, PollPrivate, AccountFree, Busy
<1> QED BY <1>1, <1>5 DEF IInv

LEMMA DetectStep == ASSUME IInv, Detect PROVE IInv'
<1>1. Received \in Markets
  BY InsertKeeps DEF IInv, Flow, Detect, Insert
<1>2. PICK p \in Looked(Received) : stage' = "sized" /\ cand' = Sized(OppOf(Received, p)) /\ seen' = {account}
  BY DEF Detect
<1>3. cand' \in Opps /\ cand'.volume <= EquityCap(account.equity)
  BY <1>1, <1>2, PairMakesOpp, SizedOpp DEF IInv, Grounds
<1>4. feed' \in Seq(Quotes) /\ Len(feed') <= FEED_CAP
  BY PipelineAssumption DEF IInv, Flow, Detect, Insert
<1>5. Flow'
  BY <1>1, <1>2, <1>3, <1>4 DEF IInv, Flow, Detect, Insert, Busy
<1>6. Grounds'
  BY <1>2, <1>3 DEF IInv, Grounds, Detect, Insert, Busy, known
<1> QED BY <1>5, <1>6 DEF IInv

LEMMA IgnoreStep == ASSUME IInv, Ignore PROVE IInv'
<1>1. Received \in Markets
  BY InsertKeeps DEF IInv, Flow, Ignore, Insert
<1>2. feed' \in Seq(Quotes) /\ Len(feed') <= FEED_CAP
  BY PipelineAssumption DEF IInv, Flow, Ignore, Insert
<1>3. Flow'
  BY <1>1, <1>2 DEF IInv, Flow, Ignore, Insert
<1>4. Grounds'
  BY GroundsKept DEF Ignore, Insert, known
<1> QED BY <1>3, <1>4 DEF IInv

LEMMA ConsultStep == ASSUME IInv, Consult PROVE IInv'
<1>1. Flow'
  BY DEF IInv, Flow, Consult, Busy
<1>2. Grounds'
  BY DEF IInv, Grounds, Consult, Busy, known
<1> QED BY <1>1, <1>2 DEF IInv

LEMMA AcceptStep == ASSUME IInv, Accept PROVE IInv'
<1>1. cand \in Opps /\ now \in Nat
  BY PipelineAssumption DEF IInv, Flow, Accept, Busy
<1>2. cand' \in Opps /\ cand'.stamp = now
  BY <1>1 DEF Accept, Opps
<1>3. /\ cand'.long = cand.long /\ cand'.short = cand.short /\ cand'.volume = cand.volume
      /\ cand'.asks = cand.asks /\ cand'.bids = cand.bids
      /\ cand'.longTs = cand.longTs /\ cand'.shortTs = cand.shortTs
  BY <1>1 DEF Accept, Opps
<1>4. cand' \in Passed
  BY <1>2, <1>3 DEF Accept, Validate, FreshAt, Passed
<1>5. Flow'
  BY <1>2, <1>4 DEF IInv, Flow, Accept, Busy
<1>6. LockedFactsHold'
  BY <1>3 DEF Accept, Validate, LockedFactsHold, TradingOk, NotionalOk, VolumeOk, FundingOk,
              MarginOk, Legs, NetAtLeast, NetTimesAsk, CostOf, Ask, Bid, known
<1>7. WalletOk(cand, status)'
  BY <1>3 DEF Accept, Validate, WalletOk
<1>8. Grounds'
  BY <1>3, <1>6, <1>7 DEF IInv, Grounds, Accept, Busy, known
<1> QED BY <1>5, <1>8 DEF IInv

LEMMA RejectStep == ASSUME IInv, Reject PROVE IInv'
<1>1. Flow'
  BY DEF IInv, Flow, Reject, Busy
<1>2. Grounds'
  BY DEF IInv, Grounds, Reject, Busy, known
<1> QED BY <1>1, <1>2 DEF IInv

LEMMA SendStep == ASSUME IInv, Send PROVE IInv'
<1>1. queue' \in Seq(Passed) /\ Len(queue') <= EXEC_CAP
  BY PipelineAssumption DEF IInv, Flow, Send
<1>2. Flow'
  BY <1>1 DEF IInv, Flow, Send, Busy
<1>3. Grounds'
  BY DEF IInv, Grounds, Send, Busy, known
<1> QED BY <1>2, <1>3 DEF IInv

LEMMA AlertStep == ASSUME IInv, Alert PROVE IInv'
<1>1. Flow'
  BY DEF IInv, Flow, Alert, Busy
<1>2. Grounds'
  BY DEF IInv, Grounds, Alert, Busy, known
<1> QED BY <1>1, <1>2 DEF IInv

LEMMA FetchedStep == ASSUME IInv, Fetched PROVE IInv'
<1>1. market' \in Markets
  <2>1. PICK got \in SUBSET Polled : \E book \in [got -> UNION {Book[e] : e \in got}] :
          /\ \A e \in got : book[e] \in Book[e]
          /\ market' = [e \in Exchange |-> IF e \in got THEN Quote(e, book[e], now) ELSE market[e]]
    BY DEF Fetched
  <2>2. PICK book \in [got -> UNION {Book[e] : e \in got}] :
          /\ \A e \in got : book[e] \in Book[e]
          /\ market' = [e \in Exchange |-> IF e \in got THEN Quote(e, book[e], now) ELSE market[e]]
    BY <2>1
  <2>3. ASSUME NEW e \in got PROVE Quote(e, book[e], now) \in Quotes /\ Quote(e, book[e], now).of = e
    <3>1. e \in Exchange
      BY <2>1, PipelineAssumption
    <3>2. now \in Nat
      BY PipelineAssumption DEF IInv, Flow
    <3>3. Lead(e) \in Nat /\ book[e] \in Book[e]
      BY <2>2, <3>1, LeadNat
    <3> QED BY <3>1, <3>2, <3>3 DEF Quotes, Quote
  <2> QED BY <2>2, <2>3 DEF IInv, Flow, Markets
<1>2. Flow'
  BY <1>1 DEF IInv, Flow, Fetched, Busy
<1>3. Grounds'
  BY DEF IInv, Grounds, Fetched, Busy, known
<1> QED BY <1>2, <1>3 DEF IInv

LEMMA DropStep == ASSUME IInv, Drop PROVE IInv'
<1>1. queue' \in Seq(Passed) /\ Len(queue') <= EXEC_CAP
  BY PipelineAssumption DEF IInv, Flow, Drop
<1>2. Flow'
  BY <1>1 DEF IInv, Flow, Drop
<1>3. Grounds'
  BY GroundsKept DEF Drop, known
<1> QED BY <1>2, <1>3 DEF IInv

LEMMA StartStep == ASSUME IInv, Start PROVE IInv'
<1>1. Head(queue) \in Passed /\ Head(queue).stamp \in Nat
  <2>1. queue \in Seq(Passed) /\ queue # << >>
    BY DEF IInv, Flow, Start
  <2>2. Head(queue) \in Passed
    BY <2>1
  <2> QED BY <2>2 DEF Passed, Opps
<1>2. queue' \in Seq(Passed) /\ Len(queue') <= EXEC_CAP
  BY PipelineAssumption DEF IInv, Flow, Start
<1>3. trade'.opp \in Passed /\ trade'.at \in Nat /\ trade'.at - trade'.opp.stamp <= AGE
  BY <1>1, PipelineAssumption DEF IInv, Flow, Start, TooOld
<1>4. Flow'
  BY <1>2, <1>3 DEF IInv, Flow, Start
<1>5. Grounds'
  BY GroundsKept DEF Start, known
<1> QED BY <1>4, <1>5 DEF IInv

LEMMA StutterStep == ASSUME IInv, UNCHANGED vars PROVE IInv'
<1>1. Grounds'
  BY GroundsKept DEF vars
<1>2. Flow'
  BY DEF IInv, Flow, vars
<1> QED BY <1>1, <1>2 DEF IInv

LEMMA StepIInv == IInv /\ [Next]_vars => IInv'
<1> SUFFICES ASSUME IInv, [Next]_vars PROVE IInv'
  OBVIOUS
<1>1. CASE Next
  BY <1>1, TickStep, WorthStep, PublishStep, UpdateConfigStep, PollPublicStep, PollPrivateStep, DetectStep,
     IgnoreStep, ConsultStep, AcceptStep, RejectStep, SendStep, AlertStep, FetchedStep, DropStep,
     StartStep DEF Next
<1>2. CASE UNCHANGED vars
  BY <1>2, StutterStep
<1> QED BY <1>1, <1>2

LEMMA Invariance == Spec => []IInv
BY InitIInv, StepIInv, PTL DEF Spec

-----------------------------------------------------------------------------
\* The clock, both channels and the stage stay in their bounds (TypeOK).
THEOREM TypeCorrect == Spec => []TypeOK
<1>1. IInv => TypeOK
  BY DEF IInv, Flow, TypeOK, Busy, Legs, Opps
<1> QED BY <1>1, Invariance, PTL

\* No order rests on a quote older than the two limits together, whatever the
\* capacities and however long the aggregator waits for room (QuoteAgeBound).
THEOREM QuotesAreRecent == Spec => []QuoteAgeBound
<1>1. IInv => QuoteAgeBound
  <2> SUFFICES ASSUME IInv, trade # NoTrade
               PROVE  /\ trade.at - trade.opp.longAt <= AgeLimit(trade.opp.long)
                      /\ trade.at - trade.opp.shortAt <= AgeLimit(trade.opp.short)
    BY DEF QuoteAgeBound
  <2> DEFINE o == trade.opp
  <2>1. o \in Passed /\ trade.at \in Nat /\ trade.at - o.stamp <= AGE
    BY DEF IInv, Flow
  <2>2. /\ o.long \in Exchange /\ o.short \in Exchange
        /\ o.longAt \in Nat /\ o.shortAt \in Nat /\ o.longTs \in Nat /\ o.shortTs \in Nat /\ o.stamp \in Nat
        /\ o.longTs <= o.longAt + Lead(o.long) /\ o.shortTs <= o.shortAt + Lead(o.short)
        /\ o.stamp - o.longTs <= STALE /\ o.stamp - o.shortTs <= STALE
    BY <2>1 DEF Passed, Opps, FreshAt
  <2>3. Lead(o.long) \in Nat /\ Lead(o.short) \in Nat
    BY <2>2, LeadNat
  <2> HIDE DEF o
  <2>4. /\ trade.at - o.longAt <= STALE + AGE + Lead(o.long)
        /\ trade.at - o.shortAt <= STALE + AGE + Lead(o.short)
    BY <2>1, <2>2, <2>3, PipelineAssumption
  <2> QED BY <2>4 DEF AgeLimit, o
<1> QED BY <1>1, Invariance, PTL

\* While an opportunity waits for room, nothing speaks against it (LockedFactsHold).
THEOREM FactsStayLocked == Spec => []LockedFactsHold
<1>1. IInv => LockedFactsHold
  BY DEF IInv, Grounds, LockedFactsHold
<1> QED BY <1>1, Invariance, PTL

\* Each check passed on an account in force during this detection, however
\* the poller's replacements fall between the three reads (ChecksOfThisDetection).
THEOREM AccountsOfThisDetection == Spec => []ChecksOfThisDetection
<1>1. IInv => ChecksOfThisDetection
  BY DEF IInv, Grounds, LockedFactsHold, ChecksOfThisDetection, WalletOk, Busy
<1> QED BY <1>1, Invariance, PTL
-----------------------------------------------------------------------------
(* What is missed. *)

LEMMA BestPrices ==
  ASSUME NEW m \in Markets, NEW e \in Exchange, m[e] # NoQuote
  PROVE  BestAsk(m, e) \in Nat /\ BestBid(m, e) \in Nat
<1>1. m[e] \in Quotes /\ m[e].of = e
  BY DEF Markets
<1>2. m[e].book \in Book[e]
  BY <1>1 DEF Quotes
<1>3. IsSide(m[e].book.asks) /\ IsSide(m[e].book.bids)
  BY <1>2, BookAssumption
<1> QED BY <1>3, LevelOf DEF BestAsk, BestBid

\* Two quotes are enough to look at a symbol.
LEMMA TwoAreLookedAt ==
  ASSUME NEW m, NEW e \in Exchange, NEW f \in Exchange, e # f,
         m[e] # NoQuote, m[f] # NoQuote, ~config.blacklisted
  PROVE  Looked(m) = Pairs(m, {x \in Exchange : m[x] # NoQuote})
<1> DEFINE quoting == {x \in Exchange : m[x] # NoQuote}
<1>1. IsFiniteSet(quoting)
  <2>1. quoting \in SUBSET Exchange /\ IsFiniteSet(Exchange)
    BY PipelineAssumption
  <2> QED BY <2>1, FS_Subset
<1>2. {e, f} \in SUBSET quoting
  OBVIOUS
<1>3. Cardinality({e, f}) = 2
  <2>1. Cardinality({e}) = 1 /\ IsFiniteSet({e})
    BY FS_Singleton
  <2>2. Cardinality({e} \cup {f}) = 2
    BY <2>1, FS_AddElement
  <2>3. {e} \cup {f} = {e, f}
    OBVIOUS
  <2> QED BY <2>2, <2>3
<1> HIDE DEF quoting
<1>4. Cardinality(quoting) \in Nat /\ 2 <= Cardinality(quoting)
  BY <1>1, <1>2, <1>3, FS_Subset, FS_CardinalityType
<1>5. ~(Cardinality(quoting) < 2)
  BY <1>4
<1> QED BY <1>5 DEF Looked, quoting

\* Where no stale quote is better than the best pair of fresh ones, every pair
\* that is chosen among all quotes is a best pair of fresh ones.
LEMMA ChosenAreFresh ==
  ASSUME NEW m \in Markets,
         NEW quoting, quoting = {e \in Exchange : m[e] # NoQuote},
         NEW fresh \in SUBSET quoting,
         NEW p \in Pairs(m, fresh),
         \A s \in quoting \ fresh : ~(BestAsk(m, s) <= BestAsk(m, p[1]) \/ BestBid(m, s) >= BestBid(m, p[2]))
  PROVE  p \in Pairs(m, quoting) /\ Pairs(m, quoting) \subseteq Pairs(m, fresh)
<1>1. \A e \in quoting : BestAsk(m, e) \in Nat /\ BestBid(m, e) \in Nat
  BY BestPrices
<1>2. /\ p \in fresh \X fresh
      /\ \A e \in fresh : BestAsk(m, p[1]) <= BestAsk(m, e) /\ BestBid(m, e) <= BestBid(m, p[2])
  BY DEF Pairs
<1>3. p[1] \in quoting /\ p[2] \in quoting /\ p \in quoting \X quoting
  BY <1>2
<1>4. ASSUME NEW e \in quoting
      PROVE  BestAsk(m, p[1]) <= BestAsk(m, e) /\ BestBid(m, e) <= BestBid(m, p[2])
  <2>1. CASE e \in fresh
    BY <1>2, <2>1
  <2>2. CASE e \notin fresh
    BY <1>1, <1>3, <2>2
  <2> QED BY <2>1, <2>2
<1>5. p \in Pairs(m, quoting)
  BY <1>3, <1>4 DEF Pairs
<1>6. ASSUME NEW q \in Pairs(m, quoting) PROVE q \in Pairs(m, fresh)
  <2>1. /\ q \in quoting \X quoting /\ q[1] \in quoting /\ q[2] \in quoting
        /\ \A e \in quoting : BestAsk(m, q[1]) <= BestAsk(m, e) /\ BestBid(m, e) <= BestBid(m, q[2])
    BY DEF Pairs
  <2>2. BestAsk(m, q[1]) <= BestAsk(m, p[1]) /\ BestBid(m, q[2]) >= BestBid(m, p[2])
    BY <1>1, <1>3, <2>1
  <2>3. q[1] \in fresh /\ q[2] \in fresh
    BY <2>1, <2>2
  <2> QED BY <2>1, <2>3 DEF Pairs
<1> QED BY <1>5, <1>6

\* A quote leaves the channel only into detect_sharps.
LEMMA OnlyDetectionReceives ==
  ASSUME IInv, [Next]_vars, feed' # feed, Len(feed') < Len(feed)
  PROVE  Detect \/ Ignore
<1>1. ASSUME NEW e \in Exchange, Publish(e) PROVE FALSE
  <2>1. PICK q : feed' = Append(feed, q)
    BY <1>1 DEF Publish
  <2>2. feed \in Seq(Quotes)
    BY DEF IInv, Flow
  <2>3. Len(feed') = Len(feed) + 1
    BY <2>1, <2>2
  <2> QED BY <2>2, <2>3
<1>2. CASE UNCHANGED vars
  BY <1>2 DEF vars
<1> QED
  BY <1>1, <1>2 DEF Next, Tick, WorthChanges, UpdateConfig, PollPublic, PollPrivate, Consult, Accept, Reject,
     Send, Alert, Fetched, Drop, Start

\* A pair worth trading among the fresh quotes is passed over only for a stale
\* quote with a better price: detect_sharps picks the best over all quotes and
\* looks at their age afterwards.
THEOREM MissedForStale == Spec => MissedOnlyForStale
<1> DEFINE m == market'
           quoting == {e \in Exchange : m[e] # NoQuote}
           fresh == {e \in quoting : now - m[e].ts <= STALE}
           best == Pairs(m, fresh)
           Missed == /\ feed' # feed /\ Len(feed') < Len(feed)
                     /\ stage' = "idle" /\ ~config.blacklisted
                     /\ best # {} /\ \A p \in best : Worth(OppOf(m, p))
           Stale == \E s \in quoting \ fresh, p \in best :
                      BestAsk(m, s) <= BestAsk(m, p[1]) \/ BestBid(m, s) >= BestBid(m, p[2])
<1>1. ASSUME IInv, [Next]_vars, Missed, ~Stale PROVE FALSE
  <2>1. Ignore /\ m = Received /\ m \in Markets
    <3>1. Detect \/ Ignore
      BY <1>1, OnlyDetectionReceives
    <3>2. ~Detect
      BY <1>1 DEF Detect
    <3>3. Ignore /\ m = Received /\ feed # << >>
      BY <3>1, <3>2 DEF Ignore, Insert
    <3> QED BY <1>1, <3>3, InsertKeeps DEF IInv, Flow
  <2>2. PICK p \in best : Worth(OppOf(m, p))
    BY <1>1
  <2>3. p[1] # p[2] /\ p[1] \in quoting /\ p[2] \in quoting
    <3>1. p \in fresh \X fresh
      BY DEF Pairs
    <3>2. OppOf(m, p).long # OppOf(m, p).short
      BY <2>2 DEF Worth, Attractive
    <3> QED BY <3>1, <3>2 DEF OppOf
  <2>4. Looked(m) = Pairs(m, quoting)
    BY <1>1, <2>3, TwoAreLookedAt
  <2>5. p \in Pairs(m, quoting) /\ Pairs(m, quoting) \subseteq best
    <3>1. \A s \in quoting \ fresh : ~(BestAsk(m, s) <= BestAsk(m, p[1]) \/ BestBid(m, s) >= BestBid(m, p[2]))
      BY <1>1
    <3> HIDE DEF m
    <3> QED BY <2>1, <3>1, ChosenAreFresh
  <2>6. PICK q \in Looked(m) : ~Worth(OppOf(m, q))
    BY <2>1, <2>4, <2>5 DEF Ignore
  <2> QED BY <1>1, <2>4, <2>5, <2>6
<1>2. IInv /\ [Next]_vars => (Missed => Stale)
  BY <1>1
<1>3. IInv /\ [Next]_vars => [Missed => Stale]_vars
  BY <1>2
<1> QED BY <1>3, Invariance, PTL DEF Spec, MissedOnlyForStale

-----------------------------------------------------------------------------
(* What an opportunity takes of the two books. *)

Fits(o) ==
  /\ o.volume \in Nat \ {0}
  /\ o.volume <= SafeNotional(o.asks, Asks) /\ o.volume <= SafeNotional(o.bids, Bids)

\* An opportunity as detection leaves it: it fits both books, and its spread is
\* below the cap.
Sane == {o \in Opps : Fits(o) /\ Ask(o) >= 1 /\ Bid(o) >= 1 /\ ~NetAtLeast(o, MAX_NET)}

Fitting ==
  /\ stage \in Busy => cand \in Sane
  /\ queue \in Seq(Sane)
  /\ trade # NoTrade => trade.opp \in Sane /\ trade.orders = OrdersOf(trade.opp)

\* A size that is worth it is not zero, and no more than both books take.
LEMMA WorthFits ==
  ASSUME NEW o \in Opps, account.equity \in Nat, Worth(o)
  PROVE  Fits(Sized(o))
<1> DEFINE a == SafeNotional(o.asks, Asks)
           b == SafeNotional(o.bids, Bids)
           v == VolumeFor(o, account.equity)
<1>1. IsSide(o.asks) /\ IsSide(o.bids)
  BY DEF Opps
<1>2. a \in Nat /\ b \in Nat /\ Ask(o) \in Nat /\ Bid(o) \in Nat
  BY <1>1, SafeIs, LevelOf DEF Ask, Bid
<1>3. SafeVolume(o) = Min({a, b})
  <2>1. Ask(o) # 0 /\ Bid(o) # 0
    BY <1>2 DEF Worth, Attractive
  <2> QED BY <2>1 DEF SafeVolume
<1> HIDE DEF a, b
<1>4. SafeVolume(o) \in Nat /\ SafeVolume(o) <= a /\ SafeVolume(o) <= b
  <2>1. Min({a, b}) \in {a, b} /\ Min({a, b}) <= a /\ Min({a, b}) <= b
    BY <1>2, MinTwo
  <2> QED BY <1>2, <1>3, <2>1
<1>5. EquityCap(account.equity) \in Nat /\ TARGET \in Nat
  BY CapNat, PipelineAssumption
<1>6. v \in Nat /\ v <= SafeVolume(o)
  <2>1. /\ v \in {SafeVolume(o), TARGET, EquityCap(account.equity)}
        /\ v <= SafeVolume(o)
    <3>1. SafeVolume(o) \in Int /\ TARGET \in Int /\ EquityCap(account.equity) \in Int
      BY <1>4, <1>5
    <3> QED BY <3>1, MinThree DEF VolumeFor
  <2> QED BY <1>4, <1>5, <2>1
<1> HIDE DEF v
<1>7. /\ Sized(o).volume = v /\ Sized(o).asks = o.asks /\ Sized(o).bids = o.bids
      /\ Sized(o).long = o.long /\ Sized(o).short = o.short
  BY DEF Sized, Opps, v
<1>8. v # 0
  <2>1. NetTimesAsk(Sized(o)) \in Int /\ Ask(Sized(o)) = Ask(o)
    <3>1. o.long \in Exchange /\ o.short \in Exchange
      BY DEF Opps
    <3>2. RoundTrip[o.long] \in Nat /\ RoundTrip[o.short] \in Nat
      BY <3>1, PipelineAssumption
    <3>3. Ask(Sized(o)) = Ask(o) /\ Bid(Sized(o)) = Bid(o)
      BY <1>7 DEF Ask, Bid
    <3>4. CostOf(Sized(o)) \in Int
      BY <1>7, <3>2 DEF CostOf
    <3> QED BY <1>2, <3>3, <3>4 DEF NetTimesAsk
  <2>2. v * NetTimesAsk(Sized(o)) > MIN_PROFIT * 10000 * Ask(o)
    BY <1>7, <2>1 DEF Worth, Profitable
  <2>3. MIN_PROFIT * 10000 * Ask(o) \in Nat
    <3>1. MIN_PROFIT * 10000 \in Nat
      BY PipelineAssumption
    <3> QED BY <1>2, <3>1
  <2>4. 0 * NetTimesAsk(Sized(o)) = 0
    BY <2>1
  <2> QED BY <2>2, <2>3, <2>4
<1> QED BY <1>2, <1>4, <1>6, <1>7, <1>8 DEF Fits, a, b

\* What detection leaves does not depend on the stamp, nor on the size but for Fits.
LEMMA SaneSame ==
  ASSUME NEW o \in Opps, NEW q \in Opps, Fits(q),
         q.asks = o.asks, q.bids = o.bids, q.long = o.long, q.short = o.short,
         Ask(o) >= 1, Bid(o) >= 1, ~NetAtLeast(o, MAX_NET)
  PROVE  q \in Sane
<1>1. Ask(q) = Ask(o) /\ Bid(q) = Bid(o) /\ CostOf(q) = CostOf(o)
  BY DEF Ask, Bid, CostOf
<1> QED BY <1>1 DEF Sane, NetAtLeast, NetTimesAsk

LEMMA FittingKept ==
  ASSUME IInv, Fitting, [Next]_vars
  PROVE  Fitting'
<1>1. CASE Detect
  <2>1. Received \in Markets
    BY <1>1, InsertKeeps DEF IInv, Flow, Detect, Insert
  <2>2. PICK p \in Looked(Received) : Worth(OppOf(Received, p)) /\ cand' = Sized(OppOf(Received, p))
    BY <1>1 DEF Detect
  <2> DEFINE o == OppOf(Received, p)
  <2>3. o \in Opps /\ account.equity \in Nat
    BY <2>1, PairMakesOpp DEF IInv, Grounds
  <2> HIDE DEF o
  <2>4. Worth(o) /\ cand' = Sized(o)
    BY <2>2 DEF o
  <2>5. Fits(Sized(o)) /\ Sized(o) \in Opps
    BY <2>3, <2>4, WorthFits, SizedOpp
  <2>6. /\ Sized(o).asks = o.asks /\ Sized(o).bids = o.bids
        /\ Sized(o).long = o.long /\ Sized(o).short = o.short
    BY <2>3 DEF Sized, Opps
  <2>7. Ask(o) >= 1 /\ Bid(o) >= 1 /\ ~NetAtLeast(o, MAX_NET)
    BY <2>4 DEF Worth, Attractive
  <2>8. cand' \in Sane
    BY <2>3, <2>4, <2>5, <2>6, <2>7, SaneSame
  <2> QED BY <1>1, <2>8 DEF Fitting, Detect, Insert
<1>2. CASE Accept
  <2>1. cand \in Sane /\ cand \in Opps /\ cand' \in Opps
    <3>1. cand \in Sane /\ stage' = "sending"
      BY <1>2 DEF Fitting, Accept, Busy
    <3>2. cand' \in Opps
      BY <1>2, <3>1, AcceptStep DEF IInv, Flow, Busy
    <3> QED BY <3>1, <3>2 DEF Sane
  <2>2. /\ cand'.volume = cand.volume /\ cand'.asks = cand.asks /\ cand'.bids = cand.bids
        /\ cand'.long = cand.long /\ cand'.short = cand.short
    BY <1>2, <2>1 DEF Accept, Opps
  <2>3. Fits(cand')
    BY <2>1, <2>2 DEF Sane, Fits
  <2>4. cand' \in Sane
    <3>1. Ask(cand) >= 1 /\ Bid(cand) >= 1 /\ ~NetAtLeast(cand, MAX_NET)
      BY <2>1 DEF Sane
    <3> QED BY <2>1, <2>2, <2>3, <3>1, SaneSame
  <2> QED BY <1>2, <2>4 DEF Fitting, Accept
<1>3. CASE Send
  <2>1. cand \in Sane /\ queue' = Append(queue, cand) /\ queue \in Seq(Sane)
    BY <1>3 DEF Fitting, Send, Busy
  <2>2. queue' \in Seq(Sane)
    BY <2>1
  <2> QED BY <1>3, <2>2 DEF Fitting, Send, Busy
<1>4. CASE Drop
  <2>1. queue' \in Seq(Sane)
    BY <1>4 DEF Fitting, Drop
  <2> QED BY <1>4, <2>1 DEF Fitting, Drop
<1>5. CASE Start
  <2>1. queue \in Seq(Sane) /\ queue # << >>
    BY <1>5 DEF Fitting, Start
  <2>2. Head(queue) \in Sane /\ Tail(queue) \in Seq(Sane)
    BY <2>1
  <2>3. trade'.opp = Head(queue) /\ trade'.orders = OrdersOf(Head(queue))
    BY <1>5 DEF Start
  <2>4. trade'.orders = OrdersOf(trade'.opp)
    BY <2>3
  <2> QED BY <1>5, <2>2, <2>3, <2>4 DEF Fitting, Start
<1>6. CASE ~Detect /\ ~Accept /\ ~Send /\ ~Drop /\ ~Start
  <2>1. stage' \in Busy => stage \in Busy /\ cand' = cand
    BY <1>6 DEF Next, Tick, WorthChanges, Publish, UpdateConfig, PollPublic, PollPrivate, Ignore, Insert, Consult,
       Reject, Alert, Fetched, vars, Busy
  <2>2. UNCHANGED <<queue, trade>>
    BY <1>6 DEF Next, Tick, WorthChanges, Publish, UpdateConfig, PollPublic, PollPrivate, Ignore, Insert, Consult,
       Reject, Alert, Fetched, vars
  <2> QED BY <2>1, <2>2 DEF Fitting
<1> QED BY <1>1, <1>2, <1>3, <1>4, <1>5, <1>6

LEMMA FittingInvariance == Spec => [](IInv /\ Fitting)
<1>1. Init => Fitting
  BY DEF Init, Fitting, Busy
<1>2. IInv /\ Fitting /\ [Next]_vars => Fitting'
  BY FittingKept
<1> QED BY <1>1, <1>2, Invariance, PTL DEF Spec

\* What is sent fills completely on both books it was seen on, at an average
\* price within the slippage of the best (FilledWithinSlippage): the size is
\* never more than max_safe_volume_usdt allows, which bounds the average of every
\* smaller order too, though levels may repeat, vanish or be out of order.
THEOREM FillsAsSeen == Spec => []FilledWithinSlippage
<1>1. IInv /\ Fitting => FilledWithinSlippage
  <2> SUFFICES ASSUME IInv, Fitting, stage = "sending"
               PROVE  /\ FillsWithin(cand.asks, cand.volume, Ask(cand), Asks)
                      /\ FillsWithin(cand.bids, cand.volume, Bid(cand), Bids)
    BY DEF FilledWithinSlippage
  <2>1. Fits(cand) /\ IsSide(cand.asks) /\ IsSide(cand.bids)
    BY DEF Fitting, Sane, Busy, Opps
  <2>2. SLIPPAGE \in Nat
    BY PipelineAssumption
  <2>3. FillsWithin(cand.asks, cand.volume, Price(cand.asks[1]), Asks)
    BY <2>1, <2>2, SafeFills DEF Fits
  <2>4. FillsWithin(cand.bids, cand.volume, Price(cand.bids[1]), Bids)
    BY <2>1, <2>2, SafeFills DEF Fits
  <2> QED BY <2>3, <2>4 DEF Ask, Bid
<1> QED BY <1>1, FittingInvariance, PTL

-----------------------------------------------------------------------------
(* How many coins the two legs trade. *)

\* Division is what it is thought to be, for a divisor that varies.
LEMMA DivFacts ==
  ASSUME NEW n \in Nat, NEW d \in Nat, d >= 1
  PROVE  /\ n \div d \in Nat /\ n % d \in Nat /\ n % d < d
         /\ n = d * (n \div d) + (n % d)
<1>1. n \div d \in Int /\ n % d \in 0..(d-1)
  OBVIOUS
<1>2. n = d * (n \div d) + (n % d)
  OBVIOUS
<1>3. n \div d >= 0
  OBVIOUS
<1> QED BY <1>1, <1>2, <1>3

\* The nearest multiple is half a unit away at most.
LEMMA NearestIsNear ==
  ASSUME NEW n \in Nat, NEW d \in Nat, d >= 1
  PROVE  /\ RoundHalfEven(n, d) \in Nat
         /\ 2 * (d * RoundHalfEven(n, d)) <= 2 * n + d
         /\ 2 * n <= 2 * (d * RoundHalfEven(n, d)) + d
<1> DEFINE low == n \div d
           rest == n % d
           r == RoundHalfEven(n, d)
<1>1. low \in Nat /\ rest \in Nat /\ rest < d /\ n = d * low + rest
  BY DivFacts
<1>2. (r = low /\ 2 * rest <= d) \/ (r = low + 1 /\ 2 * rest >= d)
  BY <1>1 DEF RoundHalfEven
<1> HIDE DEF low, rest, r
<1>3. d * low \in Nat /\ d * (low + 1) = d * low + d
  BY <1>1
<1>4. CASE r = low /\ 2 * rest <= d
  <2>1. d * r = d * low /\ r \in Nat
    BY <1>1, <1>4
  <2> QED BY <1>1, <1>3, <1>4, <2>1 DEF r
<1>5. CASE r = low + 1 /\ 2 * rest >= d
  <2>1. d * r = d * low + d /\ r \in Nat
    BY <1>1, <1>3, <1>5
  <2> QED BY <1>1, <1>3, <1>5, <2>1 DEF r
<1> QED BY <1>2, <1>4, <1>5

\* A quantity of whole coins is the number it was rounded to.
LEMMA WholeOfWhole ==
  ASSUME NEW n \in Nat, NEW d \in Nat, d >= 1
  PROVE  Whole(WholeCoins([num |-> n, den |-> d])) = RoundHalfEven(n, d)
<1>1. RoundHalfEven(n, d) \in Nat
  BY NearestIsNear
<1>2. WholeCoins([num |-> n, den |-> d]) = [num |-> RoundHalfEven(n, d), den |-> 1]
  BY DEF WholeCoins
<1> DEFINE r == RoundHalfEven(n, d)
<1>3. Whole([num |-> r, den |-> 1]) = r \div 1
  BY DEF Whole
<1> HIDE DEF r
<1>4. r \div 1 = r
  BY <1>1 DEF r
<1> QED BY <1>2, <1>3, <1>4 DEF r

\* The variants of ExchangeId.
Five == {"Binance", "Bybit", "Gate", "Hyperliquid", "Aster"}

\* The whole coins of a volume at a price, cut off and rounded.
LEMMA WholeQuantity ==
  ASSUME NEW v \in Nat, NEW p \in Nat, p >= 1
  PROVE  /\ Whole(Quantity(v, p)) \in Nat
         /\ p * Whole(Quantity(v, p)) <= 1000 * v
         /\ 1000 * v <= p * Whole(Quantity(v, p)) + p
<1> DEFINE n == 1000 * v
           q == n \div p
<1>1. n \in Nat /\ Whole(Quantity(v, p)) = q
  BY DEF Whole, Quantity
<1> HIDE DEF n
<1>2. q \in Nat /\ n % p \in Nat /\ n % p < p /\ n = p * q + (n % p)
  BY <1>1, DivFacts
<1> HIDE DEF q
<1>3. p * q \in Nat
  BY <1>2
<1> QED BY <1>1, <1>2, <1>3 DEF n

LEMMA RoundedQuantity ==
  ASSUME NEW v \in Nat, NEW p \in Nat, p >= 1
  PROVE  /\ Whole(WholeCoins(Quantity(v, p))) \in Nat
         /\ 2 * (p * Whole(WholeCoins(Quantity(v, p)))) <= 2000 * v + p
         /\ 2000 * v <= 2 * (p * Whole(WholeCoins(Quantity(v, p)))) + p
<1> DEFINE n == 1000 * v
           r == RoundHalfEven(n, p)
<1>1. n \in Nat /\ Quantity(v, p) = [num |-> n, den |-> p]
  BY DEF Quantity
<1> HIDE DEF n
<1>2. r \in Nat /\ 2 * (p * r) <= 2 * n + p /\ 2 * n <= 2 * (p * r) + p
  BY <1>1, NearestIsNear
<1>3. Whole(WholeCoins(Quantity(v, p))) = r
  BY <1>1, WholeOfWhole
<1> HIDE DEF r
<1> QED BY <1>2, <1>3 DEF n

\* What is bought is the volume at the ask, and half a coin more at most.
LEMMA Bought ==
  ASSUME NEW e \in Five, NEW v \in Nat, NEW p \in Nat, p >= 1
  PROVE  /\ Whole(Order(e, Buy, v, p).qty) \in Nat
         /\ 2 * (p * Whole(Order(e, Buy, v, p).qty)) <= 2000 * v + p
<1> DEFINE w == Whole(Order(e, Buy, v, p).qty)
<1>1. CASE e \in {"Binance", "Bybit", "Aster"}
  <2>1. w = Whole(Quantity(v, p))
    BY <1>1 DEF Order
  <2> HIDE DEF w
  <2>2. w \in Nat /\ p * w <= 1000 * v
    BY <2>1, WholeQuantity
  <2>3. p * w \in Nat
    BY <2>2
  <2> QED BY <2>2, <2>3 DEF w
<1>2. CASE e = "Gate"
  <2>1. w = Whole(WholeCoins(Quantity(v, p)))
    BY <1>2 DEF Order
  <2> QED BY <2>1, RoundedQuantity
<1>3. CASE e = "Hyperliquid"
  <2> DEFINE n == 1000000 * v
             d == p * (1000 + 5 * Buy)
  <2>1. n \in Nat /\ d \in Nat /\ d >= 1 /\ d = 1005 * p
    BY DEF Buy
  <2>2. w = Whole(WholeCoins([num |-> n, den |-> d]))
    BY <1>3 DEF Order
  <2> HIDE DEF n, d, w
  <2>3. w = RoundHalfEven(n, d)
    BY <2>1, <2>2, WholeOfWhole
  <2>4. w \in Nat /\ 2 * (d * w) <= 2 * n + d
    BY <2>1, <2>3, NearestIsNear
  <2>5. d * w = 1005 * (p * w) /\ p * w \in Nat
    BY <2>1, <2>4
  <2>6. 2 * (1005 * (p * w)) <= 2000000 * v + 1005 * p
    BY <2>1, <2>4, <2>5 DEF n
  <2>7. 2 * (p * w) <= 2000 * v + p
    <3> DEFINE x == p * w
    <3>1. x \in Nat /\ 2010 * x <= 2000000 * v + 1005 * p
      BY <2>5, <2>6
    <3> HIDE DEF x
    <3>2. 2 * x <= 2000 * v + p
      BY <3>1
    <3> QED BY <3>2 DEF x
  <2> QED BY <2>4, <2>7 DEF w
<1> QED BY <1>1, <1>2, <1>3 DEF Five

\* What is sold is the volume at the bid, and a coin less at most.
LEMMA Sold ==
  ASSUME NEW e \in Five, NEW v \in Nat, NEW p \in Nat, p >= 1
  PROVE  /\ Whole(Order(e, Sell, v, p).qty) \in Nat
         /\ 1000 * v <= p * Whole(Order(e, Sell, v, p).qty) + p
<1> DEFINE w == Whole(Order(e, Sell, v, p).qty)
<1>1. CASE e \in {"Binance", "Bybit", "Aster"}
  <2>1. w = Whole(Quantity(v, p))
    BY <1>1 DEF Order
  <2> QED BY <2>1, WholeQuantity
<1>2. CASE e = "Gate"
  <2>1. w = Whole(WholeCoins(Quantity(v, p)))
    BY <1>2 DEF Order
  <2> HIDE DEF w
  <2>2. w \in Nat /\ 2000 * v <= 2 * (p * w) + p
    BY <2>1, RoundedQuantity
  <2>3. p * w \in Nat
    BY <2>2
  <2> QED BY <2>2, <2>3 DEF w
<1>3. CASE e = "Hyperliquid"
  <2> DEFINE n == 1000000 * v
             d == p * (1000 + 5 * Sell)
  <2>1. n \in Nat /\ d \in Nat /\ d >= 1 /\ d = 995 * p
    BY DEF Sell
  <2>2. w = Whole(WholeCoins([num |-> n, den |-> d]))
    BY <1>3 DEF Order
  <2> HIDE DEF n, d, w
  <2>3. w = RoundHalfEven(n, d)
    BY <2>1, <2>2, WholeOfWhole
  <2>4. w \in Nat /\ 2 * n <= 2 * (d * w) + d
    BY <2>1, <2>3, NearestIsNear
  <2>5. d * w = 995 * (p * w) /\ p * w \in Nat
    BY <2>1, <2>4
  <2>6. 1000 * v <= p * w + p
    <3> DEFINE x == p * w
    <3>1. x \in Nat /\ 2000000 * v <= 1990 * x + 995 * p
      BY <2>1, <2>4, <2>5 DEF n
    <3> HIDE DEF x
    <3>2. 1000 * v <= x + p
      BY <3>1
    <3> QED BY <3>2 DEF x
  <2> QED BY <2>4, <2>6 DEF w
<1> QED BY <1>1, <1>2, <1>3 DEF Five

\* Coins bought at a and sold at b for the same volume, b no more than k / 10000
\* of a.
LEMMA Balance ==
  ASSUME NEW a \in Nat, NEW b \in Nat, NEW v \in Nat, NEW k \in Nat,
         NEW bought \in Nat, NEW sold \in Nat,
         a >= 1, k >= 10000, 10000 * b <= k * a,
         2 * (a * bought) <= 2000 * v + a, 1000 * v <= b * sold + b
  PROVE  10000 * bought <= k * (sold + 2)
<1> DEFINE s == sold + 1
           kas == (k * a) * s
           ab == a * bought
           bs == b * s
<1>1. (10000 * b) * s <= kas
  <2>1. k * a - 10000 * b \in Nat /\ s \in Nat
    OBVIOUS
  <2>2. (k * a - 10000 * b) * s \in Nat
    BY <2>1
  <2>3. k * a \in Int /\ 10000 * b \in Int
    OBVIOUS
  <2> DEFINE x == k * a
             y == 10000 * b
  <2>4. (x - y) * s = x * s - y * s
    <3>1. x \in Int /\ y \in Int /\ s \in Int
      BY <2>1, <2>3
    <3> HIDE DEF x, y, s
    <3> QED BY <3>1
  <2>5. x * s \in Int /\ y * s \in Int
    BY <2>1, <2>3
  <2> QED BY <2>2, <2>4, <2>5
<1>2. (10000 * b) * s = 10000 * bs /\ bs = b * sold + b /\ bs \in Nat
  OBVIOUS
<1>3. ab \in Nat /\ kas \in Nat /\ k * a \in Nat /\ k * a >= 10000 * a
  <2>1. k - 10000 \in Nat
    OBVIOUS
  <2>2. (k - 10000) * a \in Nat /\ (k - 10000) * a = k * a - 10000 * a
    BY <2>1
  <2> QED BY <2>2
<1>4. 10000 * ab <= kas + k * a
  <2> DEFINE ka == k * a
  <2>1. ka \in Nat /\ ka >= 10000 * a
    BY <1>3
  <2>2. 10000 * bs <= kas /\ bs \in Nat /\ ab \in Nat /\ kas \in Nat
    BY <1>1, <1>2, <1>3
  <2>3. 2 * ab <= 2000 * v + a /\ 1000 * v <= bs
    BY <1>2
  <2> HIDE DEF ka, bs, kas, ab
  <2>4. 10000 * ab <= kas + ka
    BY <2>1, <2>2, <2>3
  <2> QED BY <2>4 DEF ka
<1>5. kas + k * a = a * (k * (sold + 2)) /\ 10000 * ab = a * (10000 * bought)
  OBVIOUS
<1> DEFINE l == 10000 * bought
           r == k * (sold + 2)
<1>6. l \in Nat /\ r \in Nat /\ a * l <= a * r
  BY <1>4, <1>5
<1> HIDE DEF l, r
<1>7. l <= r
  <2> SUFFICES ASSUME l > r PROVE FALSE
    BY <1>6
  <2>1. l - r - 1 \in Nat
    BY <1>6
  <2>2. a * (l - r - 1) \in Nat /\ a * (l - r - 1) = a * l - a * r - a
    BY <1>6, <2>1
  <2> QED BY <1>6, <2>2
<1> QED BY <1>7 DEF l, r
\* w whole coins were bought, or sold, for v USDT at the price p.
BoughtFor(w, v, p) == w \in Nat /\ 2 * (p * w) <= 2000 * v + p
SoldFor(w, v, p) == w \in Nat /\ 1000 * v <= p * w + p

LEMMA LegsFor ==
  ASSUME NEW e \in Five, NEW v \in Nat, NEW p \in Nat, p >= 1
  PROVE  /\ BoughtFor(Whole(Order(e, Buy, v, p).qty), v, p)
         /\ SoldFor(Whole(Order(e, Sell, v, p).qty), v, p)
BY Bought, Sold DEF BoughtFor, SoldFor

\* More coins are bought than sold by what the sanity cap on the spread and the
\* rounding explain (LegsBalanced): each leg is sized at its own price for one
\* volume, and the two prices were within the cap when the pair was detected.
THEOREM LegsStayBalanced == Spec => []LegsBalanced
<1>1. IInv /\ Fitting => LegsBalanced
  <2> SUFFICES ASSUME IInv, Fitting, trade # NoTrade
               PROVE  10000 * Whole(trade.orders.long.qty)
                        <= (10000 + MAX_NET + CostOf(trade.opp)) * (Whole(trade.orders.short.qty) + 2)
    BY DEF LegsBalanced
  <2> DEFINE o == trade.opp
             a == Ask(o)
             b == Bid(o)
             k == 10000 + MAX_NET + CostOf(o)
             bought == Whole(trade.orders.long.qty)
             sold == Whole(trade.orders.short.qty)
  <2>1. o \in Opps /\ Fits(o) /\ a >= 1 /\ b >= 1 /\ ~NetAtLeast(o, MAX_NET)
    BY DEF Fitting, Sane
  <2>2. /\ trade.orders.long = Order(o.long, Buy, o.volume, a)
        /\ trade.orders.short = Order(o.short, Sell, o.volume, b)
    BY DEF Fitting, OrdersOf
  <2>3. o.volume \in Nat /\ o.long \in Exchange /\ o.short \in Exchange
    BY <2>1 DEF Fits, Opps
  <2>4. o.long \in Five /\ o.short \in Five
    BY <2>3, PipelineAssumption DEF Five
  <2>5. a \in Nat /\ b \in Nat
    <3>1. IsSide(o.asks) /\ IsSide(o.bids)
      BY <2>1 DEF Opps
    <3> QED BY <3>1, LevelOf DEF Ask, Bid
  <2>6. CostOf(o) \in Nat /\ MAX_NET \in Nat
    <3>1. RoundTrip[o.long] \in Nat /\ RoundTrip[o.short] \in Nat
      BY <2>3, PipelineAssumption
    <3> QED BY <3>1, PipelineAssumption DEF CostOf
  <2>7. k \in Nat /\ k >= 10000 /\ 10000 * b <= k * a
    <3> DEFINE c == CostOf(o)
    <3>1. ~((b - a) * 10000 - c * a >= MAX_NET * a)
      BY <2>1 DEF NetAtLeast, NetTimesAsk
    <3>2. k = 10000 + MAX_NET + c
      OBVIOUS
    <3>3. c \in Nat /\ MAX_NET \in Nat
      BY <2>6
    <3> HIDE DEF a, b, c, k, o
    <3>4. c * a \in Nat /\ MAX_NET * a \in Nat /\ k * a = 10000 * a + MAX_NET * a + c * a
      BY <2>5, <3>2, <3>3
    <3> QED BY <2>5, <3>1, <3>2, <3>3, <3>4
  <2>8. bought \in Nat /\ 2 * (a * bought) <= 2000 * o.volume + a
    <3>1. a >= 1
      BY <2>1
    <3>2. bought = Whole(Order(o.long, Buy, o.volume, a).qty)
      BY <2>2
    <3> HIDE DEF a, o, bought
    <3>3. BoughtFor(bought, o.volume, a)
      BY <2>3, <2>4, <2>5, <3>1, <3>2, LegsFor, Zenon
    <3> QED BY <3>3 DEF BoughtFor
  <2>9. sold \in Nat /\ 1000 * o.volume <= b * sold + b
    <3>1. b >= 1
      BY <2>1
    <3>2. sold = Whole(Order(o.short, Sell, o.volume, b).qty)
      BY <2>2
    <3> HIDE DEF b, o, sold
    <3>3. SoldFor(sold, o.volume, b)
      BY <2>3, <2>4, <2>5, <3>1, <3>2, LegsFor, Zenon
    <3> QED BY <3>3 DEF SoldFor
  <2> HIDE DEF a, b, k, bought, sold, o
  <2>10. a >= 1
    BY <2>1
  <2>11. 10000 * bought <= k * (sold + 2)
    BY <2>3, <2>5, <2>7, <2>8, <2>9, <2>10, Balance
  <2> QED BY <2>11 DEF bought, sold, k, o
<1> QED BY <1>1, FittingInvariance, PTL

=============================================================================
