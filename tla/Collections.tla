----------------------------- MODULE Collections -----------------------------
(***************************************************************************)
(* What the proofs need to know of sets of numbers, of recursions and sums   *)
(* over finite sets, of sums along sequences, and of sequences of records    *)
(* that bear a number.                                                      *)
(*                                                                         *)
(* A recursion over the subsets of a finite set, as the folds of the         *)
(* community modules are, is the function CHOOSE makes of its equation:      *)
(* FoldExists shows that there is one, and what holds of every solution      *)
(* (FoldTyped, FoldUnique, SumsOf) then holds of the fold.                   *)
(***************************************************************************)
EXTENDS Integers, SequencesExt, FiniteSetTheorems, SequenceTheorems, WellFoundedInduction, TLAPS

-----------------------------------------------------------------------------
(* Numbers. *)

LEMMA Minimum ==
  ASSUME NEW T, T \subseteq Nat, T # {}
  PROVE  Min(T) \in T /\ \A t \in T : Min(T) <= t
<1> DEFINE R == {ss \in Nat \X Nat : ss[1] < ss[2]}
<1>1. IsWellFoundedOn(R, Nat)
  BY NatLessThanWellFounded DEF OpToRel
<1> HIDE DEF R
<1>2. PICK m \in T : \A t \in T : ~(<<t, m>> \in R)
  BY <1>1, WFMin
<1>3. ASSUME NEW t \in T PROVE m <= t
  <2>1. <<t, m>> \in Nat \X Nat /\ ~(<<t, m>> \in R)
    BY <1>2
  <2>2. ~(t < m)
    BY <2>1 DEF R
  <2> QED BY <2>2
<1> QED BY <1>3 DEF Min

\* A set of naturals with zero and with every successor holds them all.
LEMMA Counting ==
  ASSUME NEW K, K \subseteq Nat, 0 \in K, \A k \in K : k + 1 \in K
  PROVE  K = Nat
<1> SUFFICES ASSUME Nat \ K # {} PROVE FALSE
  OBVIOUS
<1>1. Min(Nat \ K) \in Nat \ K /\ \A t \in Nat \ K : Min(Nat \ K) <= t
  BY Minimum
<1>2. Min(Nat \ K) - 1 \in Nat /\ ~(Min(Nat \ K) <= Min(Nat \ K) - 1)
  BY <1>1
<1>3. Min(Nat \ K) - 1 \in K
  BY <1>1, <1>2
<1> QED BY <1>1, <1>3

\* There is a k-th lowest of some numbers.
LEMMA Ranked ==
  ASSUME NEW T, T \subseteq Nat, IsFiniteSet(T), NEW k \in 1..Cardinality(T)
  PROVE  \E p \in T : Cardinality({q \in T : q < p}) = k - 1
<1> DEFINE Under(p) == {q \in T : q < p}
           K == {j \in Nat : j < Cardinality(T) => \E p \in T : Cardinality(Under(p)) = j}
<1>1. Cardinality(T) \in Nat /\ \A p \in T : IsFiniteSet(Under(p)) /\ Cardinality(Under(p)) \in Nat
  BY FS_Subset, FS_CardinalityType
<1>2. 0 \in K
  <2>1. ASSUME 0 < Cardinality(T) PROVE \E p \in T : Cardinality(Under(p)) = 0
    <3>1. T # {}
      <4>1. Cardinality(T) # 0
        BY <2>1
      <4> QED BY <4>1, FS_EmptySet
    <3>2. PICK m \in T : \A t \in T : m <= t
      BY <3>1, Minimum
    <3>3. Under(m) = {}
      <4>1. ASSUME NEW t \in T PROVE ~(t < m)
        <5>1. t \in Nat /\ m \in Nat /\ m <= t
          BY <3>2
        <5> QED BY <5>1
      <4> QED BY <4>1
    <3> QED BY <3>2, <3>3, FS_EmptySet
  <2> QED BY <2>1
<1>3. ASSUME NEW j \in K PROVE j + 1 \in K
  <2>1. ASSUME j + 1 < Cardinality(T) PROVE \E p \in T : Cardinality(Under(p)) = j + 1
    <3>1. j \in Nat /\ j < Cardinality(T)
      BY <1>1, <2>1
    <3>2. PICK p \in T : Cardinality(Under(p)) = j
      BY <3>1
    <3> DEFINE U == {q \in T : p < q}
    <3>3. IsFiniteSet(Under(p) \cup {p}) /\ Cardinality(Under(p) \cup {p}) = j + 1
      <4>1. p \notin Under(p)
        OBVIOUS
      <4> HIDE DEF Under
      <4> QED BY <1>1, <3>2, <4>1, FS_AddElement
    <3>4. U # {}
      <4> SUFFICES ASSUME U = {} PROVE FALSE
        OBVIOUS
      <4>1. T = Under(p) \cup {p}
        <5>1. ASSUME NEW t \in T PROVE t < p \/ t = p
          <6>1. t \in Nat /\ p \in Nat /\ ~(p < t)
            OBVIOUS
          <6> QED BY <6>1
        <5> QED BY <5>1
      <4>2. Cardinality(T) = j + 1
        BY <3>3, <4>1
      <4> QED BY <2>1, <3>1, <4>2
    <3>5. U \subseteq Nat
      OBVIOUS
    <3>6. Min(U) \in U /\ \A t \in U : Min(U) <= t
      <4> HIDE DEF U
      <4> QED BY <3>4, <3>5, Minimum
    <3> DEFINE r == Min(U)
    <3>7. r \in T /\ p < r /\ \A t \in T : p < t => r <= t
      BY <3>6
    <3> HIDE DEF r
    <3>8. Under(r) = Under(p) \cup {p}
      <4>1. ASSUME NEW t \in T PROVE t < r <=> t < p \/ t = p
        <5>1. t \in Nat /\ p \in Nat /\ r \in Nat
          BY <3>7
        <5> QED BY <3>7, <5>1
      <4> QED BY <4>1
    <3> QED BY <3>3, <3>7, <3>8
  <2> QED BY <2>1
<1>4. K \subseteq Nat
  OBVIOUS
<1> HIDE DEF K
<1>5. K = Nat
  BY <1>2, <1>3, <1>4, Counting
<1>6. k - 1 \in K /\ k - 1 < Cardinality(T)
  BY <1>1, <1>5
<1> QED BY <1>6 DEF K

-----------------------------------------------------------------------------
(* Recursions over a finite set. *)

\* What a fold over the subsets of S is, when it takes c[s] from s.
Folded(h, S, c, base, F) ==
  h = [s \in SUBSET S |-> IF s = {} THEN base ELSE F[<<h[s \ {c[s]}], c[s]>>]]

Chooses(c, S) == \A s \in SUBSET S : s # {} => c[s] \in s

LEMMA FoldExists ==
  ASSUME NEW S, IsFiniteSet(S), NEW T, NEW base \in T, NEW c, Chooses(c, S),
         NEW F \in [T \X S -> T]
  PROVE  \E h \in [SUBSET S -> T] : Folded(h, S, c, base, F)
<1> DEFINE Next(h) == [s \in SUBSET S |-> IF s = {} THEN base ELSE F[<<h[s \ {c[s]}], c[s]>>]]
           Upto(h, k) == \A s \in SUBSET S : Cardinality(s) <= k => h[s] = Next(h)[s]
           K == {k \in Nat : \E h \in [SUBSET S -> T] : Upto(h, k)}
<1>1. ASSUME NEW h \in [SUBSET S -> T] PROVE Next(h) \in [SUBSET S -> T]
  BY DEF Chooses
<1>2. ASSUME NEW s \in SUBSET S, s # {}
      PROVE  /\ s \ {c[s]} \in SUBSET S /\ c[s] \in s /\ IsFiniteSet(s)
             /\ Cardinality(s) \in Nat /\ Cardinality(s \ {c[s]}) = Cardinality(s) - 1
  <2>1. c[s] \in s /\ IsFiniteSet(s)
    BY <1>2, FS_Subset DEF Chooses
  <2> QED BY <2>1, FS_RemoveElement, FS_CardinalityType
<1>3. 0 \in K
  <2> DEFINE h0 == [s \in SUBSET S |-> base]
  <2>1. h0 \in [SUBSET S -> T]
    OBVIOUS
  <2>2. ASSUME NEW s \in SUBSET S, Cardinality(s) <= 0 PROVE h0[s] = Next(h0)[s]
    <3>1. IsFiniteSet(s) /\ Cardinality(s) \in Nat
      BY FS_Subset, FS_CardinalityType
    <3>2. s = {}
      BY <2>2, <3>1, FS_EmptySet
    <3> QED BY <3>2
  <2>3. Upto(h0, 0)
    BY <2>2
  <2> HIDE DEF Upto, h0
  <2> QED BY <2>1, <2>3
<1>4. ASSUME NEW k \in K PROVE k + 1 \in K
  <2>1. PICK h \in [SUBSET S -> T] : Upto(h, k)
    OBVIOUS
  <2> DEFINE g == Next(h)
  <2>2. g \in [SUBSET S -> T]
    BY <1>1
  <2>3. ASSUME NEW s \in SUBSET S, Cardinality(s) <= k + 1 PROVE g[s] = Next(g)[s]
    <3>1. CASE s = {}
      BY <3>1
    <3>2. CASE s # {}
      <4>1. /\ s \ {c[s]} \in SUBSET S /\ Cardinality(s) \in Nat
            /\ Cardinality(s \ {c[s]}) = Cardinality(s) - 1 /\ k \in Nat
        BY <1>2, <3>2
      <4>2. Cardinality(s \ {c[s]}) <= k
        BY <2>3, <4>1
      <4>3. g[s \ {c[s]}] = h[s \ {c[s]}]
        BY <2>1, <4>1, <4>2
      <4> QED BY <3>2, <4>3
    <3> QED BY <3>1, <3>2
  <2>4. Upto(g, k + 1)
    BY <2>3
  <2>5. k + 1 \in Nat
    OBVIOUS
  <2> HIDE DEF Upto, g
  <2> QED BY <2>2, <2>4, <2>5
<1>5. K \subseteq Nat
  OBVIOUS
<1> HIDE DEF K
<1>6. Cardinality(S) \in K
  <2>1. K = Nat
    BY <1>3, <1>4, <1>5, Counting
  <2> QED BY <2>1, FS_CardinalityType
<1> USE DEF K
<1>7. PICK h \in [SUBSET S -> T] : Upto(h, Cardinality(S))
  BY <1>6
<1>8. ASSUME NEW s \in SUBSET S PROVE h[s] = Next(h)[s]
  BY <1>7, FS_Subset
<1>9. h = Next(h)
  BY <1>1, <1>8
<1> QED BY <1>9 DEF Folded

\* Two folds agree where they take the same elements and do the same with them.
LEMMA FoldUnique ==
  ASSUME NEW S, NEW R, NEW Q \in SUBSET (S \cap R), IsFiniteSet(Q),
         NEW c, NEW d, Chooses(c, Q), \A s \in SUBSET Q : c[s] = d[s],
         NEW base, NEW F, NEW G, NEW h, NEW g,
         Folded(h, S, c, base, F), Folded(g, R, d, base, G),
         \A s \in SUBSET Q, x \in Q : F[<<h[s], x>>] = G[<<h[s], x>>]
  PROVE  h[Q] = g[Q]
<1> DEFINE K == {k \in Nat : \A s \in SUBSET Q : Cardinality(s) = k => h[s] = g[s]}
<1>1. ASSUME NEW s \in SUBSET Q
      PROVE  /\ s \in SUBSET S /\ s \in SUBSET R /\ IsFiniteSet(s) /\ Cardinality(s) \in Nat
             /\ h[s] = IF s = {} THEN base ELSE F[<<h[s \ {c[s]}], c[s]>>]
             /\ g[s] = IF s = {} THEN base ELSE G[<<g[s \ {c[s]}], c[s]>>]
             /\ s # {} => /\ c[s] \in s /\ s \ {c[s]} \in SUBSET Q
                          /\ Cardinality(s \ {c[s]}) = Cardinality(s) - 1
  <2>1. s \in SUBSET S /\ s \in SUBSET R /\ IsFiniteSet(s) /\ c[s] = d[s]
    BY FS_Subset
  <2>2. h[s] = IF s = {} THEN base ELSE F[<<h[s \ {c[s]}], c[s]>>]
    BY <2>1 DEF Folded
  <2>3. g[s] = IF s = {} THEN base ELSE G[<<g[s \ {c[s]}], c[s]>>]
    <3>1. g[s] = IF s = {} THEN base ELSE G[<<g[s \ {d[s]}], d[s]>>]
      BY <2>1 DEF Folded
    <3> QED BY <2>1, <3>1
  <2>4. s # {} => c[s] \in s
    BY DEF Chooses
  <2> QED BY <2>1, <2>2, <2>3, <2>4, FS_RemoveElement, FS_CardinalityType
<1>2. 0 \in K
  <2>1. ASSUME NEW s \in SUBSET Q, Cardinality(s) = 0 PROVE h[s] = g[s]
    <3>1. s = {}
      BY <1>1, <2>1, FS_EmptySet
    <3> QED BY <1>1, <3>1
  <2> QED BY <2>1
<1>3. ASSUME NEW k \in K PROVE k + 1 \in K
  <2>1. ASSUME NEW s \in SUBSET Q, Cardinality(s) = k + 1 PROVE h[s] = g[s]
    <3>1. k \in Nat /\ s # {}
      <4>1. Cardinality(s) # 0 /\ k \in Nat
        BY <2>1
      <4> QED BY <4>1, FS_EmptySet
    <3>2. /\ s \ {c[s]} \in SUBSET Q /\ c[s] \in Q
          /\ Cardinality(s \ {c[s]}) = Cardinality(s) - 1
      BY <1>1, <3>1
    <3>3. h[s \ {c[s]}] = g[s \ {c[s]}]
      <4>1. Cardinality(s \ {c[s]}) = k
        BY <2>1, <3>1, <3>2
      <4> QED BY <3>2, <4>1
    <3>4. h[s] = F[<<h[s \ {c[s]}], c[s]>>] /\ g[s] = G[<<g[s \ {c[s]}], c[s]>>]
      BY <1>1, <3>1
    <3>5. F[<<h[s \ {c[s]}], c[s]>>] = G[<<h[s \ {c[s]}], c[s]>>]
      BY <3>2
    <3> QED BY <3>3, <3>4, <3>5
  <2> QED BY <2>1
<1>4. K \subseteq Nat
  OBVIOUS
<1> HIDE DEF K
<1>5. K = Nat
  BY <1>2, <1>3, <1>4, Counting
<1>6. Cardinality(Q) \in K
  BY <1>5, FS_CardinalityType
<1> QED BY <1>6 DEF K

LEMMA FoldTyped ==
  ASSUME NEW S, IsFiniteSet(S), NEW T, NEW base \in T, NEW c, Chooses(c, S),
         NEW F, \A t \in T, x \in S : F[<<t, x>>] \in T,
         NEW h, Folded(h, S, c, base, F)
  PROVE  h \in [SUBSET S -> T]
<1>1. PICK g \in [SUBSET S -> T] : Folded(g, S, c, base, [p \in T \X S |-> F[p]])
  <2>1. [p \in T \X S |-> F[p]] \in [T \X S -> T]
    OBVIOUS
  <2> HIDE DEF Folded
  <2> QED BY <2>1, FoldExists
<1>2. Folded(g, S, c, base, F)
  <2>1. ASSUME NEW s \in SUBSET S, s # {} PROVE <<g[s \ {c[s]}], c[s]>> \in T \X S
    BY <2>1 DEF Chooses
  <2> QED BY <1>1, <2>1 DEF Folded
<1>3. ASSUME NEW s \in SUBSET S PROVE h[s] = g[s]
  <2>1. IsFiniteSet(s) /\ Chooses(c, s) /\ s \in SUBSET (S \cap S)
    BY FS_Subset DEF Chooses
  <2> QED BY <1>2, <2>1, FoldUnique
<1>4. h = [s \in SUBSET S |-> h[s]]
  BY DEF Folded
<1> QED BY <1>3, <1>4

-----------------------------------------------------------------------------
(* Sums of natural numbers. *)

\* h[s] is the sum of f over s, whichever element is taken first.
Sums(h, S, f) ==
  /\ h \in [SUBSET S -> Nat] /\ h[{}] = 0
  /\ \A s \in SUBSET S : \A x \in s : h[s] = h[s \ {x}] + f[x]

\* A recursion that takes the element c[s] of each set s.
Summing(h, S, c, f) ==
  h = [s \in SUBSET S |-> IF s = {} THEN 0 ELSE f[c[s]] + h[s \ {c[s]}]]

\* A recursion that takes some element of a set sums over all of it.
LEMMA SumsExist ==
  ASSUME NEW S, IsFiniteSet(S), NEW f, \A x \in S : f[x] \in Nat,
         NEW c, Chooses(c, S)
  PROVE  \E h : Summing(h, S, c, f)
<1> DEFINE F == [p \in Nat \X S |-> f[p[2]] + p[1]]
<1>1. F \in [Nat \X S -> Nat]
  OBVIOUS
<1>2. PICK h \in [SUBSET S -> Nat] : Folded(h, S, c, 0, F)
  <2> HIDE DEF F, Folded
  <2> QED BY <1>1, FoldExists
<1>3. ASSUME NEW s \in SUBSET S, s # {}
      PROVE  F[<<h[s \ {c[s]}], c[s]>>] = f[c[s]] + h[s \ {c[s]}]
  BY <1>3 DEF Chooses
<1>4. h = [s \in SUBSET S |-> IF s = {} THEN 0 ELSE f[c[s]] + h[s \ {c[s]}]]
  <2>1. h = [s \in SUBSET S |-> IF s = {} THEN 0 ELSE F[<<h[s \ {c[s]}], c[s]>>]]
    BY <1>2 DEF Folded
  <2> HIDE DEF F
  <2> QED BY <1>3, <2>1
<1> QED BY <1>4 DEF Summing

\* What holds of the empty set, and of a set when it holds without one of its
\* elements, holds of every subset of a finite set.
LEMMA FiniteSubsets ==
  ASSUME NEW S, IsFiniteSet(S), NEW K, {} \in K,
         \A s \in SUBSET S : (\E x \in s : s \ {x} \in K) => s \in K
  PROVE  SUBSET S \subseteq K
<1> DEFINE N == {k \in Nat : \A s \in SUBSET S : Cardinality(s) = k => s \in K}
<1>1. \A s \in SUBSET S : IsFiniteSet(s) /\ Cardinality(s) \in Nat
  BY FS_Subset, FS_CardinalityType
<1>2. 0 \in N
  <2>1. ASSUME NEW s \in SUBSET S, Cardinality(s) = 0 PROVE s \in K
    <3>1. s = {}
      BY <1>1, <2>1, FS_EmptySet
    <3> QED BY <3>1
  <2> QED BY <2>1
<1>3. ASSUME NEW k \in N PROVE k + 1 \in N
  <2>1. ASSUME NEW s \in SUBSET S, Cardinality(s) = k + 1 PROVE s \in K
    <3>1. Cardinality(s) # 0 /\ k \in Nat
      BY <2>1
    <3>2. PICK x \in s : TRUE
      BY <3>1, FS_EmptySet
    <3>3. s \ {x} \in SUBSET S /\ Cardinality(s \ {x}) = Cardinality(s) - 1
      BY <1>1, FS_RemoveElement
    <3>4. Cardinality(s \ {x}) = k
      BY <2>1, <3>1, <3>3
    <3> QED BY <3>3, <3>4
  <2> QED BY <2>1
<1>4. N \subseteq Nat
  OBVIOUS
<1> HIDE DEF N
<1>5. N = Nat
  BY <1>2, <1>3, <1>4, Counting
<1> QED BY <1>1, <1>5 DEF N

LEMMA SumsOf ==
  ASSUME NEW S, IsFiniteSet(S), NEW f, \A x \in S : f[x] \in Nat,
         NEW c, Chooses(c, S),
         NEW h, Summing(h, S, c, f)
  PROVE  Sums(h, S, f)
<1>0. h = [s \in SUBSET S |-> IF s = {} THEN 0 ELSE f[c[s]] + h[s \ {c[s]}]]
  BY DEF Summing
<1>1. h \in [SUBSET S -> Nat]
  <2> DEFINE V == Nat \cup {h[s] : s \in SUBSET S}
             F == [p \in V \X S |-> f[p[2]] + p[1]]
  <2>1. ASSUME NEW s \in SUBSET S, s # {}
        PROVE  F[<<h[s \ {c[s]}], c[s]>>] = f[c[s]] + h[s \ {c[s]}]
    BY <2>1 DEF Chooses
  <2>2. \A t \in Nat, x \in S : F[<<t, x>>] \in Nat
    OBVIOUS
  <2> HIDE DEF F
  <2>3. Folded(h, S, c, 0, F)
    BY <1>0, <2>1 DEF Folded
  <2> QED BY <2>2, <2>3, FoldTyped
<1>2. h[{}] = 0
  BY <1>0
<1> DEFINE K == {s \in SUBSET S : \A x \in s : h[s] = h[s \ {x}] + f[x]}
<1>3. ASSUME NEW s \in SUBSET S, NEW x \in s
      PROVE  c[s] \in s /\ h[s] = f[c[s]] + h[s \ {c[s]}]
  BY <1>0 DEF Chooses
<1>4. {} \in K
  OBVIOUS
<1> DEFINE N == {k \in Nat : \A s \in SUBSET S : Cardinality(s) = k => s \in K}
<1>5. \A s \in SUBSET S : IsFiniteSet(s) /\ Cardinality(s) \in Nat
  BY FS_Subset, FS_CardinalityType
<1>6. 0 \in N
  BY <1>4, <1>5, FS_EmptySet
<1>7. ASSUME NEW k \in N PROVE k + 1 \in N
  <2>1. ASSUME NEW s \in SUBSET S, Cardinality(s) = k + 1, NEW x \in s
        PROVE  h[s] = h[s \ {x}] + f[x]
    <3> DEFINE y == c[s]
    <3>1. /\ y \in s /\ h[s] = f[y] + h[s \ {y}] /\ f[y] \in Nat
          /\ s \ {y} \in SUBSET S /\ h[s \ {y}] \in Nat
      <4>1. y \in s /\ h[s] = f[y] + h[s \ {y}]
        BY <1>3
      <4>2. s \ {y} \in SUBSET S /\ y \in S
        BY <4>1
      <4>3. h[s \ {y}] \in Nat
        BY <1>1, <4>2
      <4> QED BY <4>1, <4>2, <4>3
    <3> HIDE DEF y
    <3>2. CASE x = y
      BY <3>1, <3>2
    <3>3. CASE x # y
      <4>1. /\ s \ {x} \in SUBSET S /\ s \ {y} \in SUBSET S /\ k \in Nat
            /\ Cardinality(s \ {x}) = Cardinality(s) - 1
            /\ Cardinality(s \ {y}) = Cardinality(s) - 1
        BY <1>5, <3>1, FS_RemoveElement
      <4>2. s \ {x} \in K /\ s \ {y} \in K
        <5>1. Cardinality(s \ {x}) = k /\ Cardinality(s \ {y}) = k
          BY <2>1, <4>1
        <5> QED BY <4>1, <5>1
      <4>3. /\ h[s \ {x}] = h[(s \ {x}) \ {y}] + f[y]
            /\ h[s \ {y}] = h[(s \ {y}) \ {x}] + f[x]
        BY <3>1, <3>3, <4>2
      <4>4. (s \ {x}) \ {y} = (s \ {y}) \ {x} /\ (s \ {x}) \ {y} \in SUBSET S
        OBVIOUS
      <4>5. h[(s \ {x}) \ {y}] \in Nat /\ f[x] \in Nat
        <5>1. x \in S
          OBVIOUS
        <5> QED BY <1>1, <4>4, <5>1
      <4>6. h[s] = f[y] + (h[(s \ {x}) \ {y}] + f[x])
        BY <3>1, <4>3, <4>4
      <4> QED BY <3>1, <4>3, <4>5, <4>6
    <3> QED BY <3>2, <3>3
  <2>2. \A s \in SUBSET S : Cardinality(s) = k + 1 => s \in K
    BY <2>1
  <2> HIDE DEF K
  <2> QED BY <2>2
<1>8. N \subseteq Nat
  OBVIOUS
<1> HIDE DEF N
<1>9. N = Nat
  BY <1>6, <1>7, <1>8, Counting
<1>10. \A s \in SUBSET S : s \in K
  BY <1>5, <1>9 DEF N
<1> QED BY <1>1, <1>2, <1>10 DEF Sums

\* Sums over the same elements are the same.
LEMMA SumsAgree ==
  ASSUME NEW S, NEW R, NEW f, NEW g, NEW h, NEW i, Sums(h, S, f), Sums(i, R, g),
         NEW Q \in SUBSET (S \cap R), IsFiniteSet(Q), \A x \in Q : f[x] = g[x]
  PROVE  h[Q] = i[Q]
<1> DEFINE K == {s \in SUBSET Q : h[s] = i[s]}
<1>1. {} \in K
  BY DEF Sums
<1>2. ASSUME NEW s \in SUBSET Q, \E x \in s : s \ {x} \in K PROVE s \in K
  <2>1. PICK x \in s : s \ {x} \in K
    BY <1>2
  <2>2. h[s] = h[s \ {x}] + f[x] /\ i[s] = i[s \ {x}] + g[x]
    BY DEF Sums
  <2> QED BY <2>1, <2>2
<1> HIDE DEF K
<1>3. SUBSET Q \subseteq K
  BY <1>1, <1>2, FiniteSubsets
<1>4. Q \in K
  BY <1>3
<1> QED BY <1>4 DEF K

LEMMA SumFunctionSums ==
  ASSUME NEW S, IsFiniteSet(S), NEW f, \A x \in S : f[x] \in Nat
  PROVE  \E h : Sums(h, S, f) /\ SumFunctionOnSet(f, S) = h[S]
<1> DEFINE E(h) == h = [s \in SUBSET S |-> IF s = {} THEN 0
                                           ELSE f[CHOOSE x \in s : TRUE] + h[s \ {CHOOSE x \in s : TRUE}]]
           H == CHOOSE h : E(h)
<1>1. PICK c : Chooses(c, S) /\ \A s \in SUBSET S : c[s] = CHOOSE x \in s : TRUE
  <2>1. Chooses([s \in SUBSET S |-> CHOOSE x \in s : TRUE], S)
    BY DEF Chooses
  <2> QED BY <2>1
<1>2. \A h : E(h) <=> Summing(h, S, c, f)
  BY <1>1 DEF Summing
<1>3. SumFunctionOnSet(f, S) = H[S]
  BY DEF SumFunctionOnSet, FoldFunctionOnSet, MapThenFoldSet
<1> HIDE DEF E
<1>4. \E h : E(h)
  BY <1>1, <1>2, SumsExist
<1>5. E(H)
  BY <1>4
<1>6. Sums(H, S, f)
  <2> HIDE DEF H
  <2> QED BY <1>1, <1>2, <1>5, SumsOf
<1> QED BY <1>3, <1>6

\* The sum over no element, over the elements but for one, and of the same
\* numbers.
LEMMA SumOver ==
  ASSUME NEW S, IsFiniteSet(S), NEW f, \A x \in S : f[x] \in Nat
  PROVE  /\ SumFunctionOnSet(f, S) \in Nat
         /\ S = {} => SumFunctionOnSet(f, S) = 0
         /\ \A x \in S : SumFunctionOnSet(f, S) = SumFunctionOnSet(f, S \ {x}) + f[x]
<1>1. PICK h : Sums(h, S, f) /\ SumFunctionOnSet(f, S) = h[S]
  BY SumFunctionSums
<1>2. ASSUME NEW x \in S PROVE SumFunctionOnSet(f, S \ {x}) = h[S \ {x}]
  <2>1. IsFiniteSet(S \ {x})
    BY FS_RemoveElement
  <2>2. PICK i : Sums(i, S \ {x}, f) /\ SumFunctionOnSet(f, S \ {x}) = i[S \ {x}]
    BY <2>1, SumFunctionSums
  <2>3. S \ {x} \in SUBSET ((S \ {x}) \cap S)
    OBVIOUS
  <2> QED BY <1>1, <2>1, <2>2, <2>3, SumsAgree
<1> QED BY <1>1, <1>2 DEF Sums

LEMMA SumSame ==
  ASSUME NEW S, IsFiniteSet(S), NEW f, NEW g, \A x \in S : f[x] \in Nat /\ f[x] = g[x]
  PROVE  SumFunctionOnSet(f, S) = SumFunctionOnSet(g, S)
<1>1. PICK h : Sums(h, S, f) /\ SumFunctionOnSet(f, S) = h[S]
  BY SumFunctionSums
<1>2. PICK i : Sums(i, S, g) /\ SumFunctionOnSet(g, S) = i[S]
  BY SumFunctionSums
<1> QED BY <1>1, <1>2, SumsAgree

-----------------------------------------------------------------------------
(* Sequences of records that bear a number, id: commands on their way,       *)
(* snapshots in a channel.  How numbers that rise along a sequence go on     *)
(* rising when something is taken from its front, put at its end, or when    *)
(* two sequences are joined.                                                *)

\* Numbers rise along a sequence; those of one set lie below those of another.
Rising(s) == \A i, j \in 1..Len(s) : i < j => s[i].id < s[j].id
Below(S, T) == \A c \in S, d \in T : c.id < d.id
Above(n, S) == \A c \in S : n < c.id

LEMMA NumberedTail ==
  ASSUME NEW S, NEW s \in Seq(S), s # << >>
  PROVE  /\ Head(s) \in S /\ Tail(s) \in Seq(S) /\ Len(Tail(s)) = Len(s) - 1
         /\ ToSet(s) = {Head(s)} \cup ToSet(Tail(s))
         /\ Rising(s) => Rising(Tail(s)) /\ Below({Head(s)}, ToSet(Tail(s)))
<1>1. Head(s) = s[1] /\ Head(s) \in S /\ Tail(s) \in Seq(S) /\ Len(s) \in Nat \ {0}
      /\ Len(Tail(s)) = Len(s) - 1
  OBVIOUS
<1>2. \A i \in 1..Len(Tail(s)) : Tail(s)[i] = s[i + 1]
  OBVIOUS
<1>3. DOMAIN s = 1..Len(s) /\ DOMAIN Tail(s) = 1..Len(Tail(s))
  BY <1>1
<1>4. ToSet(s) = {Head(s)} \cup ToSet(Tail(s))
  <2>1. \A i \in 1..Len(s) :
           i = 1 \/ (i - 1 \in 1..Len(Tail(s)) /\ Tail(s)[i - 1] = s[i])
    BY <1>1, <1>2
  <2>2. \A i \in 1..Len(Tail(s)) : i + 1 \in 1..Len(s)
    BY <1>1
  <2>3. ToSet(s) \subseteq {Head(s)} \cup ToSet(Tail(s))
    <3> SUFFICES ASSUME NEW i \in 1..Len(s) PROVE s[i] \in {Head(s)} \cup ToSet(Tail(s))
      BY <1>3 DEF ToSet
    <3>1. CASE i = 1
      BY <1>1, <3>1
    <3>2. CASE i - 1 \in 1..Len(Tail(s)) /\ Tail(s)[i - 1] = s[i]
      BY <1>3, <3>2 DEF ToSet
    <3> QED BY <2>1, <3>1, <3>2
  <2>4. ToSet(Tail(s)) \subseteq ToSet(s)
    BY <1>2, <1>3, <2>2 DEF ToSet
  <2>5. Head(s) \in ToSet(s)
    BY <1>1, <1>3 DEF ToSet
  <2> QED BY <2>3, <2>4, <2>5
<1>5. ASSUME Rising(s) PROVE Rising(Tail(s)) /\ Below({Head(s)}, ToSet(Tail(s)))
  <2>1. \A i, j \in 1..Len(Tail(s)) : i < j => s[i + 1].id < s[j + 1].id
    BY <1>1, <1>5 DEF Rising
  <2>2. \A j \in 1..Len(Tail(s)) : s[1].id < s[j + 1].id
    BY <1>1, <1>5 DEF Rising
  <2> QED BY <1>1, <1>2, <1>3, <2>1, <2>2 DEF Rising, Below, ToSet
<1> QED BY <1>1, <1>4, <1>5

LEMMA ElementsOfAppend ==
  ASSUME NEW S, NEW s \in Seq(S), NEW c \in S
  PROVE  ToSet(Append(s, c)) = ToSet(s) \cup {c}
<1>1. Append(s, c) \in Seq(S) /\ Len(s) \in Nat /\ Len(Append(s, c)) = Len(s) + 1
  OBVIOUS
<1>2. /\ \A i \in 1..Len(s) : Append(s, c)[i] = s[i]
      /\ Append(s, c)[Len(s) + 1] = c
  OBVIOUS
<1>3. DOMAIN s = 1..Len(s) /\ DOMAIN Append(s, c) = 1..(Len(s) + 1)
  BY <1>1
<1>4. 1..(Len(s) + 1) = 1..Len(s) \cup {Len(s) + 1}
  BY <1>1
<1> QED BY <1>2, <1>3, <1>4 DEF ToSet

LEMMA NumberedAppend ==
  ASSUME NEW S, NEW s \in Seq(S), NEW c \in S
  PROVE  /\ Append(s, c) \in Seq(S) /\ Len(Append(s, c)) = Len(s) + 1
         /\ ToSet(Append(s, c)) = ToSet(s) \cup {c}
         /\ Rising(s) /\ Below(ToSet(s), {c}) => Rising(Append(s, c))
         /\ Append(s, c) # << >> /\ Last(Append(s, c)) = c
<1>1. Append(s, c) \in Seq(S) /\ Len(s) \in Nat /\ Len(Append(s, c)) = Len(s) + 1
  OBVIOUS
<1>2. /\ \A i \in 1..Len(s) : Append(s, c)[i] = s[i]
      /\ Append(s, c)[Len(s) + 1] = c
  OBVIOUS
<1>3. DOMAIN s = 1..Len(s) /\ DOMAIN Append(s, c) = 1..(Len(s) + 1)
  BY <1>1
<1>4. 1..(Len(s) + 1) = 1..Len(s) \cup {Len(s) + 1}
  BY <1>1
<1>5. ToSet(Append(s, c)) = ToSet(s) \cup {c}
  BY ElementsOfAppend
<1>6. ASSUME Rising(s), Below(ToSet(s), {c}) PROVE Rising(Append(s, c))
  <2>1. \A i \in 1..Len(s) : s[i].id < c.id
    BY <1>3, <1>6 DEF Below, ToSet
  <2> SUFFICES ASSUME NEW i \in 1..(Len(s) + 1), NEW j \in 1..(Len(s) + 1), i < j
               PROVE  Append(s, c)[i].id < Append(s, c)[j].id
    BY <1>1 DEF Rising
  <2>2. i \in 1..Len(s)
    BY <1>1
  <2>3. CASE j = Len(s) + 1
    BY <1>2, <2>1, <2>2, <2>3
  <2>4. CASE j \in 1..Len(s)
    BY <1>2, <1>6, <2>2, <2>4 DEF Rising
  <2> QED BY <1>4, <2>3, <2>4
<1>7. Append(s, c) # << >>
  BY <1>1
<1> QED BY <1>1, <1>2, <1>5, <1>6, <1>7 DEF Last

LEMMA NumberedJoin ==
  ASSUME NEW S, NEW s \in Seq(S), NEW t \in Seq(S)
  PROVE  /\ s \o t \in Seq(S)
         /\ ToSet(s \o t) = ToSet(s) \cup ToSet(t)
         /\ Rising(s) /\ Rising(t) /\ Below(ToSet(s), ToSet(t)) => Rising(s \o t)
<1>1. s \o t \in Seq(S) /\ Len(s) \in Nat /\ Len(t) \in Nat /\ Len(s \o t) = Len(s) + Len(t)
  OBVIOUS
<1>2. \A i \in 1..(Len(s) + Len(t)) : (s \o t)[i] = IF i <= Len(s) THEN s[i] ELSE t[i - Len(s)]
  OBVIOUS
<1>3. DOMAIN s = 1..Len(s) /\ DOMAIN t = 1..Len(t) /\ DOMAIN (s \o t) = 1..(Len(s) + Len(t))
  BY <1>1
<1>4. \A i \in 1..(Len(s) + Len(t)) :
         IF i <= Len(s) THEN i \in 1..Len(s) ELSE i - Len(s) \in 1..Len(t)
  BY <1>1
<1>5. ToSet(s \o t) = ToSet(s) \cup ToSet(t)
  <2>1. ToSet(s \o t) \subseteq ToSet(s) \cup ToSet(t)
    BY <1>2, <1>3, <1>4 DEF ToSet
  <2>2. ASSUME NEW i \in 1..Len(s) PROVE i \in 1..(Len(s) + Len(t)) /\ (s \o t)[i] = s[i]
    BY <1>1, <1>2
  <2>3. ASSUME NEW i \in 1..Len(t)
        PROVE  i + Len(s) \in 1..(Len(s) + Len(t)) /\ (s \o t)[i + Len(s)] = t[i]
    BY <1>1, <1>2
  <2> QED BY <1>3, <2>1, <2>2, <2>3 DEF ToSet
<1>6. ASSUME Rising(s), Rising(t), Below(ToSet(s), ToSet(t)) PROVE Rising(s \o t)
  <2>1. \A i \in 1..Len(s), j \in 1..Len(t) : s[i].id < t[j].id
    BY <1>3, <1>6 DEF Below, ToSet
  <2> SUFFICES ASSUME NEW i \in 1..(Len(s) + Len(t)), NEW j \in 1..(Len(s) + Len(t)), i < j
               PROVE  (s \o t)[i].id < (s \o t)[j].id
    BY <1>1 DEF Rising
  <2>2. CASE j <= Len(s)
    <3>1. i \in 1..Len(s) /\ j \in 1..Len(s)
      BY <1>1, <2>2
    <3> QED BY <1>2, <1>6, <2>2, <3>1 DEF Rising
  <2>3. CASE i <= Len(s) /\ ~(j <= Len(s))
    <3>1. i \in 1..Len(s) /\ j - Len(s) \in 1..Len(t)
      BY <1>1, <2>3
    <3> QED BY <1>2, <2>1, <2>3, <3>1
  <2>4. CASE ~(i <= Len(s)) /\ ~(j <= Len(s))
    <3>1. i - Len(s) \in 1..Len(t) /\ j - Len(s) \in 1..Len(t) /\ i - Len(s) < j - Len(s)
      BY <1>1, <2>4
    <3> QED BY <1>2, <1>6, <2>4, <3>1 DEF Rising
  <2> QED BY <1>1, <2>2, <2>3, <2>4
<1> QED BY <1>1, <1>5, <1>6

LEMMA NumberedBoth ==
  ASSUME NEW S, NEW s \in Seq(S), s # << >>, NEW c \in S
  PROVE  /\ Append(s, c) # << >> /\ Head(Append(s, c)) = Head(s)
         /\ Tail(Append(s, c)) = Append(Tail(s), c)
OBVIOUS

=============================================================================
