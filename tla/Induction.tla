------------------------------ MODULE Induction ------------------------------
(***************************************************************************)
(* Induction in the form the provers can use: about sets of numbers, not   *)
(* about predicates; and what follows from it about finite orders, the     *)
(* order of texts, and functions that are defined by recursion over the    *)
(* numbers.                                                                *)
(***************************************************************************)
EXTENDS Integers, Sequences, WellFoundedInduction, FiniteSetTheorems, TLAPS

(* A set of natural numbers has a least one.                               *)
LEMMA LeastNatural ==
  ASSUME NEW T, T \subseteq Nat, T # {}
  PROVE  \E n \in T : \A m \in T : n <= m
<1> DEFINE R == {ss \in Nat \X Nat : ss[1] < ss[2]}
<1>1. IsWellFoundedOn(R, Nat)
  BY NatLessThanWellFounded DEF OpToRel
<1> HIDE DEF R
<1>2. PICK x \in T : \A y \in T : ~(<<y, x>> \in R)
  BY <1>1, WFMin
<1>3. \A y \in T : ~(y < x)
  BY <1>2 DEF R
<1> QED BY <1>3

(* What holds of 0, and with n of n + 1, holds of all.                     *)
LEMMA AllNaturals ==
  ASSUME NEW S, 0 \in S, \A n \in Nat : n \in S => n + 1 \in S
  PROVE  Nat \subseteq S
<1> SUFFICES ASSUME Nat \ S # {} PROVE FALSE
  OBVIOUS
<1>1. PICK n \in Nat \ S : \A m \in Nat \ S : n <= m
  BY LeastNatural
<1>2. n # 0
  OBVIOUS
<1>3. n - 1 \in Nat /\ ~(n <= n - 1)
  BY <1>2
<1>4. n - 1 \in S
  BY <1>1, <1>3
<1>5. (n - 1) + 1 = n
  OBVIOUS
<1> QED BY <1>3, <1>4, <1>5

(* Numbers that are bounded have a greatest and a least one.               *)
LEMMA GreatestOf ==
  ASSUME NEW T, T \subseteq Int, T # {}, NEW b \in Int, \A n \in T : n <= b
  PROVE  \E n \in T : \A m \in T : m <= n
<1> DEFINE D == {b - n : n \in T}
<1>0. PICK p \in T : TRUE
  OBVIOUS
<1>1. D \subseteq Nat /\ D # {}
  <2>1. b - p \in D
    OBVIOUS
  <2>2. D \subseteq Nat
    OBVIOUS
  <2> QED BY <2>1, <2>2
<1>2. PICK k \in D : \A j \in D : k <= j
  BY <1>1, LeastNatural
<1>3. PICK n \in T : k = b - n
  BY <1>2
<1>4. \A m \in T : b - m \in D
  <2> TAKE m \in T
  <2> QED OBVIOUS
<1>5. \A m \in T : b - n <= b - m
  BY <1>2, <1>3, <1>4
<1>6. \A m \in T : m <= n
  BY <1>5
<1> QED BY <1>6

LEMMA LeastOf ==
  ASSUME NEW T, T \subseteq Int, T # {}, NEW b \in Int, \A n \in T : b <= n
  PROVE  \E n \in T : \A m \in T : n <= m
<1> DEFINE D == {n - b : n \in T}
<1>0. PICK p \in T : TRUE
  OBVIOUS
<1>1. D \subseteq Nat /\ D # {}
  <2>1. p - b \in D
    OBVIOUS
  <2>2. D \subseteq Nat
    OBVIOUS
  <2> QED BY <2>1, <2>2
<1>2. PICK k \in D : \A j \in D : k <= j
  BY <1>1, LeastNatural
<1>3. PICK n \in T : k = n - b
  BY <1>2
<1>4. \A m \in T : m - b \in D
  <2> TAKE m \in T
  <2> QED OBVIOUS
<1>5. \A m \in T : n - b <= m - b
  BY <1>2, <1>3, <1>4
<1>6. \A m \in T : n <= m
  BY <1>5
<1> QED BY <1>6

-----------------------------------------------------------------------------
(* A finite set in an order has a first element.                           *)
LEMMA FirstOf ==
  ASSUME NEW T, IsFiniteSet(T), T # {}, NEW R,
         \A a, b \in T : a = b \/ <<a, b>> \in R \/ <<b, a>> \in R,
         \A a, b, c \in T : <<a, b>> \in R /\ <<b, c>> \in R => <<a, c>> \in R
  PROVE  \E e \in T : \A f \in T : f = e \/ <<e, f>> \in R
<1> DEFINE Good(U) == \E e \in U : \A f \in U : f = e \/ <<e, f>> \in R
           S == {n \in Nat : \A U \in SUBSET T : Cardinality(U) = n + 1 => Good(U)}
<1>0. \A U \in SUBSET T : IsFiniteSet(U) /\ Cardinality(U) \in Nat
  BY FS_Subset, FS_CardinalityType
<1>1. 0 \in S
  <2> SUFFICES ASSUME NEW U \in SUBSET T, Cardinality(U) = 1 PROVE Good(U)
    OBVIOUS
  <2>1. PICK e : U = {e}
    BY <1>0, FS_Singleton
  <2> QED BY <2>1
<1>2. ASSUME NEW n \in Nat, n \in S PROVE n + 1 \in S
  <2> SUFFICES ASSUME NEW U \in SUBSET T, Cardinality(U) = (n + 1) + 1 PROVE Good(U)
    OBVIOUS
  <2>1. PICK x \in U : TRUE
    BY <1>0, FS_EmptySet
  <2> DEFINE V == U \ {x}
  <2>2. V \in SUBSET T /\ Cardinality(V) = n + 1
    <3>1. IsFiniteSet(U) /\ x \in U
      BY <1>0
    <3>2. Cardinality(U \ {x}) = Cardinality(U) - 1
      BY <3>1, FS_RemoveElement
    <3> QED BY <3>2
  <2>3. U = V \cup {x} /\ x \in T /\ V \subseteq T
    BY <2>1
  <2>4. Good(V)
    BY <1>2, <2>2
  <2> HIDE DEF V
  <2>5. PICK e \in V : \A f \in V : f = e \/ <<e, f>> \in R
    BY <2>4
  <2>6. CASE x = e \/ <<e, x>> \in R
    BY <2>3, <2>5, <2>6
  <2>7. CASE x # e /\ <<x, e>> \in R
    <3>1. \A f \in V : <<x, f>> \in R
      BY <2>3, <2>5, <2>7
    <3> QED BY <2>3, <3>1
  <2> QED BY <2>3, <2>5, <2>6, <2>7
<1> HIDE DEF Good
<1>3. Nat \subseteq S
  BY <1>1, <1>2, AllNaturals
<1>4. Cardinality(T) - 1 \in Nat /\ (Cardinality(T) - 1) + 1 = Cardinality(T)
  BY <1>0, FS_EmptySet
<1>5. Good(T)
  BY <1>3, <1>4
<1> QED BY <1>5 DEF Good

-----------------------------------------------------------------------------
(* Texts as std::string orders them, by the ranks of their characters.     *)
\* i is where s and t become different, and s is the smaller one.
TextLessAt(rank, s, t, i) ==
  /\ i \in 1..Len(t)
  /\ \A j \in 1..(i - 1) : j <= Len(s) /\ s[j] = t[j]
  /\ i > Len(s) \/ rank[s[i]] < rank[t[i]]
TextLess(rank, s, t) == \E i \in 1..Len(t) : TextLessAt(rank, s, t, i)

Ranks(C) == {rank \in [C -> Int] : \A c, d \in C : rank[c] = rank[d] => c = d}

LEMMA TextTransitive ==
  ASSUME NEW C, NEW rank \in Ranks(C), NEW a \in Seq(C), NEW b \in Seq(C), NEW c \in Seq(C),
         TextLess(rank, a, b), TextLess(rank, b, c)
  PROVE  TextLess(rank, a, c)
<1>0. rank \in [C -> Int]
  BY DEF Ranks
<1>1. PICK i : TextLessAt(rank, a, b, i)
  BY DEF TextLess
<1>2. PICK k : TextLessAt(rank, b, c, k)
  BY DEF TextLess
<1>3. i \in 1..Len(b) /\ k \in 1..Len(c) /\ Len(a) \in Nat /\ Len(b) \in Nat /\ Len(c) \in Nat
  BY <1>1, <1>2 DEF TextLessAt
<1>4. \A j \in 1..Len(a) : rank[a[j]] \in Int
  BY <1>0
<1>5. \A j \in 1..Len(b) : rank[b[j]] \in Int
  BY <1>0
<1>6. \A j \in 1..Len(c) : rank[c[j]] \in Int
  BY <1>0
<1>7. CASE i < k
  <2>1. i <= Len(b) /\ b[i] = c[i] /\ i \in 1..Len(c)
    BY <1>2, <1>3, <1>7 DEF TextLessAt
  <2>2. \A j \in 1..(i - 1) : j <= Len(a) /\ a[j] = c[j]
    BY <1>1, <1>2, <1>3, <1>7 DEF TextLessAt
  <2> QED BY <1>1, <2>1, <2>2 DEF TextLessAt, TextLess
<1>8. CASE i = k
  <2>1. \A j \in 1..(i - 1) : j <= Len(a) /\ a[j] = c[j]
    BY <1>1, <1>2, <1>8 DEF TextLessAt
  <2>2. i > Len(a) \/ rank[a[i]] < rank[c[i]]
    <3>1. rank[b[i]] < rank[c[i]]
      BY <1>2, <1>3, <1>8 DEF TextLessAt
    <3>2. CASE i <= Len(a)
      <4>1. rank[a[i]] < rank[b[i]]
        BY <1>1, <1>3, <3>2 DEF TextLessAt
      <4>2. i \in 1..Len(a) /\ i \in 1..Len(c)
        BY <1>3, <1>8, <3>2
      <4> QED BY <1>3, <1>4, <1>5, <1>6, <3>1, <4>1, <4>2
    <3> QED BY <1>3, <3>2
  <2> QED BY <1>3, <1>8, <2>1, <2>2 DEF TextLessAt, TextLess
<1>9. CASE k < i
  <2>1. k <= Len(a) /\ a[k] = b[k]
    BY <1>1, <1>3, <1>9 DEF TextLessAt
  <2>2. \A j \in 1..(k - 1) : j <= Len(a) /\ a[j] = c[j]
    BY <1>1, <1>2, <1>3, <1>9 DEF TextLessAt
  <2>3. rank[b[k]] < rank[c[k]]
    BY <1>2, <1>3, <1>9 DEF TextLessAt
  <2> QED BY <1>3, <2>1, <2>2, <2>3 DEF TextLessAt, TextLess
<1> QED BY <1>3, <1>7, <1>8, <1>9

LEMMA TextIrreflexive ==
  ASSUME NEW C, NEW rank \in Ranks(C), NEW a \in Seq(C)
  PROVE  ~TextLess(rank, a, a)
<1> SUFFICES ASSUME NEW i, TextLessAt(rank, a, a, i) PROVE FALSE
  BY DEF TextLess
<1>1. i \in 1..Len(a) /\ Len(a) \in Nat
  BY DEF TextLessAt
<1>2. rank[a[i]] \in Int
  BY <1>1 DEF Ranks
<1> QED BY <1>1, <1>2 DEF TextLessAt

LEMMA TextTotal ==
  ASSUME NEW C, NEW rank \in Ranks(C), NEW a \in Seq(C), NEW b \in Seq(C), a # b
  PROVE  TextLess(rank, a, b) \/ TextLess(rank, b, a)
<1>0. Len(a) \in Nat /\ Len(b) \in Nat
  OBVIOUS
<1> DEFINE D == {i \in Nat : i >= 1 /\ (i <= Len(a) \/ i <= Len(b))
                             /\ (i > Len(a) \/ i > Len(b) \/ a[i] # b[i])}
<1>1. D # {}
  <2>1. CASE Len(a) = Len(b)
    <3>1. PICK i \in 1..Len(a) : a[i] # b[i]
      BY <2>1
    <3>2. i \in D
      BY <2>1, <3>1
    <3> QED BY <3>2
  <2>2. CASE Len(a) < Len(b)
    <3>1. Len(a) + 1 \in D
      BY <1>0, <2>2
    <3> QED BY <3>1
  <2>3. CASE Len(b) < Len(a)
    <3>1. Len(b) + 1 \in D
      BY <1>0, <2>3
    <3> QED BY <3>1
  <2> QED BY <1>0, <2>1, <2>2, <2>3
<1>2. PICK n \in D : \A m \in D : n <= m
  <2>1. D \subseteq Nat
    OBVIOUS
  <2> HIDE DEF D
  <2> QED BY <1>1, <2>1, LeastNatural
<1>3. \A j \in 1..(n - 1) : j <= Len(a) /\ j <= Len(b) /\ a[j] = b[j]
  <2> SUFFICES ASSUME NEW j \in 1..(n - 1), ~(j <= Len(a) /\ j <= Len(b) /\ a[j] = b[j]) PROVE FALSE
    OBVIOUS
  <2>1. j \in Nat /\ j >= 1 /\ j < n
    OBVIOUS
  <2>2. j \in D
    BY <1>0, <1>2, <2>1
  <2> HIDE DEF D
  <2> QED BY <1>2, <2>1, <2>2
<1>4. n \in Nat /\ n >= 1 /\ (n <= Len(a) \/ n <= Len(b)) /\ (n > Len(a) \/ n > Len(b) \/ a[n] # b[n])
  BY <1>2
<1> HIDE DEF D
<1>5. CASE n > Len(a)
  BY <1>0, <1>3, <1>4, <1>5 DEF TextLessAt, TextLess
<1>6. CASE n > Len(b)
  BY <1>0, <1>3, <1>4, <1>6 DEF TextLessAt, TextLess
<1>7. CASE n <= Len(a) /\ n <= Len(b)
  <2>1. a[n] # b[n] /\ n \in 1..Len(a) /\ n \in 1..Len(b)
    BY <1>0, <1>4, <1>7
  <2>2. a[n] \in C /\ b[n] \in C
    BY <2>1
  <2>3. rank[a[n]] \in Int /\ rank[b[n]] \in Int /\ rank[a[n]] # rank[b[n]]
    BY <2>1, <2>2 DEF Ranks
  <2>4. TextLessAt(rank, a, b, n) \/ TextLessAt(rank, b, a, n)
    BY <1>0, <1>3, <2>1, <2>3 DEF TextLessAt
  <2> QED BY <2>1, <2>4 DEF TextLess
<1> QED BY <1>0, <1>4, <1>5, <1>6, <1>7

-----------------------------------------------------------------------------
(* A function of the numbers that is defined by recursion exists.          *)
Recursion(T, a, step) ==
  \E g \in [Nat -> T] : g[0] = a /\ \A n \in Nat : g[n + 1] = step[<<n, g[n]>>]
LEMMA PrimitiveRecursion ==
  ASSUME NEW T, NEW a \in T, NEW step \in [Nat \X T -> T]
  PROVE  Recursion(T, a, step)
<1> USE DEF Recursion
<1> DEFINE Up(n) == {g \in [0..n -> T] : g[0] = a /\ \A k \in 0..(n - 1) : g[k + 1] = step[<<k, g[k]>>]}
           E == {n \in Nat : Up(n) # {}}
<1>1. 0 \in E
  <2>1. [k \in 0..0 |-> a] \in Up(0)
    OBVIOUS
  <2> QED BY <2>1
<1>2. ASSUME NEW n \in Nat, n \in E PROVE n + 1 \in E
  <2>1. PICK g \in Up(n) : TRUE
    BY <1>2
  <2> DEFINE h == [k \in 0..(n + 1) |-> IF k = n + 1 THEN step[<<n, g[n]>>] ELSE g[k]]
  <2>2. g \in [0..n -> T] /\ g[n] \in T /\ step[<<n, g[n]>>] \in T
    OBVIOUS
  <2>3. h \in [0..(n + 1) -> T]
    BY <2>2
  <2>4. h[0] = a
    OBVIOUS
  <2>5. ASSUME NEW k \in 0..((n + 1) - 1) PROVE h[k + 1] = step[<<k, h[k]>>]
    <3>1. CASE k = n
      <4>1. h[n + 1] = step[<<n, g[n]>>] /\ h[n] = g[n]
        OBVIOUS
      <4> HIDE DEF h, Up
      <4> QED BY <3>1, <4>1
    <3>2. CASE k # n
      <4>1. k \in 0..(n - 1) /\ k + 1 \in 0..(n + 1) /\ k + 1 # n + 1 /\ k \in 0..(n + 1) /\ k # n + 1
        BY <3>2
      <4>2. g[k + 1] = step[<<k, g[k]>>]
        BY <2>1, <4>1
      <4> QED BY <4>1, <4>2
    <3> QED BY <3>1, <3>2
  <2>6. h \in Up(n + 1)
    BY <2>3, <2>4, <2>5
  <2> HIDE DEF Up
  <2> QED BY <2>6
<1> HIDE DEF E
<1>3. \A n \in Nat : Up(n) # {}
  <2>1. Nat \subseteq E
    BY <1>1, <1>2, AllNaturals
  <2> QED BY <2>1 DEF E
<1>4. ASSUME NEW m \in Nat, NEW n \in Nat, m <= n, NEW g \in Up(m), NEW h \in Up(n)
      PROVE  g[m] = h[m]
  <2> DEFINE S == {k \in Nat : k <= m => g[k] = h[k]}
  <2>1. 0 \in S
    OBVIOUS
  <2>2. ASSUME NEW k \in Nat, k \in S PROVE k + 1 \in S
    <3> SUFFICES ASSUME k + 1 <= m PROVE g[k + 1] = h[k + 1]
      OBVIOUS
    <3>1. k \in 0..(m - 1) /\ k \in 0..(n - 1) /\ g[k] = h[k]
      BY <1>4, <2>2
    <3> QED BY <3>1
  <2> HIDE DEF S
  <2>3. m \in S
    BY <2>1, <2>2, AllNaturals
  <2> QED BY <2>3 DEF S
<1> DEFINE pick(n) == CHOOSE g : g \in Up(n)
           G == [n \in Nat |-> pick(n)[n]]
<1> HIDE DEF Up
<1>5. \A n \in Nat : pick(n) \in Up(n)
  BY <1>3
<1> HIDE DEF pick
<1>6. \A n \in Nat : pick(n)[n] \in T /\ pick(n)[0] = a
  BY <1>5 DEF Up
<1>7. G \in [Nat -> T] /\ G[0] = a
  BY <1>6
<1>8. ASSUME NEW n \in Nat PROVE G[n + 1] = step[<<n, G[n]>>]
  <2>1. PICK h \in Up(n + 1) : h = pick(n + 1)
    BY <1>5
  <2>2. h[n + 1] = step[<<n, h[n]>>]
    BY DEF Up
  <2>3. pick(n)[n] = h[n]
    <3>1. pick(n) \in Up(n) /\ n <= n + 1 /\ n + 1 \in Nat
      BY <1>5
    <3> QED BY <1>4, <3>1
  <2>4. G[n + 1] = h[n + 1] /\ G[n] = h[n]
    BY <2>1, <2>3
  <2> QED BY <2>2, <2>4
<1> HIDE DEF G
<1> QED BY <1>7, <1>8

(* The elements of a finite set of numbers are numbered in their order.    *)
LEMMA Numbered ==
  ASSUME NEW L, L \subseteq Nat, IsFiniteSet(L)
  PROVE  /\ Cardinality(L) \in Nat
         /\ \A p \in L : Cardinality({q \in L : q < p}) \in 0..(Cardinality(L) - 1)
         /\ \A p, q \in L : p < q => Cardinality({r \in L : r < p}) < Cardinality({r \in L : r < q})
         /\ \A i \in 1..Cardinality(L) : \E p \in L : Cardinality({q \in L : q < p}) = i - 1
<1> DEFINE Below(p) == {q \in L : q < p}
           n == Cardinality(L)
<1>1. n \in Nat
  BY FS_CardinalityType
<1>2. \A p \in L : IsFiniteSet(Below(p)) /\ Cardinality(Below(p)) \in Nat
  BY FS_Subset, FS_CardinalityType
<1>3. ASSUME NEW U, NEW V, U \subseteq V, IsFiniteSet(V), NEW x \in V, x \notin U
      PROVE  Cardinality(U) < Cardinality(V)
  BY <1>3, FS_Subset, FS_CardinalityType
<1>4. ASSUME NEW p \in L PROVE Cardinality(Below(p)) < n
  <2>1. Below(p) \subseteq L /\ p \notin Below(p)
    OBVIOUS
  <2> HIDE DEF Below
  <2> QED BY <1>3, <2>1
<1>5. ASSUME NEW p \in L, NEW q \in L, p < q PROVE Cardinality(Below(p)) < Cardinality(Below(q))
  <2>0. p \in Nat /\ q \in Nat /\ \A r \in L : r \in Nat
    OBVIOUS
  <2>1. Below(p) \subseteq Below(q)
    <3>1. \A r \in L : r < p => r < q
      BY <1>5, <2>0
    <3> QED BY <3>1
  <2>2. p \in Below(q) /\ p \notin Below(p)
    BY <1>5, <2>0
  <2> HIDE DEF Below
  <2> QED BY <1>2, <1>3, <2>1, <2>2
<1> HIDE DEF Below
<1> DEFINE rank == [p \in L |-> Cardinality(Below(p)) + 1]
<1>6. rank \in [L -> 1..n]
  BY <1>1, <1>2, <1>4
<1>7. \A p, q \in L : rank[p] = rank[q] => p = q
  <2> SUFFICES ASSUME NEW p \in L, NEW q \in L, rank[p] = rank[q], p # q PROVE FALSE
    OBVIOUS
  <2>1. p < q \/ q < p
    OBVIOUS
  <2> QED BY <1>2, <1>5, <2>1
<1>8. rank \in Injection(L, 1..n)
  BY <1>6, <1>7 DEF Injection, IsInjective
<1>9. rank \in Surjection(L, 1..n)
  <2>1. IsFiniteSet(1..n) /\ Cardinality(1..n) = n
    BY <1>1, FS_Interval
  <2> HIDE DEF rank
  <2> QED BY <1>8, <2>1, FS_Injection
<1>10. \A i \in 1..n : \E p \in L : Cardinality(Below(p)) = i - 1
  <2> TAKE i \in 1..n
  <2>1. PICK p \in L : rank[p] = i
    BY <1>9 DEF Surjection
  <2> QED BY <1>2, <2>1
<1> QED BY <1>1, <1>2, <1>4, <1>5, <1>10 DEF Below
=============================================================================
