------------------------------ MODULE SetLemmas ------------------------------
(***************************************************************************)
(* Facts about finite sets, and sums over them, that several of the proofs *)
(* need.                                                                   *)
(***************************************************************************)
EXTENDS Integers, FiniteSetsExt, FiniteSetTheorems, TLAPS

\* The larger of two integers, as the clamps of the code take it,
LEMMA MaxOfTwo ==
    ASSUME NEW a \in Int, NEW b \in Int
    PROVE  Max({a, b}) = IF a >= b THEN a ELSE b
    BY DEF Max

\* and the smaller.
LEMMA MinOfTwo ==
    ASSUME NEW a \in Int, NEW b \in Int
    PROVE  Min({a, b}) = IF a <= b THEN a ELSE b
    BY DEF Min

\* The members of a finite set of integers have the ranks from 1 to the size of the set,
\* one each, in their order.
LEMMA RanksAreOneToOne ==
    ASSUME NEW P \in SUBSET Int, IsFiniteSet(P)
    PROVE  /\ Cardinality(P) \in Nat
           /\ \A p \in P : Cardinality({q \in P : q <= p}) \in 1..Cardinality(P)
           /\ \A p, r \in P : p < r =>
                 Cardinality({q \in P : q <= p}) < Cardinality({q \in P : q <= r})
           /\ \A i \in 1..Cardinality(P) : \E p \in P : Cardinality({q \in P : q <= p}) = i
  <1>. DEFINE upto(p) == {q \in P : q <= p}
              rank(p) == Cardinality({q \in P : q <= p})
              num     == Cardinality(P)
              f       == [p \in P |-> rank(p)]
  <1>1. num \in Nat
    BY FS_CardinalityType
  <1>2. \A T \in SUBSET P : /\ IsFiniteSet(T) /\ Cardinality(T) \in Nat /\ Cardinality(T) <= num
                            /\ Cardinality(T) = 0 <=> T = {}
    BY FS_Subset, FS_CardinalityType, FS_EmptySet
  <1>3. ASSUME NEW p \in P PROVE rank(p) \in 1..num
    <2>1. upto(p) \in SUBSET P /\ upto(p) # {}
      OBVIOUS
    <2>2. Cardinality(upto(p)) \in Nat /\ Cardinality(upto(p)) <= num /\ Cardinality(upto(p)) # 0
      BY <1>2, <2>1
    <2>. QED
      BY <1>1, <2>2
  <1>4. ASSUME NEW p \in P, NEW r \in P, p < r PROVE rank(p) < rank(r)
    <2>0. p \in Int /\ r \in Int /\ r \in upto(r) /\ r \notin upto(p)
      BY <1>4
    <2>1. upto(p) \in SUBSET upto(r) /\ upto(p) # upto(r) /\ upto(r) \in SUBSET P
      <3>1. ASSUME NEW q \in P, q <= p PROVE q <= r
        BY <1>4, <3>1, <2>0, q \in Int
      <3>2. upto(p) \in SUBSET upto(r)
        BY <3>1
      <3>. QED
        BY <2>0, <3>2
    <2>2. Cardinality(upto(p)) <= Cardinality(upto(r)) /\ Cardinality(upto(p)) # Cardinality(upto(r))
      BY <1>2, <2>1, FS_Subset
    <2>. QED
      BY <1>3, <2>2
  <1>. HIDE DEF num, rank, upto
  <1>5. f \in Injection(P, 1..num)
    <2>1. f \in [P -> 1..num]
      BY <1>3
    <2>2. \A p, r \in P : p # r => f[p] # f[r]
      BY <1>1, <1>3, <1>4
    <2>. QED
      BY <2>1, <2>2 DEF Injection, IsInjective
  <1>6. \A i \in 1..num : \E p \in P : rank(p) = i
    <2>1. IsFiniteSet(1..num) /\ Cardinality(1..num) = num
      BY <1>1, FS_Interval
    <2>2. f \in Surjection(P, 1..num)
      BY <1>5, <2>1, FS_Injection DEF num
    <2>. QED
      BY <2>2 DEF Surjection
  <1>. QED
    BY <1>1, <1>3, <1>4, <1>6 DEF num, rank


\* A set of integers that is finite and not empty has a least member.
LEMMA MinOfSet ==
    ASSUME NEW P \in SUBSET Int, IsFiniteSet(P), P # {}
    PROVE  Min(P) \in P /\ \A q \in P : Min(P) <= q
  <1>. DEFINE rank(p) == Cardinality({q \in P : q <= p})
  <1>1. /\ Cardinality(P) \in Nat
        /\ \A p \in P : rank(p) \in 1..Cardinality(P)
        /\ \A p, r \in P : p < r => rank(p) < rank(r)
        /\ \A i \in 1..Cardinality(P) : \E p \in P : rank(p) = i
    BY RanksAreOneToOne
  <1>2. Cardinality(P) # 0
    BY FS_EmptySet
  <1>. HIDE DEF rank
  <1>3. PICK p \in P : rank(p) = 1
    BY <1>1, <1>2
  <1>4. ASSUME NEW q \in P PROVE p <= q
    <2>1. p \in Int /\ q \in Int /\ rank(q) >= 1 /\ rank(q) \in Int
      BY <1>1
    <2>2. ~(q < p)
      BY <1>1, <1>3, <2>1
    <2>. QED
      BY <2>1, <2>2
  <1>. QED
    BY <1>4 DEF Min

-----------------------------------------------------------------------------
(* Induction, and sums over finite sets.  The induction theorems of the      *)
(* library take an operator; these take a set instead.                       *)

\* Induction on the natural numbers, over a set of them.
LEMMA InductiveSet ==
    ASSUME NEW S, 0 \in S, \A n \in Nat : n \in S => n + 1 \in S
    PROVE  \A n \in Nat : n \in S
  <1>. SUFFICES ASSUME NEW n \in Nat, n \notin S PROVE FALSE
    OBVIOUS
  <1>. DEFINE P == {k \in 0..n : k \notin S}
  <1>1. P \in SUBSET Int /\ IsFiniteSet(P) /\ n \in P
    <2>1. P \in SUBSET (0..n) /\ IsFiniteSet(0..n)
      BY FS_Interval
    <2>. QED
      BY <2>1, FS_Subset
  <1>2. Min(P) \in P /\ \A q \in P : Min(P) <= q
    BY <1>1, MinOfSet
  <1>3. PICK m \in 0..n : m \notin S /\ \A q \in P : m <= q
    BY <1>2
  <1>4. m # 0 /\ m - 1 \in Nat /\ m - 1 \in 0..n
    BY <1>3
  <1>5. m - 1 \in S
    BY <1>3, <1>4
  <1>. QED
    BY <1>3, <1>4, <1>5

\* Induction on the parts of a finite set, over a set of them.
LEMMA PartInduction ==
    ASSUME NEW T, NEW G, IsFiniteSet(T),
           \A s \in SUBSET T : (\A r \in SUBSET s : r # s => r \in G) => s \in G
    PROVE  \A s \in SUBSET T : s \in G
  <1>. DEFINE S == {n \in Nat : \A s \in SUBSET T : Cardinality(s) <= n => s \in G}
  <1>1. \A s \in SUBSET T : /\ IsFiniteSet(s) /\ Cardinality(s) \in Nat
                            /\ Cardinality(s) = 0 <=> s = {}
    BY FS_Subset, FS_CardinalityType, FS_EmptySet
  <1>2. \A s \in SUBSET T : \A r \in SUBSET s : r # s => Cardinality(r) < Cardinality(s)
    BY <1>1, FS_Subset
  <1>3. 0 \in S
    <2>1. {} \in G
      OBVIOUS
    <2>. QED
      BY <1>1, <2>1
  <1>4. ASSUME NEW n \in Nat, n \in S PROVE n + 1 \in S
    <2>1. \A s \in SUBSET T : Cardinality(s) <= n => s \in G
      BY <1>4
    <2>2. ASSUME NEW s \in SUBSET T, Cardinality(s) <= n + 1 PROVE s \in G
      <3>1. ASSUME NEW r \in SUBSET s, r # s PROVE r \in G
        <4>1. r \in SUBSET T /\ Cardinality(r) < Cardinality(s)
          BY <1>2, <3>1
        <4>2. Cardinality(r) \in Nat /\ Cardinality(s) \in Nat
          BY <1>1, <4>1
        <4>. QED
          BY <2>1, <2>2, <4>1, <4>2
      <3>. QED
        BY <3>1
    <2>3. n + 1 \in Nat
      OBVIOUS
    <2>. QED
      BY <2>2, <2>3
  <1>. HIDE DEF S
  <1>5. \A n \in Nat : n \in S
    BY <1>3, <1>4, InductiveSet
  <1>. QED
    BY <1>1, <1>5 DEF S

\* Sums are computed one member after the other: Summand(s) is the next.
Summand(s) == CHOOSE x \in s : TRUE

SumStep(f, g, s) == IF s = {} THEN 0 ELSE f[Summand(s)] + g[s \ {Summand(s)}]

\* g[s] is the sum of f over each part s of T.
IsSum(f, T, g) == g = [s \in SUBSET T |-> SumStep(f, g, s)]

\* The community modules' sum, and with it every fold of +, is such a function's value.
LEMMA SumDefined ==
    ASSUME NEW f, NEW T
    PROVE  FoldFunctionOnSet(+, 0, f, T) = (CHOOSE g : IsSum(f, T, g))[T]
  BY Zenon DEF FoldFunctionOnSet, MapThenFoldSet, IsSum, SumStep, Summand

\* There is a next one as long as something is left.
LEMMA Picked == \A s : s # {} => Summand(s) \in s
  BY DEF Summand

\* The recursion has a solution: by induction, on the parts of at most n members.
LEMMA SumExists ==
    ASSUME NEW f, NEW T, IsFiniteSet(T)
    PROVE  \E g : IsSum(f, T, g)
  <1>. DEFINE Below(n) == {s \in SUBSET T : Cardinality(s) <= n}
              G == {n \in Nat : \E g : \A s \in Below(n) : g[s] = SumStep(f, g, s)}
  <1>1. \A s \in SUBSET T : /\ IsFiniteSet(s) /\ Cardinality(s) \in Nat
                            /\ Cardinality(s) = 0 <=> s = {}
                            /\ \A x \in s : Cardinality(s \ {x}) = Cardinality(s) - 1
    BY FS_Subset, FS_CardinalityType, FS_EmptySet, FS_RemoveElement
  <1>2. 0 \in G
    <2>. DEFINE g == [s \in SUBSET T |-> 0]
    <2>1. \A s \in Below(0) : s = {} /\ g[s] = 0
      BY <1>1
    <2>2. \A s \in Below(0) : g[s] = SumStep(f, g, s)
      BY <2>1 DEF SumStep
    <2>. QED
      BY <2>2
  <1>3. ASSUME NEW n \in Nat, n \in G PROVE n + 1 \in G
    <2>1. PICK g : \A s \in Below(n) : g[s] = SumStep(f, g, s)
      BY <1>3
    <2>. DEFINE h == [s \in SUBSET T |-> IF s \in Below(n) THEN g[s] ELSE SumStep(f, g, s)]
    <2>2. \A s \in SUBSET T : h[s] = SumStep(f, g, s)
      BY <2>1
    <2>3. ASSUME NEW s \in Below(n + 1), s # {}
          PROVE  s \ {Summand(s)} \in Below(n)
      BY <1>1, <2>3, Picked
    <2>4. \A s \in Below(n) : h[s] = g[s]
      OBVIOUS
    <2>. HIDE DEF h, Below
    <2>5. ASSUME NEW s \in Below(n + 1) PROVE SumStep(f, h, s) = SumStep(f, g, s)
      BY <2>3, <2>4 DEF SumStep
    <2>6. \A s \in Below(n + 1) : h[s] = SumStep(f, h, s)
      BY <2>2, <2>5 DEF Below
    <2>. QED
      BY <2>6
  <1>4. Cardinality(T) \in G
    <2>. HIDE DEF G
    <2>. QED
      BY <1>1, <1>2, <1>3, InductiveSet
  <1>5. PICK g : \A s \in Below(Cardinality(T)) : g[s] = SumStep(f, g, s)
    BY <1>4
  <1>6. \A s \in SUBSET T : s \in Below(Cardinality(T))
    BY FS_Subset
  <1>. DEFINE h == [s \in SUBSET T |-> g[s]]
  <1>7. ASSUME NEW s \in SUBSET T PROVE SumStep(f, h, s) = SumStep(f, g, s)
    <2>1. s \ {Summand(s)} \in SUBSET T
      OBVIOUS
    <2>. QED
      BY <2>1 DEF SumStep
  <1>8. h = [s \in SUBSET T |-> SumStep(f, h, s)]
    <2>. DEFINE k == [s \in SUBSET T |-> SumStep(f, h, s)]
    <2>1. \A s \in SUBSET T : k[s] = h[s]
      BY <1>5, <1>6, <1>7
    <2>. QED
      BY <2>1
  <1>. QED
    BY <1>8, Zenon DEF IsSum

\* The sum of a part is the same whether it is taken alone or on the way to the whole, and
\* only what is summed counts.
LEMMA SumAgrees ==
    ASSUME NEW T, IsFiniteSet(T), NEW U \in SUBSET T, NEW e, NEW f, \A x \in U : e[x] = f[x],
           NEW g, IsSum(f, T, g), NEW h, IsSum(e, U, h)
    PROVE  \A s \in SUBSET U : g[s] = h[s]
  <1>. DEFINE S == {n \in Nat : \A s \in SUBSET U : Cardinality(s) <= n => g[s] = h[s]}
  <1>1. \A s \in SUBSET U : /\ IsFiniteSet(s) /\ Cardinality(s) \in Nat
                            /\ Cardinality(s) = 0 <=> s = {}
                            /\ \A x \in s : Cardinality(s \ {x}) = Cardinality(s) - 1
    BY FS_Subset, FS_CardinalityType, FS_EmptySet, FS_RemoveElement
  <1>2. /\ \A s \in SUBSET T : g[s] = SumStep(f, g, s)
        /\ \A s \in SUBSET U : h[s] = SumStep(e, h, s)
    BY DEF IsSum
  <1>3. 0 \in S
    <2>1. g[{}] = 0 /\ h[{}] = 0
      BY <1>2 DEF SumStep
    <2>. QED
      BY <1>1, <2>1
  <1>4. ASSUME NEW n \in Nat, n \in S PROVE n + 1 \in S
    <2>1. ASSUME NEW s \in SUBSET U, Cardinality(s) <= n + 1, s # {} PROVE g[s] = h[s]
      <3>1. Summand(s) \in s
        BY <2>1, Picked
      <3>2. Cardinality(s \ {Summand(s)}) <= n
        BY <1>1, <2>1, <3>1
      <3>3. g[s \ {Summand(s)}] = h[s \ {Summand(s)}] /\ e[Summand(s)] = f[Summand(s)]
        BY <1>4, <2>1, <3>1, <3>2
      <3>4. SumStep(f, g, s) = SumStep(e, h, s)
        BY <3>3 DEF SumStep
      <3>. QED
        BY <1>2, <3>4
    <2>2. g[{}] = h[{}]
      BY <1>2 DEF SumStep
    <2>. QED
      BY <2>1, <2>2
  <1>. HIDE DEF S
  <1>5. \A n \in Nat : n \in S
    BY <1>3, <1>4, InductiveSet
  <1>. QED
    BY <1>1, <1>5 DEF S

\* sum[U] is the sum of f over each part U of T: Summand(U) is taken first,
PartSum(f, T, sum) ==
    \A U \in SUBSET T : /\ sum[U] = SumFunctionOnSet(f, U)
                        /\ U = {} => sum[U] = 0
                        /\ U # {} => sum[U] = f[Summand(U)] + sum[U \ {Summand(U)}]

\* and then, as addition commutes, any member may be.
IntegerSum(f, T, sum) ==
    \A U \in SUBSET T : /\ sum[U] = SumFunctionOnSet(f, U)
                        /\ U = {} => sum[U] = 0
                        /\ sum[U] \in Int
                        /\ \A y \in U : sum[U] = f[y] + sum[U \ {y}]

\* The sums of the parts of a finite set, as a function of the part.
LEMMA PartSums ==
    ASSUME NEW T, NEW f, IsFiniteSet(T)
    PROVE  \E sum : PartSum(f, T, sum)
  <1>1. PICK g : IsSum(f, T, g)
    BY SumExists
  <1>2. ASSUME NEW U \in SUBSET T PROVE g[U] = SumFunctionOnSet(f, U)
    <2>1. IsFiniteSet(U)
      BY FS_Subset
    <2>2. PICK h : IsSum(f, U, h) /\ SumFunctionOnSet(f, U) = h[U]
      BY <2>1, SumExists, SumDefined DEF SumFunctionOnSet
    <2>. QED
      BY <1>1, <2>2, SumAgrees
  <1>3. \A U \in SUBSET T : g[U] = SumStep(f, g, U)
    BY <1>1 DEF IsSum
  <1>. QED
    BY <1>2, <1>3 DEF SumStep, PartSum

\* Only what is summed counts.
LEMMA SumSame ==
    ASSUME NEW T, NEW e, NEW f, IsFiniteSet(T), \A x \in T : e[x] = f[x]
    PROVE  SumFunctionOnSet(e, T) = SumFunctionOnSet(f, T)
  <1>1. PICK g : IsSum(f, T, g) /\ SumFunctionOnSet(f, T) = g[T]
    BY SumExists, SumDefined DEF SumFunctionOnSet
  <1>2. PICK h : IsSum(e, T, h) /\ SumFunctionOnSet(e, T) = h[T]
    BY SumExists, SumDefined DEF SumFunctionOnSet
  <1>. QED
    BY <1>1, <1>2, SumAgrees

\* Sums of integers are integers, and any member may be taken last.
LEMMA SumTakes ==
    ASSUME NEW T, NEW f, IsFiniteSet(T), \A x \in T : f[x] \in Int
    PROVE  \E sum : IntegerSum(f, T, sum)
  <1>0. PICK sum : PartSum(f, T, sum)
    BY PartSums
  <1>1. \A U \in SUBSET T :
              /\ sum[U] = SumFunctionOnSet(f, U)
              /\ U = {} => sum[U] = 0
              /\ U # {} => /\ Summand(U) \in U
                           /\ sum[U] = f[Summand(U)] + sum[U \ {Summand(U)}]
    BY <1>0, Picked DEF PartSum
  <1>. DEFINE G == {U \in SUBSET T : /\ sum[U] \in Int
                                     /\ \A y \in U : sum[U] = f[y] + sum[U \ {y}]}
  <1>2. ASSUME NEW U \in SUBSET T, \A V \in SUBSET U : V # U => V \in G
        PROVE  U \in G
    <2>1. CASE U = {}
      <3>1. sum[U] = 0 /\ \A y \in U : FALSE
        BY <1>1, <2>1
      <3>. QED
        BY <3>1
    <2>2. CASE U # {}
      <3>1. PICK p \in U : sum[U] = f[p] + sum[U \ {p}]
        BY <1>1, <2>2
      <3>2. \A y \in U : /\ U \ {y} \in G /\ sum[U \ {y}] \in Int
                         /\ \A z \in U \ {y} : sum[U \ {y}] = f[z] + sum[(U \ {y}) \ {z}]
        <4>1. \A y \in U : U \ {y} \in SUBSET U /\ U \ {y} # U
          OBVIOUS
        <4>. QED
          BY <1>2, <4>1
      <3>3. \A y \in U : f[y] \in Int
        OBVIOUS
      <3>4. sum[U] \in Int
        BY <3>1, <3>2, <3>3
      <3>5. ASSUME NEW y \in U PROVE sum[U] = f[y] + sum[U \ {y}]
        <4>1. CASE y = p
          BY <3>1, <4>1
        <4>2. CASE y # p
          <5>. DEFINE R == (U \ {p}) \ {y}
          <5>1. R \in SUBSET U /\ R # U /\ R = (U \ {y}) \ {p} /\ p \in U \ {y} /\ y \in U \ {p}
            BY <4>2
          <5>2. R \in G
            BY <1>2, <5>1
          <5>3. sum[R] \in Int
            BY <5>2
          <5>4. sum[U \ {p}] = f[y] + sum[R]
            BY <3>2, <5>1
          <5>. HIDE DEF R
          <5>5. sum[U \ {y}] = f[p] + sum[R]
            BY <3>2, <5>1
          <5>. QED
            BY <3>1, <3>3, <5>3, <5>4, <5>5
        <4>. QED
          BY <4>1, <4>2
      <3>. QED
        BY <3>4, <3>5
    <2>. QED
      BY <2>1, <2>2
  <1>. HIDE DEF G
  <1>3. \A U \in SUBSET T : U \in G
    BY <1>2, PartInduction
  <1>4. \A U \in SUBSET T : /\ sum[U] \in Int
                             /\ \A y \in U : sum[U] = f[y] + sum[U \ {y}]
    BY <1>3 DEF G
  <1>. QED
    BY <1>1, <1>4 DEF IntegerSum

\* The empty sum.
LEMMA SumOfNothing == \A f : SumFunctionOnSet(f, {}) = 0
  BY PartSums, FS_EmptySet DEF PartSum

\* Summing one more.
LEMMA SumAdd ==
    ASSUME NEW T, NEW x, NEW f, IsFiniteSet(T), x \notin T, \A y \in T \cup {x} : f[y] \in Int
    PROVE  /\ SumFunctionOnSet(f, T) \in Int
           /\ SumFunctionOnSet(f, T \cup {x}) = SumFunctionOnSet(f, T) + f[x]
  <1>. DEFINE W == T \cup {x}
  <1>1. IsFiniteSet(W) /\ W \ {x} = T /\ x \in W /\ W \in SUBSET W /\ T \in SUBSET W
        /\ \A y \in W : f[y] \in Int
    BY FS_AddElement
  <1>. HIDE DEF W
  <1>2. PICK sum : IntegerSum(f, W, sum)
    BY <1>1, SumTakes
  <1>3. sum[T] = SumFunctionOnSet(f, T) /\ sum[T] \in Int
    BY <1>1, <1>2 DEF IntegerSum
  <1>4. sum[W] = SumFunctionOnSet(f, W) /\ sum[W] = f[x] + sum[T]
    BY <1>1, <1>2 DEF IntegerSum
  <1>. QED
    BY <1>1, <1>3, <1>4 DEF W

\* Of natural numbers, a part adds up to no more than the whole.
LEMMA SumOfPart ==
    ASSUME NEW T, NEW U \in SUBSET T, NEW f, IsFiniteSet(T), \A x \in T : f[x] \in Nat
    PROVE  /\ SumFunctionOnSet(f, U) \in Nat
           /\ SumFunctionOnSet(f, U) <= SumFunctionOnSet(f, T)
  <1>0. \A x \in T : f[x] \in Int
    OBVIOUS
  <1>a. PICK sum : IntegerSum(f, T, sum)
    BY <1>0, SumTakes
  <1>1. \A V \in SUBSET T :
              /\ sum[V] = SumFunctionOnSet(f, V)
              /\ V = {} => sum[V] = 0
              /\ sum[V] \in Int
              /\ \A y \in V : sum[V] = f[y] + sum[V \ {y}]
    BY <1>a DEF IntegerSum
  <1>. DEFINE G == {V \in SUBSET T : \A W \in SUBSET V : sum[W] <= sum[V]}
  <1>2. ASSUME NEW V \in SUBSET T, \A W \in SUBSET V : W # V => W \in G
        PROVE  V \in G
    <2>1. ASSUME NEW W \in SUBSET V PROVE sum[W] <= sum[V]
      <3>1. sum[W] \in Int /\ sum[V] \in Int
        BY <1>1
      <3>2. CASE V = W
        BY <3>1, <3>2
      <3>3. CASE V # W
        <4>1. PICK y \in V : y \notin W
          BY <3>3
        <4>2. V \ {y} \in SUBSET V /\ V \ {y} # V /\ W \in SUBSET (V \ {y})
          BY <4>1
        <4>3. sum[W] <= sum[V \ {y}]
          BY <1>2, <4>2
        <4>4. sum[V] = f[y] + sum[V \ {y}] /\ sum[V \ {y}] \in Int /\ f[y] \in Nat
          BY <1>1
        <4>. QED
          BY <3>1, <4>3, <4>4
      <3>. QED
        BY <3>2, <3>3
    <2>. QED
      BY <2>1
  <1>. HIDE DEF G
  <1>3. \A V \in SUBSET T : V \in G
    BY <1>2, PartInduction
  <1>4. \A V \in SUBSET T : \A W \in SUBSET V : sum[W] <= sum[V]
    BY <1>3 DEF G
  <1>5. {} \in SUBSET U /\ {} \in SUBSET T /\ T \in SUBSET T
    OBVIOUS
  <1>6. sum[{}] = 0 /\ sum[{}] <= sum[U] /\ sum[U] <= sum[T] /\ sum[U] \in Int
    BY <1>1, <1>4, <1>5
  <1>. QED
    BY <1>1, <1>5, <1>6

\* A set that a list without repetition runs through has as many members as the list.
LEMMA ListedSet ==
    ASSUME NEW T, NEW n \in Nat, NEW list \in [1..n -> T],
           \A i, j \in 1..n : list[i] = list[j] => i = j,
           \A t \in T : \E i \in 1..n : list[i] = t
    PROVE  IsFiniteSet(T) /\ Cardinality(T) = n
  <1>1. IsFiniteSet(1..n) /\ Cardinality(1..n) = n
    BY FS_Interval
  <1>2. list \in Surjection(1..n, T) /\ list \in Injection(1..n, T)
    BY DEF Surjection, Injection, IsInjective
  <1>. QED
    BY <1>1, <1>2, FS_Surjection

IntegersOn(f, T) == \A y \in T : f[y] \in Int

AgreeOn(e, f, T) == \A y \in T : e[y] = f[y]

\* When one summand changes, or is left out, the sum changes by as much.
LEMMA SumChanges ==
    ASSUME NEW T, NEW x \in T, NEW e, NEW f,
           IsFiniteSet(T), IntegersOn(f, T), IntegersOn(e, T), AgreeOn(e, f, T \ {x})
    PROVE  /\ SumFunctionOnSet(f, T) \in Int
           /\ SumFunctionOnSet(e, T \ {x}) = SumFunctionOnSet(f, T) - f[x]
           /\ SumFunctionOnSet(e, T) = SumFunctionOnSet(f, T) - f[x] + e[x]
  <1>. DEFINE R == T \ {x}
  <1>1. IsFiniteSet(R) /\ x \notin R /\ R \cup {x} = T /\ R \subseteq T
    BY FS_RemoveElement
  <1>2. /\ \A y \in R \cup {x} : f[y] \in Int
        /\ \A y \in R \cup {x} : e[y] \in Int
        /\ \A y \in R : e[y] = f[y]
    BY <1>1 DEF IntegersOn, AgreeOn
  <1>3. f[x] \in Int
    BY DEF IntegersOn
  <1>. HIDE DEF R
  <1>4. SumFunctionOnSet(e, R) = SumFunctionOnSet(f, R)
    BY <1>1, <1>2, SumSame
  <1>5. /\ SumFunctionOnSet(f, R) \in Int
        /\ SumFunctionOnSet(f, R \cup {x}) = SumFunctionOnSet(f, R) + f[x]
    BY <1>1, <1>2, SumAdd
  <1>6. SumFunctionOnSet(e, R \cup {x}) = SumFunctionOnSet(e, R) + e[x]
    BY <1>1, <1>2, SumAdd
  <1>7. T \ {x} = R /\ T = R \cup {x}
    BY <1>1 DEF R
  <1>8. SumFunctionOnSet(f, T) = SumFunctionOnSet(f, R) + f[x]
    BY <1>5, <1>7
  <1>9. SumFunctionOnSet(e, T \ {x}) = SumFunctionOnSet(f, R)
    BY <1>4, <1>7
  <1>10. SumFunctionOnSet(e, T) = SumFunctionOnSet(f, R) + e[x]
    BY <1>4, <1>6, <1>7
  <1>. QED
    BY <1>3, <1>5, <1>8, <1>9, <1>10

=============================================================================
