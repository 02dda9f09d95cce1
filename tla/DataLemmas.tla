----------------------------- MODULE DataLemmas -----------------------------
(***************************************************************************)
(* Lemmas about finite data, used by the proofs of several modules: least  *)
(* and greatest numbers, ranks in a strict order, sums over finite sets.   *)
(***************************************************************************)
EXTENDS Integers, FiniteSets, FiniteSetTheorems, WellFoundedInduction, TLAPS

\* A set of natural numbers has a least element,
LEMMA LeastNat ==
  ASSUME NEW T, T \subseteq Nat, T # {}
  PROVE  \E n \in T : \A k \in T : n <= k
<1>1. PICK n \in T : \A k \in T : ~(<<k, n>> \in OpToRel(<, Nat))
  BY NatLessThanWellFounded, WFMin
<1>2. \A k \in T : ~(k < n)
  BY <1>1 DEF OpToRel
<1> QED  BY <1>2

\* and a bounded one a greatest.
LEMMA GreatestNat ==
  ASSUME NEW N \in Nat, NEW T, T \subseteq 0..N, T # {}
  PROVE  \E n \in T : \A k \in T : k <= n
<1> DEFINE U == {N - k : k \in T}
<1>1. U \subseteq Nat /\ U # {}
  <2>1. PICK k \in T : TRUE
    OBVIOUS
  <2>2. N - k \in U
    OBVIOUS
  <2>3. ASSUME NEW u \in U PROVE u \in Nat
    <3>1. PICK j \in T : u = N - j
      OBVIOUS
    <3>2. j \in 0..N
      OBVIOUS
    <3> QED  BY <3>1, <3>2
  <2> QED  BY <2>2, <2>3
<1>2. PICK u \in U : \A v \in U : u <= v
  <2> HIDE DEF U
  <2> QED  BY <1>1, LeastNat
<1>3. PICK n \in T : u = N - n
  OBVIOUS
<1>4. ASSUME NEW k \in T PROVE k <= n
  <2>1. N - k \in U
    OBVIOUS
  <2>2. u <= N - k /\ n \in 0..N /\ k \in 0..N
    BY <1>2, <2>1
  <2> QED  BY <1>3, <2>2
<1> QED  BY <1>4

\* What holds of 0, and of a number if it holds of the one before, holds up to N.
LEMMA CountingUp ==
  ASSUME NEW N \in Nat, NEW Q, 0 \in Q, \A n \in 1..N : n - 1 \in Q => n \in Q
  PROVE  \A n \in 0..N : n \in Q
<1> DEFINE bad == {n \in 0..N : n \notin Q}
<1>1. ASSUME bad # {} PROVE FALSE
  <2>1. PICK n \in bad : \A k \in bad : n <= k
    <3> HIDE DEF bad
    <3>1. bad \subseteq Nat  BY DEF bad
    <3> QED  BY <1>1, <3>1, LeastNat
  <2>2. n \in 1..N /\ n - 1 \in 0..N
    BY <2>1
  <2> QED  BY <2>1, <2>2
<1> QED  BY <1>1

-----------------------------------------------------------------------------
(* Ranks.  An order is a set of pairs; the rank of an element is the number *)
(* of those before it.                                                      *)

StrictOrder(R, S) ==
    /\ \A x \in S : <<x, x>> \notin R
    /\ \A x, y, z \in S : <<x, y>> \in R /\ <<y, z>> \in R => <<x, z>> \in R
    /\ \A x, y \in S : x = y \/ <<x, y>> \in R \/ <<y, x>> \in R

Preceding(x, R, S) == {y \in S : <<y, x>> \in R}

\* An element has fewer elements before it than there are.
LEMMA RankBounds ==
  ASSUME NEW S, IsFiniteSet(S), NEW R, StrictOrder(R, S), NEW x \in S
  PROVE  /\ IsFiniteSet(Preceding(x, R, S))
         /\ Cardinality(Preceding(x, R, S)) \in 0..(Cardinality(S) - 1)
<1>1. Preceding(x, R, S) \subseteq S \ {x}
  BY DEF Preceding, StrictOrder
<1>2. IsFiniteSet(S \ {x}) /\ Cardinality(S \ {x}) = Cardinality(S) - 1
  BY FS_RemoveElement
<1>3. IsFiniteSet(Preceding(x, R, S)) /\ Cardinality(Preceding(x, R, S)) <= Cardinality(S) - 1
  BY <1>1, <1>2, FS_Subset
<1> QED  BY <1>3, FS_CardinalityType

\* Of two elements the later one has more before it.
LEMMA RanksGrow ==
  ASSUME NEW S, IsFiniteSet(S), NEW R, StrictOrder(R, S), NEW x \in S, NEW y \in S,
         <<x, y>> \in R
  PROVE  Cardinality(Preceding(x, R, S)) < Cardinality(Preceding(y, R, S))
<1>1. Preceding(x, R, S) \subseteq Preceding(y, R, S) /\ x \in Preceding(y, R, S) /\ x \notin Preceding(x, R, S)
  BY DEF Preceding, StrictOrder
<1>2. IsFiniteSet(Preceding(x, R, S)) /\ IsFiniteSet(Preceding(y, R, S))
  BY RankBounds
<1>3. /\ Cardinality(Preceding(x, R, S)) \in Nat /\ Cardinality(Preceding(y, R, S)) \in Nat
      /\ Cardinality(Preceding(x, R, S) \union {x}) = Cardinality(Preceding(x, R, S)) + 1
  BY <1>1, <1>2, FS_CardinalityType, FS_AddElement
<1>4. Cardinality(Preceding(x, R, S) \union {x}) <= Cardinality(Preceding(y, R, S))
  BY <1>1, <1>2, FS_Subset
<1> QED  BY <1>3, <1>4

\* No two elements have the same number before them.
LEMMA RanksDiffer ==
  ASSUME NEW S, IsFiniteSet(S), NEW R, StrictOrder(R, S), NEW x \in S, NEW y \in S,
         Cardinality(Preceding(x, R, S)) = Cardinality(Preceding(y, R, S))
  PROVE  x = y
<1>1. /\ Cardinality(Preceding(x, R, S)) \in Int
      /\ Cardinality(Preceding(y, R, S)) \in Int
  BY RankBounds
<1>2. x = y \/ <<x, y>> \in R \/ <<y, x>> \in R
  BY DEF StrictOrder
<1>3. CASE <<x, y>> \in R
  <2>1. Cardinality(Preceding(x, R, S)) < Cardinality(Preceding(y, R, S))
    BY <1>3, RanksGrow
  <2> QED  BY <1>1, <2>1
<1>4. CASE <<y, x>> \in R
  <2>1. Cardinality(Preceding(y, R, S)) < Cardinality(Preceding(x, R, S))
    BY <1>4, RanksGrow
  <2> QED  BY <1>1, <2>1
<1> QED  BY <1>2, <1>3, <1>4

\* The number of those before it tells the order of elements.
LEMMA RankOrder ==
  ASSUME NEW S, IsFiniteSet(S), NEW R, StrictOrder(R, S), NEW x \in S, NEW y \in S,
         Cardinality(Preceding(x, R, S)) < Cardinality(Preceding(y, R, S))
  PROVE  <<x, y>> \in R
<1>1. /\ Cardinality(Preceding(x, R, S)) \in Int
      /\ Cardinality(Preceding(y, R, S)) \in Int
  BY RankBounds
<1>2. CASE <<y, x>> \in R
  <2>1. Cardinality(Preceding(y, R, S)) < Cardinality(Preceding(x, R, S))
    BY <1>2, RanksGrow
  <2> QED  BY <1>1, <2>1
<1>3. x # y
  BY <1>1
<1> QED  BY <1>2, <1>3 DEF StrictOrder

\* Every rank is taken: the ranks are an injection between sets of one size.
LEMMA RanksExist ==
  ASSUME NEW S, IsFiniteSet(S), NEW R, StrictOrder(R, S),
         NEW n \in 0..(Cardinality(S) - 1)
  PROVE  \E x \in S : Cardinality(Preceding(x, R, S)) = n
<1> DEFINE T    == 0..(Cardinality(S) - 1)
           rank == [x \in S |-> Cardinality(Preceding(x, R, S))]
<1>1. Cardinality(S) \in Nat
  BY FS_CardinalityType
<1>2. IsFiniteSet(T) /\ Cardinality(T) = Cardinality(S)
  BY <1>1, FS_Interval
<1>3. rank \in [S -> T]
  BY RankBounds
<1>4. ASSUME NEW x \in S, NEW y \in S, rank[x] = rank[y] PROVE x = y
  <2>1. Cardinality(Preceding(x, R, S)) = Cardinality(Preceding(y, R, S))
    BY <1>4
  <2> QED  BY <2>1, RanksDiffer
<1>5. rank \in Injection(S, T)
  BY <1>3, <1>4 DEF Injection, IsInjective
<1>6. rank \in Surjection(S, T)
  <2> HIDE DEF rank, T
  <2> QED  BY <1>2, <1>5, FS_Injection
<1>7. PICK x \in S : rank[x] = n
  <2>1. n \in T
    OBVIOUS
  <2> HIDE DEF rank, T
  <2> QED  BY <1>6, <2>1 DEF Surjection
<1> QED  BY <1>7

-----------------------------------------------------------------------------
(* Sums over finite sets.  A fold is a recursive function on the subsets of *)
(* the set: that there is one is by induction on their size.                *)

Some(s) == CHOOSE x \in s : TRUE

Rest(s) == s \ {Some(s)}

\* g is the sum of F over each of the sets.
Sums(g, sets, F) == g = [s \in sets |-> IF s = {} THEN 0 ELSE F[Some(s)] + g[Rest(s)]]

\* Taking an element out makes a set smaller by one.
LEMMA RestIsSmaller ==
  ASSUME NEW s, IsFiniteSet(s), s # {}
  PROVE  /\ Some(s) \in s /\ IsFiniteSet(Rest(s))
         /\ Cardinality(s) \in Nat \ {0} /\ Cardinality(Rest(s)) = Cardinality(s) - 1
<1>1. Some(s) \in s
  BY DEF Some
<1> QED  BY <1>1, FS_RemoveElement, FS_CardinalityType, FS_EmptySet DEF Rest

\* What holds of the empty set, and of a set if it holds of the rest, holds of all.
LEMMA SubsetInduction ==
  ASSUME NEW S, IsFiniteSet(S), NEW Q, {} \in Q,
         \A s \in SUBSET S : s # {} /\ Rest(s) \in Q => s \in Q
  PROVE  S \in Q
<1> DEFINE bad == {n \in Nat : \E s \in SUBSET S : s \notin Q /\ Cardinality(s) = n}
<1>1. ASSUME bad # {} PROVE FALSE
  <2>1. PICK n \in bad : \A k \in bad : n <= k
    <3> HIDE DEF bad
    <3>1. bad \subseteq Nat  BY DEF bad
    <3> QED  BY <1>1, <3>1, LeastNat
  <2>2. PICK s \in SUBSET S : s \notin Q /\ Cardinality(s) = n
    OBVIOUS
  <2>3. IsFiniteSet(s) /\ s # {}
    BY <2>2, FS_Subset
  <2>4. Rest(s) \in SUBSET S /\ Rest(s) \notin Q
    BY <2>2, <2>3 DEF Rest
  <2>5. Cardinality(Rest(s)) \in Nat /\ Cardinality(Rest(s)) < n
    BY <2>2, <2>3, RestIsSmaller
  <2>6. Cardinality(Rest(s)) \in bad
    BY <2>4, <2>5
  <2> QED  BY <2>1, <2>5, <2>6
<1>2. Cardinality(S) \in Nat
  BY FS_CardinalityType
<1> QED  BY <1>1, <1>2

\* Sums over the subsets of a finite set exist.
LEMMA SumsExist ==
  ASSUME NEW S, IsFiniteSet(S), NEW F
  PROVE  \E g : Sums(g, SUBSET S, F)
<1> DEFINE UpTo(n) == {s \in SUBSET S : Cardinality(s) <= n}
           bad     == {n \in Nat : ~ \E g : Sums(g, UpTo(n), F)}
<1>1. ASSUME NEW s \in SUBSET S
      PROVE  /\ IsFiniteSet(s) /\ Cardinality(s) \in Nat /\ Cardinality(s) <= Cardinality(S)
             /\ Cardinality(s) = 0 <=> s = {}
             /\ s # {} => Rest(s) \in SUBSET S /\ Cardinality(Rest(s)) = Cardinality(s) - 1
  <2>1. IsFiniteSet(s) /\ Cardinality(s) \in Nat /\ Cardinality(s) <= Cardinality(S)
    BY FS_Subset, FS_CardinalityType
  <2> QED  BY <2>1, RestIsSmaller, FS_EmptySet DEF Rest
<1>2. ASSUME bad # {} PROVE FALSE
  <2>1. PICK n \in bad : \A k \in bad : n <= k
    <3> HIDE DEF bad
    <3>1. bad \subseteq Nat  BY DEF bad
    <3> QED  BY <1>2, <3>1, LeastNat
  <2>2. CASE n = 0
    <3> DEFINE g == [s \in UpTo(0) |-> 0]
    <3>1. \A s \in UpTo(0) : s = {}
      BY <1>1
    <3>2. Sums(g, UpTo(0), F)
      BY <3>1 DEF Sums
    <3> QED  BY <2>2, <3>2
  <2>3. CASE n # 0
    <3>1. n \in Nat /\ n - 1 \in Nat /\ n - 1 \notin bad
      <4>1. n \in Nat /\ n - 1 \in Nat  BY <2>3
      <4>2. ~(n <= n - 1)  BY <4>1
      <4> QED  BY <2>1, <4>1, <4>2
    <3>2. PICK g : Sums(g, UpTo(n - 1), F)
      BY <3>1
    <3> DEFINE h == [s \in UpTo(n) |-> IF s = {} THEN 0 ELSE F[Some(s)] + g[Rest(s)]]
    <3>3. ASSUME NEW s \in UpTo(n - 1) PROVE h[s] = g[s]
      <4>1. s \in UpTo(n)
        BY <1>1, <3>1
      <4> QED  BY <3>2, <3>3, <4>1 DEF Sums
    <3>4. ASSUME NEW s \in UpTo(n), s # {} PROVE h[s] = F[Some(s)] + h[Rest(s)]
      <4>1. Rest(s) \in UpTo(n - 1)
        BY <1>1, <3>1, <3>4
      <4>2. h[s] = F[Some(s)] + g[Rest(s)]
        BY <3>4
      <4> HIDE DEF h
      <4> QED  BY <3>3, <4>1, <4>2
    <3>5. Sums(h, UpTo(n), F)
      <4>1. DOMAIN h = UpTo(n) /\ \A s \in UpTo(n) : s = {} => h[s] = 0
        OBVIOUS
      <4>2. h = [s \in UpTo(n) |-> h[s]]
        OBVIOUS
      <4> HIDE DEF h, UpTo
      <4> QED  BY <3>4, <4>1, <4>2 DEF Sums
    <3> QED  BY <3>5
  <2> QED  BY <2>2, <2>3
<1>3. PICK g : Sums(g, UpTo(Cardinality(S)), F)
  BY <1>2, FS_CardinalityType
<1>4. UpTo(Cardinality(S)) = SUBSET S
  BY <1>1
<1> QED  BY <1>3, <1>4

\* Sums grow with their terms.
LEMMA SumsGrow ==
  ASSUME NEW S, IsFiniteSet(S), NEW F, NEW G, NEW f, NEW g,
         Sums(f, SUBSET S, F), Sums(g, SUBSET S, G),
         \A i \in S : F[i] \in Nat /\ G[i] \in Nat /\ F[i] <= G[i]
  PROVE  f[S] \in Nat /\ g[S] \in Nat /\ f[S] <= g[S]
<1> DEFINE Q == {s \in SUBSET S : f[s] \in Nat /\ g[s] \in Nat /\ f[s] <= g[s]}
<1>1. {} \in Q
  BY DEF Sums
<1>2. ASSUME NEW s \in SUBSET S, s # {}, Rest(s) \in Q PROVE s \in Q
  <2>1. Some(s) \in S
    BY <1>2 DEF Some
  <2>2. f[s] = F[Some(s)] + f[Rest(s)] /\ g[s] = G[Some(s)] + g[Rest(s)]
    BY <1>2 DEF Sums
  <2> QED  BY <1>2, <2>1, <2>2
<1>3. S \in Q
  <2> HIDE DEF Q
  <2> QED  BY <1>1, <1>2, SubsetInduction
<1> QED  BY <1>3

\* What holds of a set if it holds of all smaller ones, holds of all.
LEMMA SizeInduction ==
  ASSUME NEW S, IsFiniteSet(S), NEW Q,
         \A s \in SUBSET S :
             (\A t \in SUBSET S : Cardinality(t) < Cardinality(s) => t \in Q) => s \in Q
  PROVE  SUBSET S \subseteq Q
<1> DEFINE bad == {n \in Nat : \E s \in SUBSET S : s \notin Q /\ Cardinality(s) = n}
<1>1. \A s \in SUBSET S : Cardinality(s) \in Nat
  BY FS_Subset, FS_CardinalityType
<1>2. ASSUME bad # {} PROVE FALSE
  <2>1. PICK n \in bad : \A k \in bad : n <= k
    <3> HIDE DEF bad
    <3>1. bad \subseteq Nat  BY DEF bad
    <3> QED  BY <1>2, <3>1, LeastNat
  <2>2. PICK s \in SUBSET S : s \notin Q /\ Cardinality(s) = n
    OBVIOUS
  <2>3. PICK t \in SUBSET S : Cardinality(t) < Cardinality(s) /\ t \notin Q
    BY <2>2
  <2>4. Cardinality(t) \in bad
    BY <1>1, <2>3
  <2>5. n <= Cardinality(t) /\ Cardinality(t) < n /\ n \in Nat /\ Cardinality(t) \in Nat
    BY <1>1, <2>1, <2>2, <2>3, <2>4
  <2> QED  BY <2>5
<1>3. ASSUME NEW s \in SUBSET S PROVE s \in Q
  <2>1. Cardinality(s) \notin bad
    BY <1>2
  <2> QED  BY <1>1, <2>1
<1> QED  BY <1>3

\* An element may be taken out of a sum in any order.
LEMMA SumsTakeOut ==
  ASSUME NEW S, IsFiniteSet(S), NEW F, NEW g, Sums(g, SUBSET S, F),
         \A i \in S : F[i] \in Int
  PROVE  \A s \in SUBSET S : g[s] \in Int /\ \A x \in s : g[s] = F[x] + g[s \ {x}]
<1> DEFINE Q == {s \in SUBSET S : g[s] \in Int /\ \A x \in s : g[s] = F[x] + g[s \ {x}]}
<1>1. g[{}] = 0 /\ \A s \in SUBSET S : s # {} => g[s] = F[Some(s)] + g[Rest(s)]
  BY DEF Sums
<1>2. ASSUME NEW s \in SUBSET S,
             \A t \in SUBSET S : Cardinality(t) < Cardinality(s) => t \in Q
      PROVE  s \in Q
  <2>1. CASE s = {}
    BY <1>1, <2>1
  <2>2. CASE s # {}
    <3> DEFINE p == Some(s)
    <3>1. IsFiniteSet(s) /\ p \in s /\ Cardinality(s) \in Nat
      BY <2>2, FS_Subset, FS_CardinalityType DEF Some
    <3>2. ASSUME NEW x \in s
          PROVE  s \ {x} \in SUBSET S /\ s \ {x} \in Q
      <4>1. Cardinality(s \ {x}) = Cardinality(s) - 1
        BY <3>1, FS_RemoveElement
      <4>2. s \ {x} \in SUBSET S /\ Cardinality(s \ {x}) < Cardinality(s)
        BY <3>1, <4>1
      <4> HIDE DEF Q
      <4> QED  BY <1>2, <4>2
    <3>3. g[s] = F[p] + g[s \ {p}] /\ g[s \ {p}] \in Int /\ F[p] \in Int
      BY <1>1, <2>2, <3>1, <3>2 DEF Rest
    <3>4. ASSUME NEW x \in s, x # p PROVE g[s] = F[x] + g[s \ {x}]
      <4> DEFINE u == (s \ {p}) \ {x}
      <4>1. u = (s \ {x}) \ {p} /\ x \in s \ {p} /\ p \in s \ {x}
        BY <3>1, <3>4
      <4>2. g[s \ {p}] = F[x] + g[u]
        BY <3>1, <3>2, <4>1
      <4>3. g[s \ {x}] = F[p] + g[(s \ {x}) \ {p}]
        BY <3>2, <4>1
      <4>4. g[s \ {x}] = F[p] + g[u]
        BY <4>1, <4>3
      <4>5. u \in Q /\ F[x] \in Int
        <5>1. Cardinality(s \ {p}) = Cardinality(s) - 1 /\ IsFiniteSet(s \ {p})
          BY <3>1, FS_RemoveElement
        <5>2. Cardinality(u) = Cardinality(s \ {p}) - 1
          BY <4>1, <5>1, FS_RemoveElement
        <5>3. u \in SUBSET S /\ Cardinality(u) < Cardinality(s)
          BY <3>1, <5>1, <5>2
        <5> HIDE DEF Q, u
        <5> QED  BY <1>2, <5>3
      <4>6. g[u] \in Int
        BY <4>5
      <4> HIDE DEF u, p
      <4> QED  BY <3>3, <4>2, <4>4, <4>5, <4>6
    <3>5. g[s] \in Int /\ \A x \in s : g[s] = F[x] + g[s \ {x}]
      <4> HIDE DEF p, Q
      <4>1. g[s] \in Int
        BY <3>3
      <4>2. ASSUME NEW x \in s PROVE g[s] = F[x] + g[s \ {x}]
        <5>1. CASE x = p
          BY <3>3, <5>1
        <5>2. CASE x # p
          BY <3>4, <5>2
        <5> QED  BY <5>1, <5>2
      <4> QED  BY <4>1, <4>2
    <3> QED  BY <3>5
  <2> QED  BY <2>1, <2>2
<1>3. SUBSET S \subseteq Q
  <2> HIDE DEF Q
  <2> QED  BY <1>2, SizeInduction
<1> QED  BY <1>3

\* The sum of a function is such a sum.
LEMMA SumIs ==
  ASSUME NEW w, IsFiniteSet(DOMAIN w)
  PROVE  \E g : Sums(g, SUBSET (DOMAIN w), w) /\ SumFunction(w) = g[DOMAIN w]
<1> DEFINE S == DOMAIN w
           iter[s \in SUBSET S] == IF s = {} THEN 0 ELSE w[Some(s)] + iter[s \ {Some(s)}]
<1>1. PICK g : Sums(g, SUBSET S, w)
  BY SumsExist
<1>2. g = [s \in SUBSET S |-> IF s = {} THEN 0 ELSE w[Some(s)] + g[s \ {Some(s)}]]
  BY <1>1 DEF Sums, Rest
<1>3. iter = [s \in SUBSET S |-> IF s = {} THEN 0 ELSE w[Some(s)] + iter[s \ {Some(s)}]]
  BY <1>2
<1>4. SumFunction(w) = iter[S]
  BY DEF SumFunction, SumFunctionOnSet, FoldFunctionOnSet, MapThenFoldSet, Some
<1> HIDE DEF iter
<1>5. Sums(iter, SUBSET S, w)
  BY <1>3 DEF Sums, Rest
<1> QED  BY <1>4, <1>5

\* The sum over a set does not depend on the larger set it is seen in.
LEMMA SumsAgree ==
  ASSUME NEW S, IsFiniteSet(S), NEW F, NEW g, Sums(g, SUBSET S, F),
         NEW T \in SUBSET S, NEW h, Sums(h, SUBSET T, F)
  PROVE  g[T] = h[T]
<1> DEFINE Q == {s \in SUBSET T : g[s] = h[s]}
<1>1. {} \in Q
  BY DEF Sums
<1>2. ASSUME NEW s \in SUBSET T, s # {}, Rest(s) \in Q PROVE s \in Q
  <2>1. s \in SUBSET S
    BY <1>2
  <2>2. g[s] = F[Some(s)] + g[Rest(s)] /\ h[s] = F[Some(s)] + h[Rest(s)]
    BY <1>2, <2>1 DEF Sums
  <2> QED  BY <1>2, <2>2
<1>3. T \in Q
  <2>1. IsFiniteSet(T)
    BY FS_Subset
  <2> HIDE DEF Q
  <2> QED  BY <1>1, <1>2, <2>1, SubsetInduction
<1> QED  BY <1>3

\* Equal terms have equal sums.
LEMMA SumsOfSame ==
  ASSUME NEW S, NEW F, NEW G, NEW g, Sums(g, SUBSET S, F), \A i \in S : F[i] = G[i]
  PROVE  Sums(g, SUBSET S, G)
<1>1. \A s \in SUBSET S : s # {} => F[Some(s)] = G[Some(s)]
  BY DEF Some
<1> QED  BY <1>1 DEF Sums

\* Sums of natural numbers are natural.
LEMMA SumType ==
  ASSUME NEW w, IsFiniteSet(DOMAIN w), \A i \in DOMAIN w : w[i] \in Nat
  PROVE  SumFunction(w) \in Nat
<1>1. PICK g : Sums(g, SUBSET (DOMAIN w), w) /\ SumFunction(w) = g[DOMAIN w]
  BY SumIs
<1>2. g[DOMAIN w] \in Nat
  BY <1>1, SumsGrow
<1> QED  BY <1>1, <1>2

\* The empty sum.
LEMMA SumEmpty ==
  ASSUME NEW w, DOMAIN w = {}
  PROVE  SumFunction(w) = 0
<1>1. PICK g : Sums(g, SUBSET (DOMAIN w), w) /\ SumFunction(w) = g[DOMAIN w]
  BY SumIs, FS_EmptySet
<1> QED  BY <1>1 DEF Sums

\* A term may be taken out of a sum.
LEMMA SumTakeOut ==
  ASSUME NEW v, IsFiniteSet(DOMAIN v), \A i \in DOMAIN v : v[i] \in Nat,
         NEW x \in DOMAIN v, NEW w, DOMAIN w = DOMAIN v \ {x},
         \A i \in DOMAIN w : w[i] = v[i]
  PROVE  SumFunction(v) = v[x] + SumFunction(w)
<1> DEFINE S == DOMAIN v
           T == DOMAIN w
           F == v
           G == w
<1>1. PICK g : Sums(g, SUBSET S, F) /\ SumFunction(v) = g[S]
  BY SumIs
<1>2. IsFiniteSet(T) /\ T \in SUBSET S /\ S \in SUBSET S /\ x \in S /\ IsFiniteSet(S)
  BY FS_Subset
<1>3. PICK h : Sums(h, SUBSET T, G) /\ SumFunction(w) = h[T]
  BY <1>2, SumIs
<1>4. T = S \ {x} /\ (\A i \in T : F[i] = G[i]) /\ (\A i \in S : F[i] \in Int)
  OBVIOUS
<1> HIDE DEF S, T, F, G
<1>5. g[T] = h[T]
  <2>1. Sums(h, SUBSET T, F)
    <3>1. Sums(h, SUBSET T, G) /\ \A i \in T : G[i] = F[i]
      BY <1>3, <1>4
    <3> QED  BY ONLY <3>1, SumsOfSame
  <2>2. IsFiniteSet(S) /\ Sums(g, SUBSET S, F) /\ T \in SUBSET S
    BY <1>1, <1>2
  <2> QED  BY ONLY <2>1, <2>2, SumsAgree
<1>6. g[S] = F[x] + g[S \ {x}]
  BY ONLY <1>1, <1>2, <1>4, SumsTakeOut
<1> QED  BY <1>1, <1>3, <1>4, <1>5, <1>6 DEF F

\* A sum does not depend on what its terms are indexed by.
LEMMA SumMoved ==
  ASSUME NEW v, NEW w, IsFiniteSet(DOMAIN v), IsFiniteSet(DOMAIN w),
         NEW b \in [DOMAIN w -> DOMAIN v],
         \A x, y \in DOMAIN w : b[x] = b[y] => x = y,
         \A y \in DOMAIN v : \E x \in DOMAIN w : b[x] = y,
         \A y \in DOMAIN v : v[y] \in Nat,
         \A x \in DOMAIN w : w[x] = v[b[x]]
  PROVE  SumFunction(w) = SumFunction(v)
<1> DEFINE T == DOMAIN w
           Moved(s) == {b[x] : x \in s}
<1>1. PICK g : Sums(g, SUBSET T, w) /\ SumFunction(w) = g[T]
  BY SumIs
<1>2. PICK h : Sums(h, SUBSET (DOMAIN v), v) /\ SumFunction(v) = h[DOMAIN v]
  BY SumIs
<1> DEFINE Q == {s \in SUBSET T : g[s] = h[Moved(s)]}
<1>3. {} \in Q
  <2>1. Moved({}) = {}
    OBVIOUS
  <2> QED  BY <1>1, <1>2, <2>1 DEF Sums
<1>4. ASSUME NEW s \in SUBSET T, s # {}, Rest(s) \in Q PROVE s \in Q
  <2> DEFINE p == Some(s)
  <2>1. p \in s /\ p \in T
    BY <1>4 DEF Some
  <2>2. g[s] = w[p] + g[Rest(s)]
    BY <1>1, <1>4 DEF Sums
  <2>3. Moved(s) \in SUBSET (DOMAIN v) /\ b[p] \in Moved(s)
    BY <2>1
  <2>4. Moved(Rest(s)) = Moved(s) \ {b[p]}
    <3> HIDE DEF p
    <3> QED  BY <2>1 DEF Rest, p
  <2>5. \A y \in DOMAIN v : v[y] \in Int
    OBVIOUS
  <2>6. h[Moved(s)] = v[b[p]] + h[Moved(s) \ {b[p]}]
    <3> HIDE DEF Moved, p
    <3> QED  BY <1>2, <2>3, <2>5, SumsTakeOut
  <2>7. g[Rest(s)] = h[Moved(Rest(s))]
    BY <1>4
  <2>8. w[p] = v[b[p]]
    BY <2>1
  <2>9. g[s] = h[Moved(s)]
    <3> HIDE DEF Moved, p
    <3> QED  BY <2>2, <2>4, <2>6, <2>7, <2>8
  <2> QED  BY <2>9
<1>5. T \in Q
  <2> HIDE DEF Q
  <2> QED  BY <1>3, <1>4, SubsetInduction
<1>6. Moved(T) = DOMAIN v
  OBVIOUS
<1> QED  BY <1>1, <1>2, <1>5, <1>6

=============================================================================
