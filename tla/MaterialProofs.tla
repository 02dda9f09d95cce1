--------------------------- MODULE MaterialProofs ---------------------------
(***************************************************************************)
(* From the upload to the verified citation: that a repository has one     *)
(* file set, that a prompt leads with the files that the criterion names   *)
(* and keeps to its budgets, and that what is quoted of a prompt is        *)
(* verified; for all sources, texts, paths, criteria and limits.           *)
(***************************************************************************)
EXTENDS Material, DataLemmas

-----------------------------------------------------------------------------
(* Sets in order, and picked places.                                        *)

\* Each place of a sorted set has the element with so many before it.
LEMMA InOrderShape ==
  ASSUME NEW S, IsFiniteSet(S), NEW R, StrictOrder(R, S)
  PROVE  /\ Cardinality(S) \in Nat
         /\ InOrder(S, R) \in [1..Cardinality(S) -> S]
         /\ \A n \in 1..Cardinality(S) : Cardinality(Preceding(InOrder(S, R)[n], R, S)) = n - 1
<1>1. Cardinality(S) \in Nat
  BY FS_CardinalityType
<1>2. ASSUME NEW n \in 1..Cardinality(S)
      PROVE  InOrder(S, R)[n] \in S /\ Cardinality(Preceding(InOrder(S, R)[n], R, S)) = n - 1
  <2>1. n - 1 \in 0..(Cardinality(S) - 1)
    BY <1>1
  <2>2. \E x \in S : Cardinality(Preceding(x, R, S)) = n - 1
    BY <2>1, RanksExist
  <2>3. InOrder(S, R)[n] = CHOOSE x \in S : Cardinality(Preceding(x, R, S)) = n - 1
    BY DEF InOrder, Preceding
  <2> QED  BY <2>2, <2>3
<1>3. InOrder(S, R) = [n \in 1..Cardinality(S) |-> InOrder(S, R)[n]]
  <2> DEFINE At(n) == CHOOSE x \in S : Cardinality({y \in S : <<y, x>> \in R}) = n - 1
  <2>1. InOrder(S, R) = [n \in 1..Cardinality(S) |-> At(n)]
    BY DEF InOrder
  <2> HIDE DEF At
  <2> QED  BY <2>1
<1> QED  BY <1>1, <1>2, <1>3

\* Each element of a sorted set has its place.
LEMMA InOrderOnly ==
  ASSUME NEW S, IsFiniteSet(S), NEW R, StrictOrder(R, S), NEW x \in S
  PROVE  /\ Cardinality(Preceding(x, R, S)) + 1 \in 1..Cardinality(S)
         /\ InOrder(S, R)[Cardinality(Preceding(x, R, S)) + 1] = x
<1> DEFINE n == Cardinality(Preceding(x, R, S)) + 1
<1>1. n \in 1..Cardinality(S)
  BY RankBounds, FS_CardinalityType
<1>2. InOrder(S, R)[n] \in S
  BY <1>1, InOrderShape
<1>3. Cardinality(Preceding(InOrder(S, R)[n], R, S)) = n - 1
  <2> HIDE DEF n
  <2> QED  BY <1>1, InOrderShape
<1>4. Cardinality(Preceding(InOrder(S, R)[n], R, S)) = Cardinality(Preceding(x, R, S))
  <2>1. Cardinality(Preceding(x, R, S)) \in Int
    BY RankBounds
  <2> QED  BY <1>3, <2>1
<1>5. InOrder(S, R)[n] = x
  <2> HIDE DEF n
  <2> QED  BY <1>2, <1>4, RanksDiffer
<1> QED  BY <1>1, <1>5

\* A sorted set is in order.
LEMMA InOrderGrows ==
  ASSUME NEW S, IsFiniteSet(S), NEW R, StrictOrder(R, S),
         NEW m \in 1..Cardinality(S), NEW n \in 1..Cardinality(S), m < n
  PROVE  <<InOrder(S, R)[m], InOrder(S, R)[n]>> \in R
<1> DEFINE x == InOrder(S, R)[m]
           y == InOrder(S, R)[n]
<1>1. x \in S /\ y \in S
  BY InOrderShape
<1>2. Cardinality(Preceding(x, R, S)) = m - 1 /\ Cardinality(Preceding(y, R, S)) = n - 1
  BY InOrderShape
<1>3. Cardinality(Preceding(x, R, S)) < Cardinality(Preceding(y, R, S))
  BY <1>2
<1> HIDE DEF x, y
<1>4. <<x, y>> \in R
  BY <1>1, <1>3, RankOrder
<1> QED  BY <1>4 DEF x, y

Increasing(K) == {ij \in K \X K : ij[1] < ij[2]}

Places(K) == InOrder(K, Increasing(K))

Below(k, K) == {j \in K : j < k}

\* Numbers are in a strict order.
LEMMA IncreasingOrder ==
  ASSUME NEW K, K \subseteq Int
  PROVE  StrictOrder(Increasing(K), K) /\ \A k \in K : Preceding(k, Increasing(K), K) = Below(k, K)
<1>1. \A i, j \in K : <<i, j>> \in Increasing(K) <=> i < j
  BY DEF Increasing
<1>2. \A i, j, k \in K : ~(i < i) /\ (i < j /\ j < k => i < k) /\ (i = j \/ i < j \/ j < i)
  OBVIOUS
<1> QED  BY <1>1, <1>2 DEF StrictOrder, Preceding, Below

\* A set of places in increasing order.
LEMMA PlacesShape ==
  ASSUME NEW K, IsFiniteSet(K), K \subseteq Int
  PROVE  /\ Cardinality(K) \in Nat
         /\ Places(K) \in [1..Cardinality(K) -> K]
         /\ \A n \in 1..Cardinality(K) : Cardinality(Below(Places(K)[n], K)) = n - 1
         /\ \A m, n \in 1..Cardinality(K) : m < n => Places(K)[m] < Places(K)[n]
<1> DEFINE R == Increasing(K)
<1>1. StrictOrder(R, K) /\ \A k \in K : Preceding(k, R, K) = Below(k, K)
  BY IncreasingOrder
<1>2. \A i, j \in K : <<i, j>> \in R => i < j
  BY DEF Increasing
<1> HIDE DEF R
<1>3. /\ Cardinality(K) \in Nat
      /\ InOrder(K, R) \in [1..Cardinality(K) -> K]
      /\ \A n \in 1..Cardinality(K) : Cardinality(Preceding(InOrder(K, R)[n], R, K)) = n - 1
  BY <1>1, InOrderShape
<1>4. \A m, n \in 1..Cardinality(K) : m < n => InOrder(K, R)[m] < InOrder(K, R)[n]
  BY <1>1, <1>2, <1>3, InOrderGrows
<1> QED  BY <1>1, <1>3, <1>4 DEF Places, R

\* A place comes after those that are below it.
LEMMA PlacesOnly ==
  ASSUME NEW K, IsFiniteSet(K), K \subseteq Int, NEW k \in K
  PROVE  /\ Cardinality(Below(k, K)) + 1 \in 1..Cardinality(K)
         /\ Places(K)[Cardinality(Below(k, K)) + 1] = k
<1> DEFINE R == Increasing(K)
<1>1. StrictOrder(R, K) /\ Preceding(k, R, K) = Below(k, K)
  BY IncreasingOrder
<1> HIDE DEF R
<1> QED  BY <1>1, InOrderOnly DEF Places, R

\* Picking goes by the places in increasing order.
LEMMA PickShape ==
  ASSUME NEW s, NEW K
  PROVE  Pick(s, K) = [n \in 1..Cardinality(K) |-> s[Places(K)[n]]]
BY DEF Pick, Places, Increasing, InOrder

\* The places of L are places of K that follow each other.
Follow(L, K) ==
    \E d \in Nat : /\ d + Cardinality(L) <= Cardinality(K)
                   /\ \A n \in 1..Cardinality(L) : /\ d + n \in 1..Cardinality(K)
                                                   /\ Places(L)[n] = Places(K)[d + n]

\* Those between two bounds do.
Between(K, lo, hi) == {k \in K : lo <= k /\ k <= hi}

\* The places within two bounds follow each other among all places.
LEMMA PlacesBetween ==
  ASSUME NEW K, IsFiniteSet(K), K \subseteq Int, NEW lo \in Int, NEW hi \in Int,
         NEW L, L = Between(K, lo, hi)
  PROVE  Follow(L, K)
<1>1. /\ IsFiniteSet(L) /\ L \subseteq K /\ L \subseteq Int
      /\ \A k \in K : k \in L <=> lo <= k /\ k <= hi
  <2>1. L \subseteq K /\ \A k \in K : k \in L <=> lo <= k /\ k <= hi
    BY DEF Between
  <2> QED  BY <2>1, FS_Subset
<1>2. Cardinality(K) \in Nat /\ Cardinality(L) \in Nat
  BY <1>1, FS_CardinalityType
<1>3. IsFiniteSet(Below(lo, K)) /\ Cardinality(Below(lo, K)) \in Nat
  <2>1. Below(lo, K) \subseteq K
    BY DEF Below
  <2> QED  BY <2>1, FS_Subset, FS_CardinalityType
<1> DEFINE d == Cardinality(Below(lo, K))
<1>4. ASSUME NEW k \in L
      PROVE  Cardinality(Below(k, K)) = d + Cardinality(Below(k, L))
  <2>1. IsFiniteSet(Below(k, L)) /\ Cardinality(Below(k, L)) \in Nat
    <3>1. Below(k, L) \subseteq L
      BY DEF Below
    <3> QED  BY <1>1, <3>1, FS_Subset, FS_CardinalityType
  <2>2. lo <= k /\ k <= hi /\ k \in Int
    BY <1>1
  <2>3. Below(lo, K) \intersect Below(k, L) = {}
    <3>1. \A j \in L : j \in Int /\ j \in K /\ lo <= j
      BY <1>1
    <3>2. \A j \in L : ~(j < lo)
      BY <3>1
    <3> QED  BY <3>2 DEF Below
  <2>4. Below(k, K) = Below(lo, K) \union Below(k, L)
    <3>1. ASSUME NEW j \in K
          PROVE  j < k <=> j < lo \/ (lo <= j /\ j <= hi /\ j < k)
      <4>1. j \in Int
        OBVIOUS
      <4> QED  BY <2>2, <4>1
    <3> QED  BY <1>1, <3>1 DEF Below
  <2>5. Cardinality(Below(k, K)) = d + Cardinality(Below(k, L)) - Cardinality({})
    BY <1>3, <2>1, <2>3, <2>4, FS_Union
  <2> QED  BY <1>3, <2>1, <2>5, FS_EmptySet
<1>5. ASSUME NEW n \in 1..Cardinality(L)
      PROVE  d + n \in 1..Cardinality(K) /\ Places(L)[n] = Places(K)[d + n]
  <2>1. Places(L)[n] \in L /\ Cardinality(Below(Places(L)[n], L)) = n - 1
    BY <1>1, PlacesShape
  <2>2. Cardinality(Below(Places(L)[n], K)) + 1 = d + n
    <3>1. Cardinality(Below(Places(L)[n], K)) = d + (n - 1)
      BY <1>4, <2>1
    <3> QED  BY <1>3, <3>1
  <2>3. Places(L)[n] \in K
    BY <1>1, <2>1
  <2> HIDE DEF d
  <2> QED  BY <2>2, <2>3, PlacesOnly
<1>6. CASE Cardinality(L) = 0
  <2>1. 0 + Cardinality(L) <= Cardinality(K) /\ 1..Cardinality(L) = {}
    BY <1>2, <1>6
  <2> QED  BY <2>1 DEF Follow
<1>7. CASE Cardinality(L) # 0
  <2>1. d + Cardinality(L) \in 1..Cardinality(K)
    <3>1. Cardinality(L) \in 1..Cardinality(L)
      BY <1>2, <1>7
    <3> HIDE DEF d
    <3> QED  BY <1>5, <3>1
  <2>2. d \in Nat /\ d + Cardinality(L) <= Cardinality(K)
    BY <1>2, <1>3, <2>1
  <2> HIDE DEF d
  <2> QED  BY <1>5, <2>2 DEF Follow
<1> QED  BY <1>6, <1>7

Shifted(K, c) == {k + c : k \in K}

\* Moving all places by one distance keeps their number,
LEMMA ShiftedSize ==
  ASSUME NEW K, IsFiniteSet(K), K \subseteq Int, NEW c \in Int
  PROVE  /\ IsFiniteSet(Shifted(K, c)) /\ Shifted(K, c) \subseteq Int
         /\ Cardinality(Shifted(K, c)) = Cardinality(K)
<1> DEFINE f == [k \in K |-> k + c]
<1>1. f \in [K -> Shifted(K, c)]
  BY DEF Shifted
<1>2. ASSUME NEW x \in K, NEW y \in K, f[x] = f[y] PROVE x = y
  <2>1. x \in Int /\ y \in Int /\ x + c = y + c
    BY <1>2
  <2> QED  BY <2>1
<1>3. \A y \in Shifted(K, c) : \E x \in K : f[x] = y
  BY DEF Shifted
<1>4. f \in Bijection(K, Shifted(K, c))
  <2> HIDE DEF f
  <2> QED  BY <1>1, <1>2, <1>3 DEF Bijection, Injection, Surjection, IsInjective
<1>5. ExistsBijection(K, Shifted(K, c))
  <2> HIDE DEF f
  <2> QED  BY <1>4 DEF ExistsBijection
<1>6. Shifted(K, c) \subseteq Int
  BY DEF Shifted
<1> QED  BY <1>5, <1>6, FS_Bijection

\* and their order.
LEMMA PlacesShifted ==
  ASSUME NEW K, IsFiniteSet(K), K \subseteq Int, NEW c \in Int, NEW n \in 1..Cardinality(K)
  PROVE  Places(Shifted(K, c))[n] = Places(K)[n] + c
<1> DEFINE k == Places(K)[n]
           M == Shifted(K, c)
<1>1. k \in K /\ k \in Int /\ Cardinality(Below(k, K)) = n - 1
  BY PlacesShape
<1>2. k + c \in M
  BY <1>1 DEF Shifted
<1>3. Below(k + c, M) = Shifted(Below(k, K), c)
  <2>1. ASSUME NEW j \in K PROVE j < k <=> j + c < k + c
    <3>1. j \in Int
      OBVIOUS
    <3> QED  BY <1>1, <3>1
  <2> HIDE DEF k
  <2> QED  BY <2>1 DEF Below, Shifted
<1>4. Cardinality(Below(k + c, M)) = n - 1
  <2>1. IsFiniteSet(Below(k, K)) /\ Below(k, K) \subseteq Int
    <3>1. Below(k, K) \subseteq K
      BY DEF Below
    <3> QED  BY <3>1, FS_Subset
  <2> HIDE DEF k
  <2> QED  BY <1>1, <1>3, <2>1, ShiftedSize
<1>5. Places(M)[(n - 1) + 1] = k + c
  <2>1. IsFiniteSet(M) /\ M \subseteq Int
    BY ShiftedSize
  <2> HIDE DEF k, M
  <2> QED  BY <1>2, <1>4, <2>1, PlacesOnly
<1> QED  BY <1>5

\* The places of an interval from 1 are its elements.
LEMMA PlacesAll ==
  ASSUME NEW N \in Nat, NEW n \in 1..N
  PROVE  Cardinality(1..N) = N /\ Places(1..N)[n] = n
<1>1. IsFiniteSet(1..N) /\ Cardinality(1..N) = N /\ 1..N \subseteq Int
  BY FS_Interval
<1>2. Below(n, 1..N) = 1..(n - 1)
  BY DEF Below
<1>3. Cardinality(Below(n, 1..N)) = n - 1
  BY <1>2, FS_Interval
<1>4. Places(1..N)[(n - 1) + 1] = n
  <2> DEFINE K == 1..N
  <2>1. IsFiniteSet(K) /\ K \subseteq Int /\ n \in K /\ Cardinality(Below(n, K)) = n - 1
    BY <1>1, <1>3
  <2> HIDE DEF K
  <2>2. Places(K)[(n - 1) + 1] = n
    BY <2>1, PlacesOnly
  <2> QED  BY <2>2 DEF K
<1> QED  BY <1>1, <1>4

-----------------------------------------------------------------------------
(* Texts with collapsed blanks.                                             *)

\* The provers do not know that a literal is a string.
Tokens == STRING \union {" "}

Texts == Seq(Tokens)

Solids(s) == {k \in DOMAIN s : s[k] \notin Spaces}

Blanked(s) == [k \in DOMAIN s |-> IF s[k] \in Spaces THEN " " ELSE s[k]]

\* What collapsing keeps are places of the text, every word among them.
LEMMA KeptShape ==
  ASSUME NEW s \in Texts
  PROVE  /\ Len(s) \in Nat /\ DOMAIN s = 1..Len(s)
         /\ Kept(s) \subseteq DOMAIN s /\ IsFiniteSet(Kept(s)) /\ Kept(s) \subseteq Int
         /\ Cardinality(Kept(s)) \in Nat
         /\ Solids(s) \subseteq Kept(s)
<1>1. Len(s) \in Nat /\ DOMAIN s = 1..Len(s)
  BY DEF Texts
<1>2. Kept(s) \subseteq DOMAIN s /\ Solids(s) \subseteq Kept(s)
  BY DEF Kept, Solids
<1>3. IsFiniteSet(Kept(s))
  <2>1. IsFiniteSet(1..Len(s))
    BY <1>1, FS_Interval
  <2> QED  BY <1>1, <1>2, <2>1, FS_Subset
<1> QED  BY <1>1, <1>2, <1>3, FS_CardinalityType

\* A collapsed text has the kept tokens, every blank as one and the same.
LEMMA CollapseShape ==
  ASSUME NEW s \in Texts
  PROVE  /\ Collapse(s) \in Texts
         /\ Len(Collapse(s)) = Cardinality(Kept(s))
         /\ \A n \in 1..Cardinality(Kept(s)) :
                /\ Places(Kept(s))[n] \in Kept(s)
                /\ Collapse(s)[n] = Blanked(s)[Places(Kept(s))[n]]
                /\ Collapse(s)[n] \in Spaces <=> s[Places(Kept(s))[n]] \in Spaces
                /\ Collapse(s)[n] \in Spaces => Collapse(s)[n] = " "
<1> DEFINE K == Kept(s)
<1>1. IsFiniteSet(K) /\ K \subseteq Int /\ K \subseteq DOMAIN s /\ Cardinality(K) \in Nat
  BY KeptShape
<1>2. Collapse(s) = [n \in 1..Cardinality(K) |-> Blanked(s)[Places(K)[n]]]
  <2>1. Collapse(s) = Pick(Blanked(s), K)
    BY DEF Collapse, Blanked
  <2> HIDE DEF K
  <2> QED  BY <2>1, PickShape
<1>3. ASSUME NEW n \in 1..Cardinality(K) PROVE Places(K)[n] \in K
  BY <1>1, PlacesShape
<1>4. ASSUME NEW k \in DOMAIN s
      PROVE  /\ Blanked(s)[k] \in Tokens
             /\ Blanked(s)[k] \in Spaces <=> s[k] \in Spaces
             /\ Blanked(s)[k] \in Spaces => Blanked(s)[k] = " "
  <2>1. s[k] \in Tokens
    BY DEF Texts
  <2>2. Blanked(s)[k] = IF s[k] \in Spaces THEN " " ELSE s[k]
    BY DEF Blanked
  <2>3. " " \in Spaces
    BY DEF Spaces
  <2>4. CASE s[k] \in Spaces
    <3>1. Blanked(s)[k] = " "
      BY <2>2, <2>4
    <3>2. Blanked(s)[k] \in Tokens
      BY <3>1 DEF Tokens
    <3>3. Blanked(s)[k] \in Spaces
      BY <2>3, <3>1
    <3> QED  BY <2>4, <3>1, <3>2, <3>3
  <2>5. CASE s[k] \notin Spaces
    <3>1. Blanked(s)[k] = s[k]
      BY <2>2, <2>5
    <3> QED  BY <2>1, <2>5, <3>1
  <2> QED  BY <2>4, <2>5
<1> HIDE DEF K
<1>5. ASSUME NEW n \in 1..Cardinality(K) PROVE Blanked(s)[Places(K)[n]] \in Tokens
  BY <1>1, <1>3, <1>4
<1>6. Collapse(s) \in Texts /\ Len(Collapse(s)) = Cardinality(K)
  BY <1>1, <1>2, <1>5 DEF Texts
<1>7. ASSUME NEW n \in 1..Cardinality(K)
      PROVE  /\ Places(K)[n] \in K
             /\ Collapse(s)[n] = Blanked(s)[Places(K)[n]]
             /\ Collapse(s)[n] \in Spaces <=> s[Places(K)[n]] \in Spaces
             /\ Collapse(s)[n] \in Spaces => Collapse(s)[n] = " "
  BY <1>1, <1>2, <1>3, <1>4
<1> QED  BY <1>6, <1>7 DEF K

\* A blank that is kept comes right after a word that is kept, and before another.
LEMMA KeptBlank ==
  ASSUME NEW s \in Texts, NEW k \in Kept(s), s[k] \in Spaces
  PROVE  /\ k - 1 \in Solids(s)
         /\ \E j \in Solids(s) : k < j
<1>1. /\ k \in DOMAIN s /\ k > 1 /\ s[k - 1] \notin Spaces
      /\ \E j \in (k + 1)..Len(s) : s[j] \notin Spaces
  BY DEF Kept
<1>2. DOMAIN s = 1..Len(s) /\ Len(s) \in Nat
  BY KeptShape
<1> QED  BY <1>1, <1>2 DEF Solids

\* A grader that collapses the blanks of its quote changes nothing for the verifier.
LEMMA CollapseIdempotent ==
  ASSUME NEW s \in Texts
  PROVE  Collapse(Collapse(s)) = Collapse(s)
<1> DEFINE K == Kept(s)
           N == Cardinality(K)
           c == Collapse(s)
<1>1. /\ IsFiniteSet(K) /\ K \subseteq Int /\ K \subseteq DOMAIN s /\ N \in Nat
      /\ Solids(s) \subseteq K
  BY KeptShape
<1>2. /\ c \in [1..N -> Tokens] /\ Len(c) = N /\ DOMAIN c = 1..N
      /\ \A n \in 1..N : /\ Places(K)[n] \in K
                         /\ c[n] \in Spaces <=> s[Places(K)[n]] \in Spaces
                         /\ c[n] \in Spaces => c[n] = " "
  <2>1. c \in Texts /\ Len(c) = N
    BY CollapseShape
  <2>2. DOMAIN c = 1..N /\ c \in [1..N -> Tokens]
    <3> HIDE DEF c, N
    <3> QED  BY <2>1 DEF Texts
  <2> QED  BY <2>1, <2>2, CollapseShape
<1>3. \A k \in K : s[k] \in Spaces => k - 1 \in Solids(s) /\ \E j \in Solids(s) : k < j
  BY KeptBlank
<1>4. /\ \A n \in 1..N : Cardinality(Below(Places(K)[n], K)) = n - 1
      /\ \A m, n \in 1..N : m < n => Places(K)[m] < Places(K)[n]
      /\ \A k \in K : \E n \in 1..N : Places(K)[n] = k /\ n = Cardinality(Below(k, K)) + 1
  <2> HIDE DEF K
  <2> QED  BY <1>1, PlacesShape, PlacesOnly
<1> HIDE DEF K, N, c
<1>5. ASSUME NEW n \in 1..N, c[n] \in Spaces
      PROVE  /\ n > 1 /\ c[n - 1] \notin Spaces
             /\ \E m \in (n + 1)..N : c[m] \notin Spaces
  <2> DEFINE k == Places(K)[n]
  <2>1. k \in K /\ k \in Int /\ s[k] \in Spaces
    BY <1>1, <1>2, <1>5
  <2>2. PICK j \in Solids(s) : k < j
    BY <1>3, <2>1
  <2>3. k - 1 \in Solids(s) /\ k - 1 \in K /\ j \in K /\ j \in Int
    BY <1>1, <1>3, <2>1, <2>2
  <2>4. PICK m \in 1..N : Places(K)[m] = j
    BY <1>4, <2>3
  <2>5. m > n
    <3>1. ~(m < n) /\ m # n
      <4> HIDE DEF k
      <4>1. m < n => j < k
        BY <1>4, <2>4 DEF k
      <4>2. m = n => j = k
        BY <2>4 DEF k
      <4> QED  BY <2>1, <2>2, <2>3, <4>1, <4>2
    <3> QED  BY <1>1, <3>1
  <2>6. PICK i \in 1..N : Places(K)[i] = k - 1
    BY <1>4, <2>3
  <2>7. i = n - 1
    <3>1. i < n
      <4>1. n < i => k < k - 1
        BY <1>4, <2>6
      <4>2. i # n
        <5> HIDE DEF k
        <5>1. i = n => k = k - 1
          BY <2>6 DEF k
        <5> QED  BY <2>1, <5>1
      <4> HIDE DEF k
      <4> QED  BY <1>1, <2>1, <4>1, <4>2
    <3>2. ASSUME i < n - 1 PROVE FALSE
      <4>1. i + 1 \in 1..N /\ i < i + 1 /\ i + 1 < n
        BY <1>1, <3>2
      <4> DEFINE x == Places(K)[i + 1]
      <4>2. x \in K /\ k - 1 < x /\ x < k
        BY <1>2, <1>4, <2>6, <4>1
      <4>3. x \in Int
        BY <1>1, <4>2
      <4> HIDE DEF k, x
      <4> QED  BY <2>1, <4>2, <4>3
    <3> QED  BY <1>1, <3>1, <3>2
  <2>8. c[m] \notin Spaces /\ c[i] \notin Spaces
    <3>1. s[j] \notin Spaces /\ s[k - 1] \notin Spaces
      BY <2>2, <2>3 DEF Solids
    <3> HIDE DEF k
    <3> QED  BY <1>2, <2>4, <2>6, <3>1
  <2> QED  BY <1>1, <2>5, <2>6, <2>7, <2>8
<1>6. Kept(c) = 1..N
  BY <1>2, <1>5 DEF Kept
<1>7. Blanked(c) = c
  <2>1. c = [n \in 1..N |-> c[n]]
    BY <1>2
  <2> QED  BY <1>2, <2>1 DEF Blanked
<1>8. Collapse(c) = [n \in 1..Cardinality(1..N) |-> c[Places(1..N)[n]]]
  <2>1. Collapse(c) = Pick(Blanked(c), Kept(c))
    BY DEF Collapse, Blanked
  <2> QED  BY <1>6, <1>7, <2>1, PickShape
<1>9. Collapse(c) = [n \in 1..N |-> c[n]]
  <2>1. Cardinality(1..N) = N
    BY <1>1, FS_Interval
  <2>2. \A n \in 1..N : Places(1..N)[n] = n
    BY <1>1, PlacesAll
  <2> QED  BY <1>8, <2>1, <2>2
<1>10. c = [n \in 1..N |-> c[n]]
  BY <1>2
<1> QED  BY <1>9, <1>10 DEF c

\* A part of a text is a text.
LEMMA PartShape ==
  ASSUME NEW s \in Texts, NEW a \in Nat \ {0}, NEW b \in Int, b <= Len(s), a <= b + 1
  PROVE  /\ SubSeq(s, a, b) \in Texts /\ Len(SubSeq(s, a, b)) = b - a + 1
         /\ DOMAIN SubSeq(s, a, b) = 1..(b - a + 1)
         /\ \A k \in 1..(b - a + 1) : /\ k + (a - 1) \in DOMAIN s
                                      /\ SubSeq(s, a, b)[k] = s[k + (a - 1)]
<1>1. Len(s) \in Nat /\ DOMAIN s = 1..Len(s) /\ \A k \in 1..Len(s) : s[k] \in Tokens
  BY DEF Texts
<1>2. \A k \in 1..(b - a + 1) : k + (a - 1) \in 1..Len(s)
  BY <1>1
<1>3. SubSeq(s, a, b) = [k \in 1..(b - a + 1) |-> s[k + (a - 1)]]
  <2>1. SubSeq(s, a, b) = [k \in 1..(1 + b - a) |-> s[k + a - 1]]
    BY DEF Texts
  <2>2. 1 + b - a = b - a + 1 /\ \A k \in 1..(b - a + 1) : k + a - 1 = k + (a - 1)
    OBVIOUS
  <2> QED  BY <2>1, <2>2
<1>4. b - a + 1 \in Nat
  OBVIOUS
<1>5. SubSeq(s, a, b) \in Texts /\ Len(SubSeq(s, a, b)) = b - a + 1
  BY <1>1, <1>2, <1>3, <1>4 DEF Texts
<1> QED  BY <1>1, <1>2, <1>3, <1>5

\* The collapsed part of a text is a part of the collapsed text.
LEMMA CollapseWithin ==
  ASSUME NEW s \in Texts, NEW a \in Nat \ {0}, NEW b \in Int, b <= Len(s), a <= b + 1
  PROVE  Within(Collapse(SubSeq(s, a, b)), Collapse(s))
<1> DEFINE t == SubSeq(s, a, b)
           c == a - 1
           K == Kept(s)
           L == Kept(t)
<1>1. /\ t \in Texts /\ Len(t) = b - c /\ DOMAIN t = 1..(b - c)
      /\ \A k \in 1..(b - c) : k + c \in DOMAIN s /\ t[k] = s[k + c]
  <2>1. b - a + 1 = b - c
    OBVIOUS
  <2> QED  BY <2>1, PartShape
<1>2. /\ IsFiniteSet(K) /\ K \subseteq Int /\ K \subseteq DOMAIN s /\ Cardinality(K) \in Nat
      /\ Solids(s) \subseteq K /\ DOMAIN s = 1..Len(s) /\ Len(s) \in Nat
  BY KeptShape
<1>3. /\ IsFiniteSet(L) /\ L \subseteq Int /\ L \subseteq 1..(b - c) /\ Cardinality(L) \in Nat
      /\ Solids(t) \subseteq L
  <2> HIDE DEF t, c
  <2> QED  BY <1>1, KeptShape
<1>4. c \in Nat /\ c <= b /\ b <= Len(s)
  OBVIOUS
<1>5. \A k \in K : s[k] \in Spaces => k - 1 \in Solids(s) /\ \E j \in Solids(s) : k < j
  BY KeptBlank
<1>6. \A k \in L : t[k] \in Spaces => k - 1 \in Solids(t) /\ \E j \in Solids(t) : k < j
  <2> HIDE DEF t
  <2> QED  BY <1>1, KeptBlank
<1>7. /\ Collapse(s) \in Texts /\ Len(Collapse(s)) = Cardinality(K)
      /\ \A n \in 1..Cardinality(K) : /\ Places(K)[n] \in K
                                      /\ Collapse(s)[n] = Blanked(s)[Places(K)[n]]
  BY CollapseShape
<1>8. /\ Collapse(t) \in Texts /\ Len(Collapse(t)) = Cardinality(L)
      /\ \A n \in 1..Cardinality(L) : /\ Places(L)[n] \in L
                                      /\ Collapse(t)[n] = Blanked(t)[Places(L)[n]]
  <2> HIDE DEF t
  <2> QED  BY <1>1, CollapseShape
<1>9. \A k \in 1..(b - c) : Blanked(t)[k] = Blanked(s)[k + c]
  <2> HIDE DEF t, c
  <2> QED  BY <1>1 DEF Blanked
<1>10. Solids(t) = {k \in 1..(b - c) : k + c \in Solids(s)}
  <2> HIDE DEF t, c
  <2> QED  BY <1>1 DEF Solids
<1>11. Solids(t) \subseteq 1..(b - c) /\ Solids(s) \subseteq 1..Len(s)
  BY <1>2, <1>10 DEF Solids
<1>12. (\A k \in K : k \in Solids(s) \/ s[k] \in Spaces) /\ \A k \in L : k \in Solids(t) \/ t[k] \in Spaces
  <2> HIDE DEF t, c, L, K
  <2> QED  BY <1>1, <1>2, <1>3 DEF Solids
<1>13. \A k \in 1..(b - c) : k > 1 /\ t[k] \in Spaces /\ k - 1 \in Solids(t) /\ (\E j \in Solids(t) : k < j)
                             => k \in L
  <2> HIDE DEF t, c
  <2> QED  BY <1>1, <1>4, <1>11 DEF Kept, Solids
<1>14. \A k \in 1..Len(s) : k > 1 /\ s[k] \in Spaces /\ k - 1 \in Solids(s) /\ (\E j \in Solids(s) : k < j)
                             => k \in K
  <2> HIDE DEF t, c
  <2> QED  BY <1>2, <1>11 DEF Kept, Solids
<1> HIDE DEF t, c, K, L
<1>15. CASE Solids(t) = {}
  <2>1. L = {}
    BY <1>6, <1>12, <1>15
  <2>2. Cardinality(L) = 0
    BY <2>1, FS_EmptySet
  <2>3. SubSeq(Collapse(s), 0 + 1, 0 + 0) = Collapse(t)
    <3>1. SubSeq(Collapse(s), 1, 0) = << >> /\ Collapse(t) = << >>
      BY <1>7, <1>8, <2>2 DEF Texts
    <3> QED  BY <3>1
  <2> QED  BY <1>2, <1>7, <1>8, <2>2, <2>3 DEF Within, t
<1>16. CASE Solids(t) # {}
  <2>1. Solids(t) \subseteq Nat /\ Solids(t) \subseteq 0..(b - c) /\ b - c \in Nat
    BY <1>4, <1>11
  <2>2. PICK lo \in Solids(t) : \A k \in Solids(t) : lo <= k
    BY <1>16, <2>1, LeastNat
  <2>3. PICK hi \in Solids(t) : \A k \in Solids(t) : k <= hi
    BY <1>16, <2>1, GreatestNat
  <2>4. lo \in 1..(b - c) /\ hi \in 1..(b - c)
    BY <1>11
  <2>5. Shifted(L, c) = {k \in K : lo + c <= k /\ k <= hi + c}
    <3>1. ASSUME NEW k \in L PROVE k + c \in K /\ lo <= k /\ k <= hi
      <4>1. k \in 1..(b - c) /\ k + c \in 1..Len(s)
        BY <1>3, <1>1, <1>2
      <4>2. CASE k \in Solids(t)
        BY <1>2, <1>10, <2>2, <2>3, <4>2
      <4>3. CASE t[k] \in Spaces
        <5>1. k - 1 \in Solids(t)
          BY <1>6, <4>3
        <5>2. PICK j \in Solids(t) : k < j
          BY <1>6, <4>3
        <5>3. lo <= k - 1 /\ j <= hi /\ j \in Int
          BY <1>11, <2>2, <2>3, <5>1, <5>2
        <5>4. lo <= k /\ k <= hi
          BY <2>4, <4>1, <5>2, <5>3
        <5>5. s[k + c] \in Spaces
          BY <1>1, <4>1, <4>3
        <5>6. (k - 1) + c \in Solids(s) /\ j + c \in Solids(s)
          BY <1>10, <5>1, <5>2
        <5>7. (k + c) - 1 \in Solids(s) /\ k + c < j + c /\ k + c > 1
          <6>1. (k + c) - 1 = (k - 1) + c /\ k + c < j + c
            BY <1>4, <4>1, <5>2, <5>3
          <6>2. k - 1 \in 1..(b - c)
            BY <1>11, <5>1
          <6> QED  BY <1>4, <4>1, <5>6, <6>1, <6>2
        <5>8. k + c \in K
          BY <1>14, <4>1, <5>5, <5>6, <5>7
        <5> QED  BY <5>4, <5>8
      <4> QED  BY <1>12, <4>2, <4>3
    <3>2. ASSUME NEW k \in K, lo + c <= k, k <= hi + c PROVE k - c \in L
      <4>1. k \in Int /\ k - c \in 1..(b - c) /\ (k - c) + c = k /\ lo <= k - c /\ k - c <= hi
        BY <1>2, <1>4, <2>4, <3>2
      <4>2. CASE k \in Solids(s)
        <5>1. k - c \in Solids(t)
          BY <1>10, <4>1, <4>2
        <5> QED  BY <1>3, <5>1
      <4>3. CASE s[k] \in Spaces
        <5>1. k - 1 \in Solids(s)
          BY <1>5, <4>3
        <5>2. t[k - c] \in Spaces
          BY <1>1, <4>1, <4>3
        <5>3. k - c # lo /\ k - c # hi
          <6>1. t[lo] \notin Spaces /\ t[hi] \notin Spaces
            BY <2>2, <2>3 DEF Solids
          <6> QED  BY <5>2, <6>1
        <5>4. (k - c) - 1 \in 1..(b - c) /\ ((k - c) - 1) + c = k - 1 /\ k - c < hi /\ k - c > 1
          BY <1>4, <2>4, <4>1, <5>3
        <5>5. (k - c) - 1 \in Solids(t)
          BY <1>10, <5>1, <5>4
        <5> QED  BY <1>13, <2>3, <4>1, <5>2, <5>4, <5>5
      <4> QED  BY <1>12, <4>2, <4>3
    <3>3. ASSUME NEW k \in Shifted(L, c) PROVE k \in K /\ lo + c <= k /\ k <= hi + c
      <4>1. PICK j \in L : k = j + c
        BY DEF Shifted
      <4>2. j \in Int
        BY <1>3
      <4> QED  BY <1>4, <2>4, <3>1, <4>1, <4>2
    <3>4. ASSUME NEW k \in K, lo + c <= k, k <= hi + c PROVE k \in Shifted(L, c)
      <4>1. k - c \in L /\ k = (k - c) + c
        BY <1>2, <1>4, <3>2, <3>4
      <4> QED  BY <4>1 DEF Shifted
    <3> QED  BY <3>3, <3>4
  <2> DEFINE M == Shifted(L, c)
             N == Cardinality(L)
  <2>6. Cardinality(M) = N /\ N \in Nat /\ IsFiniteSet(M)
    <3>1. c \in Int
      BY <1>4
    <3>2. Cardinality(Shifted(L, c)) = Cardinality(L)
      BY <1>3, <3>1, ShiftedSize
    <3> QED  BY <1>3, <3>1, <3>2, ShiftedSize
  <2>7. \A n \in 1..N : Places(M)[n] = Places(L)[n] + c
    <3>1. c \in Int
      BY <1>4
    <3>2. \A n \in 1..Cardinality(L) : Places(Shifted(L, c))[n] = Places(L)[n] + c
      BY <1>3, <3>1, PlacesShifted
    <3> QED  BY <3>2
  <2>8. lo + c \in Int /\ hi + c \in Int
    BY <1>4, <2>4
  <2> HIDE DEF M, N
  <2>9. PICK d \in Nat : /\ d + N <= Cardinality(K)
                         /\ \A n \in 1..N : d + n \in 1..Cardinality(K) /\ Places(M)[n] = Places(K)[d + n]
    <3>1. M = Between(K, lo + c, hi + c)
      BY <2>5 DEF M, Between
    <3>2. Follow(M, K)
      BY <1>2, <2>8, <3>1, PlacesBetween
    <3> QED  BY <2>6, <3>2 DEF Follow
  <2>10. ASSUME NEW n \in 1..N
         PROVE  d + n \in 1..Cardinality(K) /\ Collapse(t)[n] = Collapse(s)[d + n]
    <3>1. Collapse(t)[n] = Blanked(t)[Places(L)[n]] /\ Places(L)[n] \in 1..(b - c)
      BY <1>3, <1>8 DEF N
    <3>2. Blanked(t)[Places(L)[n]] = Blanked(s)[Places(K)[d + n]]
      BY <1>9, <2>7, <2>9, <3>1
    <3>3. d + n \in 1..Cardinality(K)
      BY <2>9
    <3> QED  BY <1>7, <3>1, <3>2, <3>3
  <2>11. SubSeq(Collapse(s), d + 1, d + N) = Collapse(t)
    <3> DEFINE x == Collapse(s)
               y == Collapse(t)
    <3>1. x \in Texts /\ y \in Texts /\ Len(y) = N /\ d + N <= Len(x) /\ Len(x) \in Nat
      BY <1>2, <1>7, <1>8, <2>9 DEF N
    <3>2. \A n \in 1..N : y[n] = x[d + n]
      BY <2>10
    <3> HIDE DEF x, y
    <3>3. SubSeq(x, d + 1, d + N) = [n \in 1..(1 + (d + N) - (d + 1)) |-> x[n + (d + 1) - 1]]
      BY <3>1 DEF Texts
    <3>4. 1 + (d + N) - (d + 1) = N /\ \A n \in 1..N : n + (d + 1) - 1 = d + n
      BY <2>6
    <3>5. y = [n \in 1..N |-> y[n]]
      BY <3>1 DEF Texts
    <3>6. SubSeq(x, d + 1, d + N) = y
      BY <3>2, <3>3, <3>4, <3>5
    <3> QED  BY <3>6 DEF x, y
  <2>12. d \in 0..(Len(Collapse(s)) - Len(Collapse(t)))
    BY <1>2, <1>7, <1>8, <2>6, <2>9 DEF N
  <2>13. Len(Collapse(t)) = N
    BY <1>8 DEF N
  <2> QED  BY <2>11, <2>12, <2>13 DEF Within, t
<1> QED  BY <1>15, <1>16

-----------------------------------------------------------------------------
(* Lines.                                                                   *)

\* The greatest of a bounded set of numbers,
LEMMA MaxShape ==
  ASSUME NEW N \in Nat, NEW T, T \subseteq 0..N, T # {}
  PROVE  Max(T) \in T /\ \A k \in T : k <= Max(T)
<1>1. PICK n \in T : \A k \in T : k <= n
  BY GreatestNat
<1>2. \E x \in T : \A k \in T : x >= k
  BY <1>1
<1>3. Max(T) \in T /\ \A k \in T : Max(T) >= k
  BY <1>2 DEF Max
<1>4. \A k \in T : k \in Int
  OBVIOUS
<1>5. Max(T) \in Int
  BY <1>3, <1>4
<1> QED  BY <1>3, <1>4, <1>5

\* and the least of a set of numbers, belong to it.
LEMMA MinShape ==
  ASSUME NEW T, T \subseteq Nat, T # {}
  PROVE  Min(T) \in T /\ \A k \in T : Min(T) <= k
<1>1. \E n \in T : \A k \in T : n <= k
  BY LeastNat
<1> QED  BY <1>1 DEF Min

\* The number of a line grows along the text.
LEMMA NewlinesShape ==
  ASSUME NEW s \in Texts
  PROVE  /\ Newlines(s) \subseteq 1..Len(s) /\ IsFiniteSet(Newlines(s)) /\ Len(s) \in Nat
         /\ LineCount(s) \in Nat \ {0}
         /\ \A k \in Int : LineAt(s, k) \in 1..LineCount(s)
         /\ \A k, l \in Int : k <= l => LineAt(s, k) <= LineAt(s, l)
<1>1. DOMAIN s = 1..Len(s) /\ Len(s) \in Nat
  BY DEF Texts
<1>2. Newlines(s) \subseteq 1..Len(s)
  BY <1>1 DEF Newlines
<1>3. IsFiniteSet(Newlines(s))
  <2>1. IsFiniteSet(1..Len(s))
    BY <1>1, FS_Interval
  <2> QED  BY <1>2, <2>1, FS_Subset
<1>4. Cardinality(Newlines(s)) \in Nat
  BY <1>3, FS_CardinalityType
<1> DEFINE Upto(k) == {j \in Newlines(s) : j < k}
<1>5. ASSUME NEW k \in Int
      PROVE  /\ IsFiniteSet(Upto(k)) /\ Cardinality(Upto(k)) \in Nat
             /\ Cardinality(Upto(k)) <= Cardinality(Newlines(s))
  <2>1. Upto(k) \subseteq Newlines(s)
    OBVIOUS
  <2> HIDE DEF Upto
  <2> QED  BY <1>3, <2>1, FS_Subset, FS_CardinalityType
<1>6. ASSUME NEW k \in Int, NEW l \in Int, k <= l
      PROVE  Cardinality(Upto(k)) <= Cardinality(Upto(l))
  <2>1. Upto(k) \subseteq Upto(l)
    BY <1>1, <1>2, <1>6
  <2> HIDE DEF Upto
  <2> QED  BY <1>5, <2>1, FS_Subset
<1>7. \A k \in Int : LineAt(s, k) = Cardinality(Upto(k)) + 1
  BY DEF LineAt
<1> HIDE DEF Upto
<1>8. LineCount(s) \in Nat \ {0} /\ \A k \in Int : LineAt(s, k) \in 1..LineCount(s)
  BY <1>4, <1>5, <1>7 DEF LineCount
<1>9. \A k, l \in Int : k <= l => LineAt(s, k) <= LineAt(s, l)
  BY <1>5, <1>6, <1>7
<1> QED  BY <1>1, <1>2, <1>3, <1>8, <1>9

Starts(s, n) == {0} \union {k \in Newlines(s) : LineAt(s, k) < n}
Ends(s, n)   == {Len(s) + 1} \union {k \in Newlines(s) : LineAt(s, k) >= n}

\* A line starts after the last line end before it and ends at the next.
LEMMA LineBounds ==
  ASSUME NEW s \in Texts, NEW n \in Int
  PROVE  /\ LineStart(s, n) - 1 \in Starts(s, n) /\ LineStart(s, n) \in 1..(Len(s) + 1)
         /\ \A k \in Starts(s, n) : k <= LineStart(s, n) - 1
         /\ LineEnd(s, n) \in Ends(s, n) /\ LineEnd(s, n) \in 1..(Len(s) + 1)
         /\ \A k \in Ends(s, n) : LineEnd(s, n) <= k
<1>1. Newlines(s) \subseteq 1..Len(s) /\ Len(s) \in Nat
  BY NewlinesShape
<1>2. Starts(s, n) \subseteq 0..Len(s) /\ Starts(s, n) # {}
  BY <1>1 DEF Starts
<1>3. Ends(s, n) \subseteq 1..(Len(s) + 1) /\ Ends(s, n) \subseteq Nat /\ Ends(s, n) # {}
  BY <1>1 DEF Ends
<1>4. Max(Starts(s, n)) \in Starts(s, n) /\ \A k \in Starts(s, n) : k <= Max(Starts(s, n))
  BY <1>1, <1>2, MaxShape
<1>5. Min(Ends(s, n)) \in Ends(s, n) /\ \A k \in Ends(s, n) : Min(Ends(s, n)) <= k
  BY <1>3, MinShape
<1>6. LineStart(s, n) = Max(Starts(s, n)) + 1 /\ LineEnd(s, n) = Min(Ends(s, n))
  BY DEF LineStart, LineEnd, Starts, Ends
<1>7. Max(Starts(s, n)) \in 0..Len(s)
  BY <1>2, <1>4
<1>8. LineStart(s, n) - 1 = Max(Starts(s, n))
  BY <1>6, <1>7
<1> QED  BY <1>1, <1>3, <1>4, <1>5, <1>6, <1>7, <1>8

\* A line starts before it ends.
LEMMA StartBeforeEnd ==
  ASSUME NEW s \in Texts, NEW a \in Int, NEW b \in Int, a <= b
  PROVE  LineStart(s, a) <= LineEnd(s, b)
<1> DEFINE x == LineStart(s, a) - 1
           y == LineEnd(s, b)
<1>1. Newlines(s) \subseteq 1..Len(s) /\ Len(s) \in Nat
  BY NewlinesShape
<1>2. x \in Starts(s, a) /\ x \in 0..Len(s) /\ LineStart(s, a) = x + 1
  <2>1. LineStart(s, a) - 1 \in Starts(s, a) /\ LineStart(s, a) \in 1..(Len(s) + 1)
    BY LineBounds
  <2> QED  BY <1>1, <2>1
<1>4. y \in Ends(s, b) /\ y \in 1..(Len(s) + 1)
  BY LineBounds
<1>3. ASSUME y <= x PROVE FALSE
  <2>1. x \in Newlines(s) /\ LineAt(s, x) < a
    BY <1>1, <1>2, <1>3, <1>4 DEF Starts
  <2>2. y \in Newlines(s) /\ LineAt(s, y) >= b
    BY <1>1, <1>2, <1>3, <1>4 DEF Ends
  <2>3. LineAt(s, y) <= LineAt(s, x) /\ LineAt(s, x) \in Int /\ LineAt(s, y) \in Int
    <3>1. x \in Int /\ y \in Int
      BY <1>1, <1>2, <1>4
    <3>2. \A k \in Int : LineAt(s, k) \in Int
      BY NewlinesShape
    <3> HIDE DEF x, y
    <3> QED  BY <1>3, <3>1, <3>2, NewlinesShape
  <2> HIDE DEF x, y
  <2> QED  BY <2>1, <2>2, <2>3
<1> HIDE DEF x, y
<1>5. x + 1 <= y
  BY <1>1, <1>2, <1>3, <1>4
<1> QED  BY <1>2, <1>5 DEF y

\* What is between the start of a line and the end of a later one is a text.
LEMMA ExtractShape ==
  ASSUME NEW s \in Texts, NEW a \in Int, NEW b \in Int, a <= b
  PROVE  /\ Extract(s, a, b) \in Texts
         /\ Len(Extract(s, a, b)) = LineEnd(s, b) - LineStart(s, a)
<1> DEFINE x == LineStart(s, a)
           y == LineEnd(s, b) - 1
<1>1. /\ x \in Nat \ {0} /\ y \in Int /\ y <= Len(s) /\ x <= y + 1 /\ Len(s) \in Nat
      /\ LineEnd(s, b) \in Int
  <2>1. LineStart(s, a) \in 1..(Len(s) + 1) /\ LineStart(s, a) <= LineEnd(s, b) /\ Len(s) \in Nat
    BY LineBounds, StartBeforeEnd, NewlinesShape
  <2>2. LineEnd(s, b) \in 1..(Len(s) + 1)
    BY LineBounds
  <2> QED  BY <2>1, <2>2
<1>2. SubSeq(s, x, y) \in Texts /\ Len(SubSeq(s, x, y)) = y - x + 1
  <2> HIDE DEF x, y
  <2> QED  BY <1>1, PartShape
<1>3. y - x + 1 = LineEnd(s, b) - LineStart(s, a)
  BY <1>1
<1> QED  BY <1>2, <1>3 DEF Extract

Beginning(s, m) == SubSeq(s, 1, m)

\* The beginning of a text has its first tokens.
LEMMA BeginningShape ==
  ASSUME NEW s \in Texts, NEW m \in Nat, m <= Len(s)
  PROVE  /\ Beginning(s, m) \in Texts /\ Len(Beginning(s, m)) = m
         /\ DOMAIN Beginning(s, m) = 1..m
         /\ \A k \in 1..m : Beginning(s, m)[k] = s[k]
<1>1. m \in Int /\ 1 <= m + 1 /\ m - 1 + 1 = m /\ \A k \in 1..m : k + (1 - 1) = k
  OBVIOUS
<1>2. /\ SubSeq(s, 1, m) \in Texts /\ Len(SubSeq(s, 1, m)) = m - 1 + 1
      /\ DOMAIN SubSeq(s, 1, m) = 1..(m - 1 + 1)
      /\ \A k \in 1..(m - 1 + 1) : /\ k + (1 - 1) \in DOMAIN s
                                   /\ SubSeq(s, 1, m)[k] = s[k + (1 - 1)]
  BY <1>1, PartShape
<1>3. \A k \in 1..m : SubSeq(s, 1, m)[k] = s[k]
  BY <1>1, <1>2
<1> QED  BY <1>1, <1>2, <1>3 DEF Beginning

\* The lines of the beginning of a text are those of the text, the last one cut.
LEMMA BeginningLines ==
  ASSUME NEW s \in Texts, NEW m \in Nat, m <= Len(s), NEW a \in Nat, NEW b \in Nat, a <= b,
         b <= LineCount(Beginning(s, m))
  PROVE  /\ b <= LineCount(s)
         /\ LineStart(Beginning(s, m), a) = LineStart(s, a)
         /\ LineEnd(Beginning(s, m), b) <= LineEnd(s, b)
<1> DEFINE p == Beginning(s, m)
<1>1. p \in Texts /\ Len(p) = m /\ DOMAIN p = 1..m /\ \A k \in 1..m : p[k] = s[k]
  BY BeginningShape
<1>0. b <= LineCount(p)
  OBVIOUS
<1> HIDE DEF p
<1>2. DOMAIN s = 1..Len(s) /\ Len(s) \in Nat
  BY DEF Texts
<1>3. Newlines(p) = {k \in Newlines(s) : k <= m}
  BY <1>1, <1>2 DEF Newlines
<1>4. Newlines(s) \subseteq 1..Len(s) /\ IsFiniteSet(Newlines(s)) /\ IsFiniteSet(Newlines(p))
  BY <1>1, NewlinesShape
<1>5. ASSUME NEW k \in Newlines(p) PROVE LineAt(p, k) = LineAt(s, k)
  <2>1. {j \in Newlines(p) : j < k} = {j \in Newlines(s) : j < k}
    <3>1. \A j \in Newlines(s) : j < k => j <= m
      BY <1>3, <1>4
    <3> QED  BY <1>3, <3>1
  <2> QED  BY <2>1 DEF LineAt
<1>6. ASSUME NEW k \in Newlines(s), k > m PROVE LineAt(s, k) >= LineCount(p)
  <2> DEFINE B == {j \in Newlines(s) : j < k}
  <2>1. Newlines(p) \subseteq B /\ B \subseteq Newlines(s)
    BY <1>3, <1>4, <1>6
  <2>2. IsFiniteSet(B) /\ Cardinality(B) \in Nat /\ Cardinality(Newlines(p)) \in Nat
        /\ Cardinality(Newlines(p)) <= Cardinality(B)
    <3> HIDE DEF B
    <3> QED  BY <1>4, <2>1, FS_Subset, FS_CardinalityType
  <2>3. LineAt(s, k) = Cardinality(B) + 1
    BY DEF LineAt
  <2> HIDE DEF B
  <2> QED  BY <2>2, <2>3 DEF LineCount
<1>7. /\ LineCount(p) \in Nat /\ LineCount(s) \in Nat
      /\ \A k \in Newlines(s) : LineAt(s, k) \in Int
  <2>1. LineCount(p) \in Nat /\ LineCount(s) \in Nat
    BY <1>1, NewlinesShape
  <2>2. \A k \in Int : LineAt(s, k) \in Int
    BY <2>1, NewlinesShape
  <2> QED  BY <1>4, <2>1, <2>2
<1>8. b <= LineCount(s)
  <2>1. Newlines(p) \subseteq Newlines(s)
    BY <1>3
  <2>2. LineCount(p) <= LineCount(s)
    BY <1>4, <2>1, FS_Subset, FS_CardinalityType DEF LineCount
  <2> QED  BY <1>0, <1>7, <2>2
<1>9. Starts(p, a) = Starts(s, a)
  <2>1. ASSUME NEW k \in Newlines(s), LineAt(s, k) < a PROVE k \in Newlines(p)
    <3>1. ~(k > m)
      BY <1>0, <1>6, <1>7, <2>1
    <3> QED  BY <1>3, <1>4, <3>1
  <2> QED  BY <1>3, <1>5, <2>1 DEF Starts
<1>10. LineStart(p, a) = LineStart(s, a)
  BY <1>9 DEF LineStart, Starts
<1>11. LineEnd(p, b) \in 1..(m + 1)
  <2>1. LineEnd(p, b) \in 1..(Len(p) + 1)
    <3>1. p \in Texts /\ b \in Int
      BY <1>1
    <3> QED  BY ONLY <3>1, LineBounds
  <2> QED  BY <1>1, <2>1
<1>12. /\ \A k \in Ends(p, b) : LineEnd(p, b) <= k
       /\ LineEnd(s, b) \in Ends(s, b) /\ LineEnd(s, b) \in 1..(Len(s) + 1)
  <2>1. \A k \in Ends(p, b) : LineEnd(p, b) <= k
    BY <1>1, LineBounds
  <2>2. LineEnd(s, b) \in Ends(s, b) /\ LineEnd(s, b) \in 1..(Len(s) + 1)
    BY LineBounds
  <2> QED  BY <2>1, <2>2
<1>13. LineEnd(p, b) <= LineEnd(s, b)
  <2>1. CASE LineEnd(s, b) > m
    BY <1>2, <1>11, <1>12, <2>1
  <2>2. CASE ~(LineEnd(s, b) > m)
    <3>1. LineEnd(s, b) # Len(s) + 1
      BY <1>2, <1>12, <2>2
    <3>2. LineEnd(s, b) \in Newlines(s) /\ LineAt(s, LineEnd(s, b)) >= b
      BY <1>12, <3>1 DEF Ends
    <3>3. LineEnd(s, b) \in Newlines(p)
      BY <1>3, <1>12, <2>2, <3>2
    <3>4. LineEnd(s, b) \in Ends(p, b)
      BY <1>5, <3>2, <3>3 DEF Ends
    <3> QED  BY <1>12, <3>4
  <2> QED  BY <2>1, <2>2
<1> QED  BY <1>8, <1>10, <1>13 DEF p

\* A part of a part is a part.
LEMMA PartOfPart ==
  ASSUME NEW s \in Texts, NEW x \in Nat \ {0}, NEW y \in Int, x <= y + 1, y <= Len(s),
         NEW i \in Nat \ {0}, NEW j \in Int, i <= j + 1, j <= y - x + 1
  PROVE  SubSeq(SubSeq(s, x, y), i, j) = SubSeq(s, i + (x - 1), j + (x - 1))
<1> DEFINE p == SubSeq(s, x, y)
<1>1. /\ p \in Texts /\ Len(p) = y - x + 1
      /\ \A k \in 1..(y - x + 1) : p[k] = s[k + (x - 1)]
  BY PartShape
<1> HIDE DEF p
<1>2. SubSeq(p, i, j) = [k \in 1..(1 + j - i) |-> p[k + i - 1]]
  <2>1. i \in Int /\ j \in Int
    OBVIOUS
  <2> QED  BY ONLY <1>1, <2>1 DEF Texts
<1> DEFINE u == i + (x - 1)
           v == j + (x - 1)
<1>3. u \in Int /\ v \in Int /\ 1 + v - u = 1 + j - i
  OBVIOUS
<1>4. SubSeq(s, u, v) = [k \in 1..(1 + v - u) |-> s[k + u - 1]]
  BY <1>3 DEF Texts
<1>5. ASSUME NEW k \in 1..(1 + j - i) PROVE p[k + i - 1] = s[k + u - 1]
  <2>1. k + i - 1 \in 1..(y - x + 1) /\ (k + i - 1) + (x - 1) = k + u - 1
    OBVIOUS
  <2> QED  BY <1>1, <2>1
<1> HIDE DEF u, v
<1>6. SubSeq(p, i, j) = SubSeq(s, u, v)
  BY <1>2, <1>3, <1>4, <1>5
<1> QED  BY <1>6 DEF p, u, v

\* A part of lines of the beginning is the same part of the lines of the text.
LEMMA QuoteOfBeginning ==
  ASSUME NEW s \in Texts, NEW m \in Nat, m <= Len(s), NEW a \in Nat, NEW b \in Nat, a <= b,
         b <= LineCount(Beginning(s, m)),
         NEW i \in Nat \ {0}, NEW j \in Int, i <= j + 1,
         j <= Len(Extract(Beginning(s, m), a, b))
  PROVE  /\ SubSeq(Extract(Beginning(s, m), a, b), i, j) = SubSeq(Extract(s, a, b), i, j)
         /\ j <= Len(Extract(s, a, b))
<1> DEFINE p == Beginning(s, m)
           x == LineStart(s, a)
           y == LineEnd(p, b) - 1
           z == LineEnd(s, b) - 1
<1>1. p \in Texts /\ Len(p) = m /\ j <= Len(Extract(p, a, b))
  BY BeginningShape
<1>2. LineStart(p, a) = x /\ LineEnd(p, b) <= LineEnd(s, b)
  BY BeginningLines
<1> HIDE DEF p
<1>3. LineStart(p, a) <= LineEnd(p, b)
  BY <1>1, StartBeforeEnd
<1>4. LineEnd(p, b) \in 1..(m + 1)
  <2>1. LineEnd(p, b) \in 1..(Len(p) + 1)
    <3>1. p \in Texts /\ b \in Int
      BY <1>1
    <3> QED  BY ONLY <3>1, LineBounds
  <2> QED  BY <1>1, <2>1
<1>5. LineEnd(s, b) \in 1..(Len(s) + 1) /\ LineStart(s, a) \in 1..(Len(s) + 1) /\ Len(s) \in Nat
  BY LineBounds, NewlinesShape
<1>6. Len(Extract(p, a, b)) = LineEnd(p, b) - LineStart(p, a)
  BY <1>1, ExtractShape
<1>7. Len(Extract(s, a, b)) = LineEnd(s, b) - LineStart(s, a)
  BY ExtractShape, StartBeforeEnd
<1>8. Extract(p, a, b) = SubSeq(p, x, y) /\ Extract(s, a, b) = SubSeq(s, x, z)
  BY <1>2 DEF Extract
<1>9. /\ x \in Nat \ {0} /\ y \in Int /\ z \in Int /\ x <= y + 1 /\ x <= z + 1
      /\ y <= m /\ z <= Len(s) /\ y <= z /\ j <= y - x + 1 /\ j <= z - x + 1
  <2>1. x \in Nat \ {0} /\ LineEnd(p, b) \in Nat /\ LineEnd(s, b) \in Nat
    BY <1>4, <1>5
  <2>2. j <= LineEnd(p, b) - x
    BY <1>1, <1>2, <1>6
  <2>3. x <= LineEnd(p, b) /\ LineEnd(p, b) <= m + 1 /\ LineEnd(s, b) <= Len(s) + 1
    BY <1>2, <1>3, <1>4, <1>5
  <2>4. LineEnd(p, b) <= LineEnd(s, b)
    BY <1>2
  <2> HIDE DEF x
  <2>5. y \in Int /\ z \in Int /\ y <= z /\ x <= y + 1 /\ x <= z + 1
    BY <2>1, <2>3, <2>4
  <2>6. y <= m /\ z <= Len(s)
    BY <1>5, <2>1, <2>3
  <2>7. j <= y - x + 1 /\ j <= z - x + 1
    BY <2>1, <2>2, <2>4
  <2> QED  BY <2>1, <2>5, <2>6, <2>7
<1>10. j <= Len(Extract(s, a, b))
  <2>1. j <= z - x + 1 /\ x \in Nat /\ LineEnd(s, b) \in Nat
    BY <1>5, <1>9
  <2>2. z - x + 1 = LineEnd(s, b) - x
    <3> HIDE DEF x
    <3> QED  BY <2>1
  <2>3. Len(Extract(s, a, b)) = LineEnd(s, b) - x
    BY <1>7
  <2> QED
    <3> HIDE DEF x, z
    <3> QED  BY <2>1, <2>2, <2>3
<1> HIDE DEF x, y, z
<1>11. SubSeq(p, x, y) = SubSeq(s, x, y)
  <2>1. SubSeq(SubSeq(s, 1, m), x, y) = SubSeq(s, x + (1 - 1), y + (1 - 1))
    <3>1. m \in Int /\ 1 <= m + 1 /\ y <= m - 1 + 1 /\ 1 \in Nat \ {0}
      BY <1>9
    <3> QED  BY <1>9, <3>1, PartOfPart
  <2>0. SubSeq(s, 1, m) = p
    BY DEF p, Beginning
  <2>2. x + (1 - 1) = x /\ y + (1 - 1) = y
    BY <1>9
  <2> QED  BY <2>0, <2>1, <2>2
<1>12. SubSeq(SubSeq(s, x, y), i, j) = SubSeq(s, i + (x - 1), j + (x - 1))
  <2>1. y <= Len(s)
    BY <1>5, <1>9
  <2> QED  BY <1>9, <2>1, PartOfPart
<1>13. SubSeq(SubSeq(s, x, z), i, j) = SubSeq(s, i + (x - 1), j + (x - 1))
  BY <1>9, PartOfPart
<1> QED  BY <1>8, <1>10, <1>11, <1>12, <1>13 DEF p

\* A stripped text is a part of it.
LEMMA StripPart ==
  ASSUME NEW s \in Texts
  PROVE  \E i \in Nat \ {0}, j \in Int : i <= j + 1 /\ j <= Len(s) /\ Strip(s) = SubSeq(s, i, j)
<1>1. Len(s) \in Nat
  BY NewlinesShape
<1> DEFINE I == {k \in 1..Len(s) : s[k] \notin Spaces}
<1>2. CASE I = {}
  <2>1. Solid(s, 1) = 0
    BY <1>2 DEF Solid, SelectInSubSeq
  <2>2. Strip(s) = << >>
    BY <2>1 DEF Strip
  <2>3. SubSeq(s, 1, 0) = << >>
    BY DEF Texts
  <2> QED  BY <1>1, <2>2, <2>3
<1>3. CASE I # {}
  <2>1. I \subseteq Nat
    BY <1>1
  <2>2. Solid(s, 1) = Min(I)
    BY <1>3 DEF Solid, SelectInSubSeq
  <2>3. Min(I) \in I
    <3> HIDE DEF I
    <3> QED  BY <1>3, <2>1, MinShape
  <2> DEFINE x == Min(I)
             t == SubSeq(s, x, Len(s))
             J == {k \in 1..Len(t) : t[k] \notin Spaces}
             j == IF J # {} THEN Max(J) ELSE 0
  <2>4. x \in 1..Len(s)
    BY <2>3
  <2>5. Strip(s) = SubSeq(t, 1, j)
    <3>1. Solid(s, 1) # 0
      BY <2>2, <2>4
    <3>2. Strip(s) = RStrip(t)
      BY <2>2, <3>1 DEF Strip
    <3>3. SelectLastInSeq(t, LAMBDA c : c \notin Spaces) = j
      BY DEF SelectLastInSeq
    <3> QED  BY <3>2, <3>3 DEF RStrip
  <2>6. t \in Texts /\ Len(t) = Len(s) - x + 1
    <3> HIDE DEF x
    <3> QED  BY <1>1, <2>4, PartShape
  <2>7. j \in 0..Len(t)
    <3>1. J \subseteq 0..Len(t) /\ Len(t) \in Nat
      <4> HIDE DEF x, t
      <4> QED  BY <1>1, <2>4, <2>6
    <3>2. CASE J # {}
      <4>1. Max(J) \in J
        <5> HIDE DEF J, x, t
        <5> QED  BY <3>1, <3>2, MaxShape
      <4> HIDE DEF x, t, J
      <4> QED  BY <3>1, <3>2, <4>1
    <3>3. CASE J = {}
      <4> HIDE DEF x, t, J
      <4> QED  BY <3>1, <3>3
    <3> QED  BY <3>2, <3>3
  <2> HIDE DEF j
  <2>8. SubSeq(t, 1, j) = SubSeq(s, 1 + (x - 1), j + (x - 1))
    <3> HIDE DEF x
    <3>1. 1 <= j + 1 /\ j \in Int /\ j <= Len(s) - x + 1 /\ x <= Len(s) + 1
      BY <1>1, <2>4, <2>6, <2>7
    <3> QED  BY <1>1, <2>4, <3>1, PartOfPart
  <2>9. /\ 1 + (x - 1) \in Nat \ {0} /\ j + (x - 1) \in Int
        /\ 1 + (x - 1) <= (j + (x - 1)) + 1 /\ j + (x - 1) <= Len(s)
    <3> HIDE DEF x, t
    <3> QED  BY <1>1, <2>4, <2>6, <2>7
  <2> HIDE DEF x, t
  <2> QED  BY <2>5, <2>8, <2>9
<1> QED  BY <1>2, <1>3

-----------------------------------------------------------------------------
(* Citations.                                                               *)

IsPart(q, s) ==
    \E i \in Nat \ {0}, j \in Int : i <= j + 1 /\ j <= Len(s) /\ q = SubSeq(s, i, j)

\* A part of the lines, as it is or with other blanks.
Quotes(q, s) == IsPart(q, s) \/ \E r : IsPart(r, s) /\ q = Collapse(r)

\* A text is a part of itself.
LEMMA WholePart ==
  ASSUME NEW s \in Texts
  PROVE  IsPart(s, s)
<1>1. Len(s) \in Nat /\ SubSeq(s, 1, Len(s)) = s
  BY DEF Texts
<1> QED  BY <1>1 DEF IsPart

\* The beginning of a part is a part, and so is the quote of the offline grader.
LEMMA LineQuotedPart ==
  ASSUME NEW s \in Texts
  PROVE  IsPart(LineQuoted(s), s)
<1>1. PICK i \in Nat \ {0}, j \in Int : i <= j + 1 /\ j <= Len(s) /\ Strip(s) = SubSeq(s, i, j)
  BY StripPart
<1>2. Strip(s) \in Texts /\ Len(Strip(s)) = j - i + 1
  BY <1>1, PartShape
<1> DEFINE m == AtMost(Len(Strip(s)), MaxQuote)
<1>3. m \in Nat /\ m <= j - i + 1
  BY <1>1, <1>2, QuoteAssumption DEF AtMost, QuoteAssumption
<1>4. LineQuoted(s) = SubSeq(SubSeq(s, i, j), 1, m)
  BY <1>1 DEF LineQuoted
<1> HIDE DEF m
<1>5. SubSeq(SubSeq(s, i, j), 1, m) = SubSeq(s, 1 + (i - 1), m + (i - 1))
  BY <1>1, <1>3, PartOfPart
<1>6. /\ 1 + (i - 1) \in Nat \ {0} /\ m + (i - 1) \in Int /\ 1 + (i - 1) <= (m + (i - 1)) + 1
      /\ m + (i - 1) <= Len(s)
  <2>1. Len(s) \in Nat
    BY NewlinesShape
  <2> QED  BY <1>1, <1>3, <2>1
<1> QED  BY <1>4, <1>5, <1>6 DEF IsPart

\* What quotes a text, as it is, stripped or collapsed, is found in it by the verifier.
LEMMA QuoteWithin ==
  ASSUME NEW s \in Texts, NEW q, Quotes(q, s)
  PROVE  Within(Collapse(q), Collapse(s))
<1>1. ASSUME NEW r, IsPart(r, s)
      PROVE  r \in Texts /\ Within(Collapse(r), Collapse(s))
  <2>1. PICK i \in Nat \ {0}, j \in Int : i <= j + 1 /\ j <= Len(s) /\ r = SubSeq(s, i, j)
    BY <1>1 DEF IsPart
  <2>2. SubSeq(s, i, j) \in Texts /\ Within(Collapse(SubSeq(s, i, j)), Collapse(s))
    BY <2>1, PartShape, CollapseWithin
  <2> QED  BY <2>1, <2>2
<1>2. CASE IsPart(q, s)
  BY <1>1, <1>2
<1>3. ASSUME NEW r, IsPart(r, s), q = Collapse(r)
      PROVE  Within(Collapse(q), Collapse(s))
  BY <1>1, <1>3, CollapseIdempotent
<1> QED  BY <1>2, <1>3 DEF Quotes

\* What quotes the lines of the beginning quotes those of the text.
LEMMA QuotesOfBeginning ==
  ASSUME NEW s \in Texts, NEW m \in Nat, m <= Len(s), NEW a \in Nat, NEW b \in Nat, a <= b,
         b <= LineCount(Beginning(s, m)),
         NEW q, Quotes(q, Extract(Beginning(s, m), a, b))
  PROVE  Quotes(q, Extract(s, a, b))
<1>1. ASSUME NEW r, IsPart(r, Extract(Beginning(s, m), a, b)) PROVE IsPart(r, Extract(s, a, b))
  <2>1. PICK i \in Nat \ {0}, j \in Int : /\ i <= j + 1 /\ j <= Len(Extract(Beginning(s, m), a, b))
                                          /\ r = SubSeq(Extract(Beginning(s, m), a, b), i, j)
    BY <1>1 DEF IsPart
  <2>2. SubSeq(Extract(Beginning(s, m), a, b), i, j) = SubSeq(Extract(s, a, b), i, j)
        /\ j <= Len(Extract(s, a, b))
    BY <2>1, QuoteOfBeginning
  <2> QED  BY <2>1, <2>2 DEF IsPart
<1> QED  BY <1>1 DEF Quotes

FileRecord == [path : Paths, content : Texts]

\* A file set: one file per path.
FileSets == {fs \in Seq(FileRecord) : \A k, l \in DOMAIN fs : fs[k].path = fs[l].path => k = l}

\* A quote of lines from the beginning of a stored file, by their numbers there, is verified
\* against the file.
LEMMA CitationVerified ==
  ASSUME NEW fs \in FileSets, NEW k \in DOMAIN fs, NEW e, e.path = fs[k].path,
         NEW m \in Nat, m <= Len(fs[k].content),
         e.start \in Nat \ {0}, e.end \in Nat, e.start <= e.end,
         e.end <= LineCount(Beginning(fs[k].content, m)),
         Quotes(e.quote, Extract(Beginning(fs[k].content, m), e.start, e.end))
  PROVE  Verify(e, fs) = "verified"
<1> DEFINE text == fs[k].content
           at   == SelectLastInSeq(fs, LAMBDA f : f.path = e.path)
<1>1. fs \in Seq(FileRecord) /\ k \in 1..Len(fs) /\ Len(fs) \in Nat /\ fs[k] \in FileRecord
      /\ DOMAIN fs = 1..Len(fs)
  BY DEF FileSets
<1>2. text \in Texts
  BY <1>1 DEF FileRecord
<1>3. at = k
  <2> DEFINE I == {i \in 1..Len(fs) : fs[i].path = e.path}
  <2>1. I = {k}
    BY <1>1 DEF FileSets
  <2>2. Max({k}) = k
    <3>1. {k} \subseteq 0..k /\ k \in Nat
      BY <1>1
    <3>2. Max({k}) \in {k}
      BY <3>1, MaxShape
    <3> QED  BY <3>2
  <2>3. at = IF I # {} THEN Max(I) ELSE 0
    BY DEF SelectLastInSeq
  <2> QED  BY <2>1, <2>2, <2>3
<1> HIDE DEF text, at
<1>4. e.end <= LineCount(text)
  BY <1>2, BeginningLines DEF text
<1>5. Quotes(e.quote, Extract(text, e.start, e.end))
  BY <1>2, QuotesOfBeginning DEF text
<1>6. Within(Collapse(e.quote), Collapse(Extract(text, e.start, e.end)))
  <2>1. Extract(text, e.start, e.end) \in Texts
    BY <1>2, ExtractShape
  <2> QED  BY <1>5, <2>1, QuoteWithin
<1>7. at # 0 /\ fs[at].content = text
  BY <1>1, <1>3 DEF text
<1> QED  BY <1>4, <1>6, <1>7 DEF Verify, at

-----------------------------------------------------------------------------
(* Paths, and finite sequences as sets.                                     *)

\* Paths are in a strict and total order.
LEMMA BeforeOrder ==
  /\ \A p \in Paths : p \in Seq(STRING) /\ Len(p) >= 2 /\ ~Before(p, p)
  /\ \A p, q, r \in Paths : Before(p, q) /\ Before(q, r) => Before(p, r)
  /\ \A p, q \in Paths : p = q \/ Before(p, q) \/ Before(q, p)
<1>1. /\ PathOrder \in Seq(Seq(STRING)) /\ DOMAIN PathOrder = 1..Len(PathOrder) /\ Len(PathOrder) \in Nat
      /\ \A k \in DOMAIN PathOrder : PathOrder[k] \in Seq(STRING) /\ Len(PathOrder[k]) >= 2
      /\ \A k, l \in DOMAIN PathOrder : PathOrder[k] = PathOrder[l] => k = l
  BY PathsAssumption DEF PathsAssumption
<1>2. \A p \in Paths : \E k \in DOMAIN PathOrder : p = PathOrder[k]
  BY DEF Paths, ToSet
<1>3. \A i, j \in DOMAIN PathOrder : Before(PathOrder[i], PathOrder[j]) <=> i < j
  BY <1>1 DEF Before
<1> QED  BY <1>1, <1>2, <1>3

\* The elements of a sequence are finitely many.
LEMMA ToSetFinite ==
  ASSUME NEW A, NEW s \in Seq(A)
  PROVE  IsFiniteSet(ToSet(s)) /\ ToSet(s) \subseteq A
<1>1. Len(s) \in Nat /\ DOMAIN s = 1..Len(s)
  OBVIOUS
<1>2. s \in Surjection(1..Len(s), ToSet(s))
  BY <1>1 DEF Surjection, ToSet
<1>3. IsFiniteSet(1..Len(s))
  BY <1>1, FS_Interval
<1>4. IsFiniteSet(ToSet(s))
  BY <1>2, <1>3, FS_Surjection
<1> QED  BY <1>4 DEF ToSet

\* The set of the elements of a sequence without repetitions has its size.
LEMMA ToSetSize ==
  ASSUME NEW A, NEW s \in Seq(A), \A k, l \in DOMAIN s : s[k] = s[l] => k = l
  PROVE  Cardinality(ToSet(s)) = Len(s)
<1>1. Len(s) \in Nat /\ DOMAIN s = 1..Len(s)
  OBVIOUS
<1>2. s \in Bijection(1..Len(s), ToSet(s))
  BY <1>1 DEF Bijection, Surjection, Injection, IsInjective, ToSet
<1>3. ExistsBijection(1..Len(s), ToSet(s))
  BY <1>2 DEF ExistsBijection
<1> QED  BY <1>1, <1>3, FS_CountingElements
-----------------------------------------------------------------------------
(* The loop of normalize_items.                                             *)

TakeNone == [files |-> <<>>, total |-> 0, error |-> FALSE]

Takes(acc, items, N) ==
    acc = [n \in 0..N |-> IF n = 0 THEN TakeNone ELSE TakeItem(acc[n - 1], items[n])]

\* The loop of normalize_items has a value after each round.
LEMMA TakesExist ==
  ASSUME NEW items, NEW N \in Nat
  PROVE  \E acc : Takes(acc, items, N)
<1> DEFINE Q == {n \in 0..N : \E acc : Takes(acc, items, n)}
<1>1. 0 \in Q
  <2> DEFINE acc == [n \in 0..0 |-> TakeNone]
  <2>1. Takes(acc, items, 0)
    BY DEF Takes
  <2> QED  BY <2>1
<1>2. ASSUME NEW n \in 1..N, n - 1 \in Q PROVE n \in Q
  <2>1. PICK g : Takes(g, items, n - 1)
    BY <1>2
  <2> DEFINE h == [k \in 0..n |-> IF k = n THEN TakeItem(g[n - 1], items[n]) ELSE g[k]]
  <2>2. /\ g[0] = TakeNone
        /\ \A k \in 1..(n - 1) : g[k] = TakeItem(g[k - 1], items[k])
    BY <2>1 DEF Takes
  <2>3. h[0] = TakeNone
    BY <2>2
  <2>4. ASSUME NEW k \in 1..n PROVE h[k] = TakeItem(h[k - 1], items[k])
    <3>1. h[k - 1] = g[k - 1]
      OBVIOUS
    <3>2. CASE k = n
      BY <3>1, <3>2
    <3>3. CASE k # n
      <4>1. k \in 1..(n - 1) /\ h[k] = g[k]
        BY <3>3
      <4> HIDE DEF h
      <4> QED  BY <2>2, <3>1, <4>1
    <3> QED  BY <3>2, <3>3
  <2>5. \A k \in 0..n : k = 0 \/ k \in 1..n
    OBVIOUS
  <2>6. h = [k \in 0..n |-> h[k]]
    OBVIOUS
  <2> HIDE DEF h
  <2>7. Takes(h, items, n)
    BY <2>3, <2>4, <2>5, <2>6 DEF Takes
  <2> QED  BY <2>7
<1> HIDE DEF Q
<1>3. N \in Q
  BY <1>1, <1>2, CountingUp
<1> QED  BY <1>3 DEF Q

\* What is taken is the value after the last round.
LEMMA TakenIs ==
  ASSUME NEW items, Len(items) \in Nat
  PROVE  \E acc : Takes(acc, items, Len(items)) /\ Taken(items) = acc[Len(items)]
<1> DEFINE acc[n \in 0..Len(items)] ==
             IF n = 0 THEN [files |-> <<>>, total |-> 0, error |-> FALSE]
             ELSE TakeItem(acc[n - 1], items[n])
<1>1. PICK g : Takes(g, items, Len(items))
  BY TakesExist
<1>2. g = [n \in 0..Len(items) |-> IF n = 0 THEN [files |-> <<>>, total |-> 0, error |-> FALSE]
                                   ELSE TakeItem(g[n - 1], items[n])]
  BY <1>1 DEF Takes, TakeNone
<1>3. acc = [n \in 0..Len(items) |-> IF n = 0 THEN [files |-> <<>>, total |-> 0, error |-> FALSE]
                                     ELSE TakeItem(acc[n - 1], items[n])]
  BY <1>2
<1>4. Taken(items) = acc[Len(items)]
  BY DEF Taken
<1> HIDE DEF acc
<1>5. Takes(acc, items, Len(items))
  BY <1>3 DEF Takes, TakeNone
<1> QED  BY <1>4, <1>5
ItemRecord == [path : Paths, kind : {"file", "link", "dead"}, points : Texts,
               abs : BOOLEAN, text : Texts, crlf : BOOLEAN, nul : BOOLEAN]

\* The items of a source: one per path.
ItemLists == {items \in Seq(ItemRecord) : \A k, l \in DOMAIN items : items[k].path = items[l].path => k = l}

\* The items that are kept.
Fits(item) ==
    ~(Excluded(item.path) \/ RawSize(item) > MaxFileSize \/ item.nul \/ Blank(item.text))

FileOf(item) == [path |-> item.path, content |-> item.text]

Fitting(items, n) == {k \in 1..n : Fits(items[k])}

Total(items, K) == SumFunction([k \in K |-> Len(items[k].text)])

InLimits(items, K) == Total(items, K) <= MaxTotal /\ Cardinality(K) <= MaxFiles

\* An item and the file made of it are well typed.
LEMMA ItemShape ==
  ASSUME NEW item \in ItemRecord
  PROVE  /\ item.path \in Paths /\ item.text \in Texts /\ Len(item.text) \in Nat
         /\ RawSize(item) \in Nat /\ FileOf(item) \in FileRecord
<1>1. item.path \in Paths /\ item.text \in Texts /\ item.crlf \in BOOLEAN
  BY DEF ItemRecord
<1>2. Len(item.text) \in Nat
  BY <1>1 DEF Texts
<1>3. Cardinality(Newlines(item.text)) \in Nat
  BY <1>1, NewlinesShape, FS_CardinalityType
<1>4. RawSize(item) \in Nat
  BY <1>1, <1>2, <1>3 DEF RawSize
<1> QED  BY <1>1, <1>2, <1>4 DEF FileOf, FileRecord

\* Totals are natural numbers,
LEMMA TotalType ==
  ASSUME NEW items \in Seq(ItemRecord), NEW K, K \subseteq DOMAIN items
  PROVE  IsFiniteSet(K) /\ Cardinality(K) \in Nat /\ Total(items, K) \in Nat
<1>1. DOMAIN items = 1..Len(items) /\ Len(items) \in Nat
  OBVIOUS
<1>2. IsFiniteSet(K)
  <2>1. IsFiniteSet(1..Len(items)) /\ K \in SUBSET (1..Len(items))
    BY <1>1, FS_Interval
  <2> QED  BY <2>1, FS_Subset
<1> DEFINE w == [k \in K |-> Len(items[k].text)]
<1>3. DOMAIN w = K /\ \A k \in DOMAIN w : w[k] \in Nat
  BY ItemShape
<1>4. SumFunction(w) \in Nat
  <2> HIDE DEF w
  <2> QED  BY <1>2, <1>3, SumType
<1> QED  BY <1>2, <1>4, FS_CardinalityType DEF Total

\* and grow by the item that is added.
LEMMA TotalStep ==
  ASSUME NEW items \in Seq(ItemRecord), NEW K, K \subseteq DOMAIN items,
         NEW n \in DOMAIN items, n \notin K
  PROVE  /\ Total(items, K \union {n}) = Len(items[n].text) + Total(items, K)
         /\ Cardinality(K \union {n}) = Cardinality(K) + 1
<1> DEFINE v == [k \in K \union {n} |-> Len(items[k].text)]
           w == [k \in K |-> Len(items[k].text)]
<1>1. IsFiniteSet(K) /\ IsFiniteSet(K \union {n})
  BY TotalType, FS_AddElement
<1>2. /\ DOMAIN v = K \union {n} /\ DOMAIN w = DOMAIN v \ {n} /\ n \in DOMAIN v
      /\ \A k \in DOMAIN v : v[k] \in Nat
      /\ \A k \in DOMAIN w : w[k] = v[k]
      /\ v[n] = Len(items[n].text)
  BY ItemShape
<1>3. SumFunction(v) = v[n] + SumFunction(w)
  <2> HIDE DEF v, w
  <2> QED  BY <1>1, <1>2, SumTakeOut
<1>4. Cardinality(K \union {n}) = Cardinality(K) + 1
  BY <1>1, FS_AddElement
<1> QED  BY <1>2, <1>3, <1>4 DEF Total

\* A round adds its item to the fitting ones if it passes the filters.
LEMMA FittingStep ==
  ASSUME NEW items \in Seq(ItemRecord), NEW n \in DOMAIN items
  PROVE  /\ Fitting(items, n - 1) \subseteq DOMAIN items /\ n \notin Fitting(items, n - 1)
         /\ Fits(items[n]) => Fitting(items, n) = Fitting(items, n - 1) \union {n}
         /\ ~Fits(items[n]) => Fitting(items, n) = Fitting(items, n - 1)
<1>1. DOMAIN items = 1..Len(items) /\ Len(items) \in Nat
  OBVIOUS
<1>2. Fitting(items, n - 1) \subseteq 1..(n - 1)
  BY DEF Fitting
<1>3. 1..n = 1..(n - 1) \union {n} /\ n \in Nat
  BY <1>1
<1> QED  BY <1>1, <1>2, <1>3 DEF Fitting

FilesOf(items, K) == {FileOf(items[k]) : k \in K}

\* What is taken of the first n items.
TakenOf(a, items, n) ==
    \/ /\ a = [files |-> a.files, total |-> Total(items, Fitting(items, n)), error |-> FALSE]
       /\ a.files \in Seq(FileRecord)
       /\ ToSet(a.files) = FilesOf(items, Fitting(items, n))
       /\ Len(a.files) = Cardinality(Fitting(items, n))
       /\ InLimits(items, Fitting(items, n))
    \/ a.error = TRUE /\ ~InLimits(items, Fitting(items, n))

\* Appending adds one element.
LEMMA AppendToSet ==
  ASSUME NEW A, NEW s \in Seq(A), NEW x \in A
  PROVE  Append(s, x) \in Seq(A) /\ ToSet(Append(s, x)) = ToSet(s) \union {x} /\ Len(Append(s, x)) = Len(s) + 1
<1>1. /\ Len(s) \in Nat /\ DOMAIN s = 1..Len(s) /\ DOMAIN Append(s, x) = 1..(Len(s) + 1)
      /\ Append(s, x)[Len(s) + 1] = x
      /\ \A k \in 1..Len(s) : Append(s, x)[k] = s[k]
      /\ Append(s, x) \in Seq(A) /\ Len(Append(s, x)) = Len(s) + 1
  OBVIOUS
<1>2. 1..(Len(s) + 1) = 1..Len(s) \union {Len(s) + 1}
  BY <1>1
<1>3. ToSet(Append(s, x)) = ToSet(s) \union {x}
  <2> DEFINE t == Append(s, x)
  <2>1. ToSet(t) = {t[k] : k \in 1..Len(s)} \union {t[Len(s) + 1]}
    BY <1>1, <1>2 DEF ToSet
  <2>2. ToSet(s) = {s[k] : k \in 1..Len(s)}
    BY <1>1 DEF ToSet
  <2> HIDE DEF t
  <2>3. /\ t[Len(s) + 1] = x
        /\ \A k \in 1..Len(s) : t[k] = s[k]
    BY <1>1 DEF t
  <2> QED  BY <2>1, <2>2, <2>3 DEF t
<1> QED  BY <1>1, <1>3

\* A round of the loop keeps its closed form.
LEMMA TakenStep ==
  ASSUME NEW items \in Seq(ItemRecord), NEW n \in DOMAIN items, NEW a, TakenOf(a, items, n - 1)
  PROVE  TakenOf(TakeItem(a, items[n]), items, n)
<1> DEFINE K == Fitting(items, n - 1)
           L == Fitting(items, n)
           item == items[n]
           b == TakeItem(a, item)
<1>1. /\ K \subseteq DOMAIN items /\ n \notin K
      /\ Fits(item) => L = K \union {n}
      /\ ~Fits(item) => L = K
  BY FittingStep
<1>2. /\ Total(items, K) \in Nat /\ Cardinality(K) \in Nat
      /\ item \in ItemRecord /\ Len(item.text) \in Nat /\ FileOf(item) \in FileRecord
  BY <1>1, TotalType, ItemShape
<1>3. MaxTotal \in Nat /\ MaxFiles \in Nat
  BY LimitsAssumption DEF LimitsAssumption
<1>4. CASE ~Fits(item)
  <2>1. b = a
    BY <1>4 DEF TakeItem, Fits
  <2>2. L = K
    BY <1>1, <1>4
  <2> QED  BY <2>1, <2>2 DEF TakenOf
<1>5. CASE Fits(item)
  <2>1. L = K \union {n} /\ Total(items, L) = Len(item.text) + Total(items, K) /\ Cardinality(L) = Cardinality(K) + 1
    BY <1>1, <1>5, TotalStep
  <2>2. CASE a.error = TRUE /\ ~InLimits(items, K)
    <3>1. b = a
      BY <2>2 DEF TakeItem
    <3>2. ~InLimits(items, L)
      <4> HIDE DEF K, L, item
      <4> QED  BY <1>2, <1>3, <2>1, <2>2 DEF InLimits
    <3> QED  BY <2>2, <3>1, <3>2 DEF TakenOf
  <2>3. CASE /\ a = [files |-> a.files, total |-> Total(items, K), error |-> FALSE]
             /\ a.files \in Seq(FileRecord)
             /\ ToSet(a.files) = FilesOf(items, K)
             /\ Len(a.files) = Cardinality(K)
             /\ InLimits(items, K)
    <3>0. a.error = FALSE /\ a.total = Total(items, K) /\ Len(a.files) \in Nat
      BY <1>2, <2>3
    <3>1. ASSUME a.total + Len(item.text) > MaxTotal \/ Len(a.files) >= MaxFiles
          PROVE  b = [a EXCEPT !.error = TRUE]
      BY <3>0, <3>1, <1>5 DEF TakeItem, Fits
    <3>2. ASSUME ~(a.total + Len(item.text) > MaxTotal \/ Len(a.files) >= MaxFiles)
          PROVE  b = [a EXCEPT !.total = @ + Len(item.text),
                               !.files = Append(@, FileOf(item))]
      BY <3>0, <3>2, <1>5 DEF TakeItem, Fits, FileOf
    <3>3. a.total + Len(item.text) > MaxTotal \/ Len(a.files) >= MaxFiles <=> ~InLimits(items, L)
      <4> HIDE DEF K, L, item
      <4>1. Total(items, L) = a.total + Len(item.text) /\ Cardinality(L) = Len(a.files) + 1
        BY <1>2, <2>1, <2>3, <3>0
      <4> QED  BY <1>2, <1>3, <3>0, <4>1 DEF InLimits
    <3>4. CASE ~InLimits(items, L)
      <4>1. b.error = TRUE
        <5>1. b = [a EXCEPT !.error = TRUE]
          BY <3>1, <3>3, <3>4
        <5>2. a = [files |-> a.files, total |-> Total(items, K), error |-> FALSE]
          BY <2>3
        <5> HIDE DEF b, K, L, item
        <5> QED  BY <5>1, <5>2
      <4> QED  BY <3>4, <4>1 DEF TakenOf
    <3>5. CASE InLimits(items, L)
      <4>1. b = [files |-> Append(a.files, FileOf(item)), total |-> Total(items, L), error |-> FALSE]
        <5>1. b = [a EXCEPT !.total = @ + Len(item.text), !.files = Append(@, FileOf(item))]
          BY <3>2, <3>3, <3>5
        <5>2. a = [files |-> a.files, total |-> Total(items, K), error |-> FALSE]
          BY <2>3
        <5>3. Total(items, K) + Len(item.text) = Total(items, L)
          BY <1>2, <2>1
        <5>4. /\ DOMAIN a = {"files", "total", "error"}
              /\ a.total = Total(items, K) /\ a.error = FALSE
          BY <5>2
        <5>5. b = [files |-> Append(a.files, FileOf(item)), total |-> a.total + Len(item.text),
                   error |-> a.error]
          <6> HIDE DEF b, K, L, item
          <6> QED  BY <5>1, <5>4
        <5> HIDE DEF b, K, L, item
        <5> QED  BY <5>3, <5>4, <5>5
      <4>2. /\ Append(a.files, FileOf(item)) \in Seq(FileRecord)
            /\ ToSet(Append(a.files, FileOf(item))) = ToSet(a.files) \union {FileOf(item)}
            /\ Len(Append(a.files, FileOf(item))) = Len(a.files) + 1
        <5> HIDE DEF K, L, item
        <5> QED  BY <1>2, <2>3, AppendToSet
      <4>3. FilesOf(items, L) = FilesOf(items, K) \union {FileOf(item)}
        BY <2>1 DEF FilesOf
      <4>4. /\ b.files = Append(a.files, FileOf(item))
            /\ b = [files |-> b.files, total |-> Total(items, L), error |-> FALSE]
        <5> HIDE DEF b, K, L, item
        <5> QED  BY <4>1
      <4>5. Len(b.files) = Cardinality(L) /\ ToSet(b.files) = FilesOf(items, L) /\ b.files \in Seq(FileRecord)
        <5> HIDE DEF b, K, L, item
        <5> QED  BY <4>2, <4>3, <4>4, <2>1, <2>3
      <4>6. TakenOf(b, items, n)
        <5> HIDE DEF b
        <5> QED  BY <4>4, <4>5, <3>5 DEF TakenOf
      <4> QED  BY <4>6
    <3> QED  BY <3>4, <3>5
  <2> QED  BY <2>2, <2>3 DEF TakenOf
<1> QED  BY <1>4, <1>5

\* What is taken depends on the items only.
LEMMA TakenShape ==
  ASSUME NEW items \in Seq(ItemRecord)
  PROVE  TakenOf(Taken(items), items, Len(items))
<1>1. Len(items) \in Nat /\ DOMAIN items = 1..Len(items)
  OBVIOUS
<1>2. PICK acc : Takes(acc, items, Len(items)) /\ Taken(items) = acc[Len(items)]
  BY <1>1, TakenIs
<1> DEFINE Q == {n \in 0..Len(items) : TakenOf(acc[n], items, n)}
<1>3. 0 \in Q
  <2>1. acc[0] = TakeNone
    BY <1>1, <1>2 DEF Takes
  <2>2. Fitting(items, 0) = {}
    BY DEF Fitting
  <2>3. Total(items, {}) = 0 /\ Cardinality({}) = 0
    <3> DEFINE w == [k \in {} |-> Len(items[k].text)]
    <3>1. DOMAIN w = {}
      OBVIOUS
    <3>2. SumFunction(w) = 0
      <4> HIDE DEF w
      <4> QED  BY <3>1, SumEmpty
    <3> QED  BY <3>2, FS_EmptySet DEF Total
  <2>4. InLimits(items, {})
    BY <2>3, LimitsAssumption DEF InLimits, LimitsAssumption
  <2>5. ToSet(<<>>) = {} /\ FilesOf(items, {}) = {} /\ <<>> \in Seq(FileRecord) /\ Len(<<>>) = 0
    BY DEF ToSet, FilesOf
  <2>6. TakenOf(TakeNone, items, 0)
    BY <2>2, <2>3, <2>4, <2>5 DEF TakenOf, TakeNone
  <2> QED  BY <1>1, <2>1, <2>6
<1>4. ASSUME NEW n \in 1..Len(items), n - 1 \in Q PROVE n \in Q
  <2>1. acc[n] = TakeItem(acc[n - 1], items[n])
    BY <1>1, <1>2 DEF Takes
  <2>2. TakenOf(acc[n - 1], items, n - 1) /\ n \in DOMAIN items
    BY <1>1, <1>4
  <2>3. TakenOf(TakeItem(acc[n - 1], items[n]), items, n)
    BY <2>2, TakenStep
  <2> QED  BY <1>1, <2>1, <2>3
<1> HIDE DEF Q
<1>5. \A n \in 0..Len(items) : n \in Q
  BY <1>1, <1>3, <1>4, CountingUp
<1>6. Len(items) \in Q
  BY <1>1, <1>5
<1> QED  BY <1>2, <1>6 DEF Q
ByPath(S) == {fg \in S \X S : Before(fg[1].path, fg[2].path)}

\* Records of different paths.
OnePerPath(S) == \A f, g \in S : f.path = g.path => f = g

\* Files of different paths are in a strict order.
LEMMA ByPathOrder ==
  ASSUME NEW S, S \subseteq FileRecord, OnePerPath(S)
  PROVE  StrictOrder(ByPath(S), S)
<1>1. \A f \in S : f.path \in Paths
  BY DEF FileRecord
<1>2. \A f, g \in S : <<f, g>> \in ByPath(S) <=> Before(f.path, g.path)
  BY DEF ByPath
<1> QED  BY <1>1, <1>2, BeforeOrder DEF StrictOrder, OnePerPath

\* A finite set of files in a strict order is a file set.
LEMMA OrderedFiles ==
  ASSUME NEW S, IsFiniteSet(S), S \subseteq FileRecord, OnePerPath(S), NEW R, StrictOrder(R, S)
  PROVE  /\ InOrder(S, R) \in FileSets /\ ToSet(InOrder(S, R)) = S
         /\ \A m, n \in DOMAIN InOrder(S, R) : m < n => <<InOrder(S, R)[m], InOrder(S, R)[n]>> \in R
<1> DEFINE fs == InOrder(S, R)
<1>1. Cardinality(S) \in Nat /\ fs \in [1..Cardinality(S) -> S]
  BY InOrderShape
<1>2. \A m, n \in 1..Cardinality(S) : m < n => <<fs[m], fs[n]>> \in R
  BY InOrderGrows
<1>3. \A f \in S : \E n \in 1..Cardinality(S) : fs[n] = f
  BY InOrderOnly
<1> HIDE DEF fs
<1>4. fs \in Seq(FileRecord) /\ DOMAIN fs = 1..Cardinality(S)
  BY <1>1
<1>5. ASSUME NEW k \in DOMAIN fs, NEW l \in DOMAIN fs, fs[k].path = fs[l].path PROVE k = l
  <2>1. fs[k] \in S /\ fs[l] \in S /\ k \in 1..Cardinality(S) /\ l \in 1..Cardinality(S)
    BY <1>1, <1>4
  <2>2. fs[k] = fs[l]
    BY <1>5, <2>1 DEF OnePerPath
  <2>3. ~(k < l) /\ ~(l < k)
    BY <1>2, <2>1, <2>2 DEF StrictOrder
  <2> QED  BY <2>1, <2>3
<1>6. ToSet(fs) = S
  BY <1>1, <1>3, <1>4 DEF ToSet
<1> QED  BY <1>2, <1>4, <1>5, <1>6 DEF FileSets, fs

\* The items of a set that are kept, and the file set that they make.
KeptOf(r) == {i \in r : Fits(i)}

SizeOf(r) == SumFunction([i \in r |-> Len(i.text)])

FileSetOf(r) ==
    IF r = {} \/ SizeOf(r) > MaxTotal \/ Cardinality(r) > MaxFiles THEN Rejected
    ELSE [files |-> InOrder({FileOf(i) : i \in r}, ByPath({FileOf(i) : i \in r})), error |-> FALSE]

\* The places of the items of a set.
PlacesOf(items, r) == {k \in DOMAIN items : items[k] \in r}

\* A sequence and the set of its elements have the same items, and as many.
LEMMA SameTotals ==
  ASSUME NEW items \in ItemLists, NEW r, r \subseteq ToSet(items)
  PROVE  /\ Total(items, PlacesOf(items, r)) = SizeOf(r)
         /\ Cardinality(PlacesOf(items, r)) = Cardinality(r)
<1> DEFINE K == PlacesOf(items, r)
           w == [k \in K |-> Len(items[k].text)]
           v == [i \in r |-> Len(i.text)]
           b == [k \in K |-> items[k]]
<1>1. items \in Seq(ItemRecord) /\ \A k, l \in DOMAIN items : items[k].path = items[l].path => k = l
  BY DEF ItemLists
<1>2. IsFiniteSet(ToSet(items)) /\ ToSet(items) \subseteq ItemRecord
  BY <1>1, ToSetFinite
<1>3. IsFiniteSet(r) /\ K \subseteq DOMAIN items
  BY <1>2, FS_Subset DEF PlacesOf
<1>4. IsFiniteSet(K)
  BY <1>1, <1>3, TotalType
<1>5. b \in [K -> r] /\ \A k \in K : b[k] = items[k]
  BY DEF PlacesOf
<1>6. \A x, y \in K : items[x] = items[y] => x = y
  BY <1>1, <1>3
<1>7. \A y \in r : \E x \in K : items[x] = y
  BY DEF PlacesOf, ToSet
<1>8. /\ \A y \in r : v[y] \in Nat
      /\ \A x \in K : w[x] = v[items[x]]
      /\ DOMAIN v = r /\ DOMAIN w = K
  <2>1. \A y \in r : Len(y.text) \in Nat
    BY <1>2, ItemShape
  <2>2. \A x \in K : items[x] \in r
    BY DEF PlacesOf
  <2> QED  BY <2>1, <2>2
<1>9. SumFunction(w) = SumFunction(v)
  <2> HIDE DEF v, w, b, K
  <2> QED  BY <1>3, <1>4, <1>5, <1>6, <1>7, <1>8, SumMoved
<1>10. Cardinality(K) = Cardinality(r)
  <2>1. b \in Bijection(K, r)
    <3> HIDE DEF b, K
    <3> QED  BY <1>5, <1>6, <1>7 DEF Bijection, Injection, Surjection, IsInjective
  <2>2. ExistsBijection(K, r)
    BY <2>1 DEF ExistsBijection
  <2> HIDE DEF K
  <2> QED  BY <1>4, <2>2, FS_Bijection
<1> QED  BY <1>9, <1>10 DEF Total, SizeOf

\* The file set depends on the set of the items only.
LEMMA NormalizeShape ==
  ASSUME NEW items \in ItemLists
  PROVE  Normalize(items) = FileSetOf(KeptOf(ToSet(items)))
<1> DEFINE r == KeptOf(ToSet(items))
           K == Fitting(items, Len(items))
           S == {FileOf(i) : i \in r}
           taken == Taken(items)
<1>1. items \in Seq(ItemRecord) /\ DOMAIN items = 1..Len(items) /\ Len(items) \in Nat
  BY DEF ItemLists
<1>2. TakenOf(taken, items, Len(items))
  BY <1>1, TakenShape
<1>3. K = PlacesOf(items, r) /\ r \subseteq ToSet(items)
  BY <1>1 DEF Fitting, PlacesOf, KeptOf, ToSet
<1>4. Total(items, K) = SizeOf(r) /\ Cardinality(K) = Cardinality(r)
  <2> HIDE DEF r
  <2> QED  BY <1>3, SameTotals
<1>5. FilesOf(items, K) = S
  <2>1. \A i \in r : \E k \in K : i = items[k]
    BY <1>1 DEF Fitting, KeptOf, ToSet
  <2>2. \A k \in K : items[k] \in r
    BY <1>1 DEF Fitting, KeptOf, ToSet
  <2> HIDE DEF r, K
  <2> QED  BY <2>1, <2>2 DEF FilesOf
<1>6. Total(items, K) \in Nat /\ Cardinality(K) \in Nat /\ IsFiniteSet(K)
  BY <1>1, <1>3, TotalType DEF PlacesOf
<1>7. InLimits(items, K) <=> ~(SizeOf(r) > MaxTotal \/ Cardinality(r) > MaxFiles)
  <2>1. MaxTotal \in Nat /\ MaxFiles \in Nat
    BY LimitsAssumption DEF LimitsAssumption
  <2> HIDE DEF r, K
  <2> QED  BY <1>4, <1>6, <2>1 DEF InLimits
<1>8. CASE ~InLimits(items, K)
  <2>1. taken.error = TRUE
    <3> HIDE DEF taken
    <3> QED  BY <1>2, <1>8 DEF TakenOf
  <2>2. Normalize(items) = Rejected
    BY <2>1 DEF Normalize
  <2> QED  BY <1>7, <1>8, <2>2 DEF FileSetOf
<1>9. CASE InLimits(items, K)
  <2>1. /\ taken = [files |-> taken.files, total |-> Total(items, K), error |-> FALSE]
        /\ taken.files \in Seq(FileRecord) /\ ToSet(taken.files) = S
        /\ Len(taken.files) = Cardinality(r)
    <3> HIDE DEF taken
    <3> QED  BY <1>2, <1>4, <1>5, <1>9 DEF TakenOf
  <2>2. taken.error = FALSE
    <3> HIDE DEF taken
    <3> QED  BY <2>1
  <2>3. taken.files = <<>> <=> r = {}
    <3>1. IsFiniteSet(r)
      <4>1. IsFiniteSet(ToSet(items))
        BY <1>1, ToSetFinite
      <4> QED  BY <1>3, <4>1, FS_Subset
    <3>2. Cardinality(r) = 0 <=> r = {}
      <4> HIDE DEF r
      <4> QED  BY <3>1, FS_EmptySet
    <3>3. taken.files = <<>> <=> Len(taken.files) = 0
      <4> HIDE DEF taken
      <4> QED  BY <2>1
    <3> QED  BY <2>1, <3>2, <3>3
  <2>4. Sorted(taken.files) = InOrder(S, ByPath(S))
    <3> HIDE DEF taken, S
    <3> QED  BY <2>1 DEF Sorted, ByPath
  <2>5. Normalize(items) = IF taken.files = <<>> THEN Rejected ELSE [files |-> Sorted(taken.files), error |-> FALSE]
    BY <2>2 DEF Normalize
  <2>6. Normalize(items) = FileSetOf(r)
    <3> HIDE DEF taken
    <3> QED  BY <1>7, <1>9, <2>3, <2>4, <2>5 DEF FileSetOf
  <2> QED  BY <2>6
<1> QED  BY <1>8, <1>9

\* A file set that is not rejected has its files in order, one per path.
LEMMA FileSetShape ==
  ASSUME NEW r, IsFiniteSet(r), r \subseteq ItemRecord, OnePerPath(r)
  PROVE  \/ FileSetOf(r) = Rejected
         \/ FileSetOf(r) = [files |-> FileSetOf(r).files, error |-> FALSE] /\ FileSetOf(r).files \in FileSets
<1> DEFINE S == {FileOf(i) : i \in r}
           f == [i \in r |-> FileOf(i)]
<1>1. f \in Surjection(r, S)
  BY DEF Surjection
<1>2. IsFiniteSet(S)
  <2> HIDE DEF f, S
  <2> QED  BY <1>1, FS_Surjection
<1>3. S \subseteq FileRecord
  BY ItemShape
<1>4. OnePerPath(S)
  BY DEF OnePerPath, FileOf
<1> HIDE DEF S
<1>5. InOrder(S, ByPath(S)) \in FileSets
  <2> DEFINE R == ByPath(S)
  <2>1. StrictOrder(R, S)
    BY <1>3, <1>4, ByPathOrder
  <2> HIDE DEF R
  <2>2. InOrder(S, R) \in FileSets
    BY <1>2, <1>3, <1>4, <2>1, OrderedFiles
  <2> QED  BY <2>2 DEF R
<1> QED  BY <1>5 DEF FileSetOf, S

\* What is kept of a source are items of different paths.
LEMMA KeptSubset ==
  ASSUME NEW r, IsFiniteSet(r), r \subseteq ItemRecord, OnePerPath(r)
  PROVE  IsFiniteSet(KeptOf(r)) /\ KeptOf(r) \subseteq ItemRecord /\ OnePerPath(KeptOf(r))
<1>1. KeptOf(r) \in SUBSET r
  BY DEF KeptOf
<1>2. IsFiniteSet(KeptOf(r))
  BY <1>1, FS_Subset
<1> QED  BY <1>1, <1>2 DEF OnePerPath

-----------------------------------------------------------------------------
(* The two sources.                                                         *)

\* The items of a list are finitely many, with different paths.
LEMMA ListShape ==
  ASSUME NEW items \in ItemLists
  PROVE  IsFiniteSet(ToSet(items)) /\ ToSet(items) \subseteq ItemRecord /\ OnePerPath(ToSet(items))
<1>1. items \in Seq(ItemRecord)
  BY DEF ItemLists
<1>2. IsFiniteSet(ToSet(items)) /\ ToSet(items) \subseteq ItemRecord
  BY <1>1, ToSetFinite
<1>3. OnePerPath(ToSet(items))
  BY DEF ItemLists, OnePerPath, ToSet
<1> QED  BY <1>2, <1>3

\* Normalization rejects or gives a file set.
LEMMA NormalizeType ==
  ASSUME NEW items \in ItemLists
  PROVE  \/ Normalize(items) = Rejected
         \/ /\ Normalize(items) = [files |-> Normalize(items).files, error |-> FALSE]
            /\ Normalize(items).files \in FileSets
<1> DEFINE r == KeptOf(ToSet(items))
<1>1. IsFiniteSet(r) /\ r \subseteq ItemRecord /\ OnePerPath(r)
  BY ListShape, KeptSubset
<1>2. Normalize(items) = FileSetOf(r)
  BY NormalizeShape
<1> HIDE DEF r
<1> QED  BY <1>1, <1>2, FileSetShape

\* Picked elements are those at the places, each picked once.
LEMMA PickSet ==
  ASSUME NEW A, NEW s \in Seq(A), NEW K, K \subseteq DOMAIN s
  PROVE  /\ Pick(s, K) \in Seq(A) /\ ToSet(Pick(s, K)) = {s[k] : k \in K}
         /\ DOMAIN Pick(s, K) = 1..Cardinality(K)
         /\ \A n \in DOMAIN Pick(s, K) : Places(K)[n] \in K /\ Pick(s, K)[n] = s[Places(K)[n]]
         /\ \A m, n \in DOMAIN Pick(s, K) : Places(K)[m] = Places(K)[n] => m = n
<1>1. DOMAIN s = 1..Len(s) /\ Len(s) \in Nat
  OBVIOUS
<1>2. IsFiniteSet(K) /\ K \subseteq Int
  <2>1. IsFiniteSet(1..Len(s)) /\ K \in SUBSET (1..Len(s))
    BY <1>1, FS_Interval
  <2> QED  BY <2>1, FS_Subset
<1>3. /\ Cardinality(K) \in Nat
      /\ Places(K) \in [1..Cardinality(K) -> K]
      /\ \A m, n \in 1..Cardinality(K) : m < n => Places(K)[m] < Places(K)[n]
  BY <1>2, PlacesShape
<1>4. \A k \in K : \E n \in 1..Cardinality(K) : Places(K)[n] = k
  BY <1>2, PlacesOnly
<1>5. Pick(s, K) = [n \in 1..Cardinality(K) |-> s[Places(K)[n]]]
  BY PickShape
<1>6. \A n \in 1..Cardinality(K) : s[Places(K)[n]] \in A
  BY <1>3
<1>7. \A m, n \in 1..Cardinality(K) : Places(K)[m] = Places(K)[n] => m = n
  <2>1. \A n \in 1..Cardinality(K) : Places(K)[n] \in Int /\ n \in Int
    BY <1>2, <1>3
  <2> QED  BY <1>3, <2>1
<1>8. Pick(s, K) \in Seq(A)
  BY <1>3, <1>5, <1>6
<1>9. ToSet(Pick(s, K)) = {s[k] : k \in K}
  <2> DEFINE N == Cardinality(K)
             P == Places(K)
  <2>1. Pick(s, K) = [n \in 1..N |-> s[P[n]]]
    BY <1>5
  <2>2. /\ \A n \in 1..N : P[n] \in K
        /\ \A k \in K : \E n \in 1..N : P[n] = k
    BY <1>3, <1>4
  <2> HIDE DEF N, P
  <2>3. ToSet(Pick(s, K)) = {s[P[n]] : n \in 1..N}
    BY <2>1 DEF ToSet
  <2> QED  BY <2>2, <2>3
<1> QED  BY <1>3, <1>5, <1>7, <1>8, <1>9

\* The items of a tree that are there for the walk.
ReadableOf(r) == {i \in r : Readable(i)}

\* A clone gives the file set of its readable items: what else the walk leaves out would
\* be dropped anyway.
LEMMA GithubShape ==
  ASSUME NEW items \in ItemLists
  PROVE  IngestGithub(items) = IF CloneSize(items) > MaxClone THEN Rejected
                               ELSE FileSetOf(KeptOf(ReadableOf(ToSet(items))))
<1> DEFINE K == {k \in DOMAIN items : /\ ~InGitDir(items[k]) /\ Readable(items[k])
                                      /\ RawSize(items[k]) <= MaxFileSize}
           kept == Pick(items, K)
<1>1. items \in Seq(ItemRecord) /\ K \subseteq DOMAIN items
  BY DEF ItemLists
<1>2. Walk(items) = kept
  BY DEF Walk
<1>3. /\ kept \in Seq(ItemRecord) /\ ToSet(kept) = {items[k] : k \in K}
      /\ \A n \in DOMAIN kept : Places(K)[n] \in K /\ kept[n] = items[Places(K)[n]]
      /\ \A m, n \in DOMAIN kept : Places(K)[m] = Places(K)[n] => m = n
  <2> HIDE DEF K
  <2> QED  BY <1>1, PickSet
<1>4. kept \in ItemLists
  <2> HIDE DEF kept, K
  <2> QED  BY <1>1, <1>3 DEF ItemLists
<1>5. KeptOf(ToSet(kept)) = KeptOf(ReadableOf(ToSet(items)))
  <2>1. ASSUME NEW k \in DOMAIN items, Readable(items[k]), Fits(items[k]) PROVE k \in K
    <3>1. RawSize(items[k]) \in Nat /\ MaxFileSize \in Nat
      BY <1>1, ItemShape, LimitsAssumption DEF LimitsAssumption
    <3>2. ~Excluded(items[k].path) /\ ~(RawSize(items[k]) > MaxFileSize)
      BY <2>1 DEF Fits
    <3>3. ~InGitDir(items[k])
      BY <3>2 DEF Excluded, InGitDir, ExcludeDirs
    <3> QED  BY <2>1, <3>1, <3>2, <3>3
  <2> HIDE DEF kept
  <2>2. ToSet(kept) = {items[k] : k \in K}
    BY <1>3
  <2>3. K \subseteq DOMAIN items /\ \A k \in K : Readable(items[k])
    BY <1>1
  <2> HIDE DEF K
  <2> QED  BY <2>1, <2>2, <2>3 DEF KeptOf, ReadableOf, ToSet
<1>6. Normalize(kept) = FileSetOf(KeptOf(ToSet(kept)))
  <2> HIDE DEF kept
  <2> QED  BY <1>4, NormalizeShape
<1> QED  BY <1>2, <1>5, <1>6 DEF IngestGithub

\* The places and the elements are as many, and correspond to each other.
LEMMA PlacesCorrespond ==
  ASSUME NEW items \in ItemLists, NEW r, r \subseteq ToSet(items), NEW v, NEW w,
         DOMAIN v = r, DOMAIN w = PlacesOf(items, r),
         \A i \in r : v[i] \in Nat,
         \A k \in PlacesOf(items, r) : w[k] = v[items[k]]
  PROVE  SumFunction(w) = SumFunction(v)
<1> DEFINE K == PlacesOf(items, r)
           b == [k \in K |-> items[k]]
<1>1. items \in Seq(ItemRecord) /\ \A k, l \in DOMAIN items : items[k].path = items[l].path => k = l
  BY DEF ItemLists
<1>2. IsFiniteSet(ToSet(items))
  BY <1>1, ToSetFinite
<1>3. IsFiniteSet(r) /\ K \subseteq DOMAIN items
  BY <1>2, FS_Subset DEF PlacesOf
<1>4. IsFiniteSet(K)
  BY <1>1, <1>3, TotalType
<1>5. b \in [K -> r] /\ \A k \in K : b[k] = items[k]
  BY DEF PlacesOf
<1>6. \A x, y \in K : items[x] = items[y] => x = y
  BY <1>1, <1>3
<1>7. \A y \in r : \E x \in K : items[x] = y
  BY DEF PlacesOf, ToSet
<1> HIDE DEF b
<1>8. /\ \A x, y \in DOMAIN w : b[x] = b[y] => x = y
      /\ \A y \in DOMAIN v : \E x \in DOMAIN w : b[x] = y
      /\ \A x \in DOMAIN w : w[x] = v[b[x]]
      /\ b \in [DOMAIN w -> DOMAIN v]
  BY <1>5, <1>6, <1>7
<1> HIDE DEF K
<1> QED  BY <1>3, <1>4, <1>8, SumMoved DEF K

RawTotal(r) == SumFunction([i \in r |-> RawSize(i)])

\* A total over the items of a list depends on their set only.
LEMMA RawTotals ==
  ASSUME NEW items \in ItemLists, NEW r, r \subseteq ToSet(items)
  PROVE  SumFunction([k \in PlacesOf(items, r) |-> RawSize(items[k])]) = RawTotal(r)
<1> DEFINE v == [i \in r |-> RawSize(i)]
           w == [k \in PlacesOf(items, r) |-> RawSize(items[k])]
<1>1. \A i \in r : RawSize(i) \in Nat
  BY ListShape, ItemShape
<1>2. \A k \in PlacesOf(items, r) : items[k] \in r
  BY DEF PlacesOf
<1>3. /\ DOMAIN v = r /\ DOMAIN w = PlacesOf(items, r)
      /\ \A i \in r : v[i] \in Nat
      /\ \A k \in PlacesOf(items, r) : w[k] = v[items[k]]
  BY <1>1, <1>2
<1>4. SumFunction(w) = SumFunction(v)
  <2> HIDE DEF v, w
  <2> QED  BY <1>3, PlacesCorrespond
<1> QED  BY <1>4 DEF RawTotal

\* The limits on a source as such do not depend on the order of its items.
LEMMA LimitsOfSet ==
  ASSUME NEW items \in ItemLists
  PROVE  /\ CloneSize(items) = RawTotal({i \in ToSet(items) : ~InGitDir(i) /\ Readable(i)})
         /\ ZipGuards(items) <=> /\ Cardinality(ToSet(items)) <= MaxFiles * 4
                                 /\ RawTotal(ToSet(items)) <= MaxTotal * 20
<1> DEFINE r == {i \in ToSet(items) : ~InGitDir(i) /\ Readable(i)}
<1>1. {k \in DOMAIN items : ~InGitDir(items[k]) /\ Readable(items[k])} = PlacesOf(items, r)
  BY DEF PlacesOf, ToSet
<1>2. DOMAIN items = PlacesOf(items, ToSet(items))
  BY DEF PlacesOf, ToSet
<1>3. SumFunction([k \in PlacesOf(items, r) |-> RawSize(items[k])]) = RawTotal(r)
  <2>1. r \subseteq ToSet(items)
    OBVIOUS
  <2> HIDE DEF r
  <2> QED  BY <2>1, RawTotals
<1>4. SumFunction([k \in PlacesOf(items, ToSet(items)) |-> RawSize(items[k])]) = RawTotal(ToSet(items))
  BY RawTotals
<1>5. Cardinality(ToSet(items)) = Len(items)
  <2>1. items \in Seq(ItemRecord) /\ \A k, l \in DOMAIN items : items[k] = items[l] => k = l
    BY DEF ItemLists
  <2> QED  BY <2>1, ToSetSize
<1>6. CloneSize(items) = RawTotal(r)
  BY <1>1, <1>3 DEF CloneSize
<1>7. ZipGuards(items) <=> /\ Cardinality(ToSet(items)) <= MaxFiles * 4
                           /\ RawTotal(ToSet(items)) <= MaxTotal * 20
  BY <1>2, <1>4, <1>5 DEF ZipGuards
<1> QED  BY <1>6, <1>7

\* Sequences over a set are sequences over a larger one.
LEMMA SeqOfMore ==
  ASSUME NEW A, NEW B, A \subseteq B
  PROVE  Seq(A) \subseteq Seq(B)
<1>1. ASSUME NEW s \in Seq(A) PROVE s \in Seq(B)
  <2>1. s \in [1..Len(s) -> A] /\ Len(s) \in Nat
    OBVIOUS
  <2>2. s \in [1..Len(s) -> B]
    BY <2>1
  <2> QED  BY <2>1, <2>2
<1> QED  BY <1>1

\* A source in any order is a list of items.
LEMMA OrderShape ==
  ASSUME NEW r \in Repos \union Crafted, NEW order \in SetToSeqs(r)
  PROVE  order \in ItemLists /\ ToSet(order) = r
<1>1. /\ IsFiniteSet(r)
      /\ r \subseteq [path : Paths, kind : {"file", "link", "dead"}, points : Seq(STRING),
                      abs : BOOLEAN, text : Seq(STRING), crlf : BOOLEAN, nul : BOOLEAN]
      /\ \A i, j \in r : i.path = j.path => i = j
  BY SourcesAssumption DEF SourcesAssumption
<1>2. r \subseteq ItemRecord
  <2>1. Seq(STRING) \subseteq Texts
    <3>1. STRING \subseteq Tokens
      BY DEF Tokens
    <3> QED  BY <3>1, SeqOfMore DEF Texts
  <2> QED  BY <1>1, <2>1 DEF ItemRecord
<1>3. Cardinality(r) \in Nat
  BY <1>1, FS_CardinalityType
<1>4. /\ order \in [1..Cardinality(r) -> r]
      /\ \A i, j \in 1..Cardinality(r) : i # j => order[i] # order[j]
  BY DEF SetToSeqs
<1>5. order \in Seq(ItemRecord) /\ DOMAIN order = 1..Cardinality(r)
  BY <1>2, <1>3, <1>4
<1>6. order \in ItemLists
  BY <1>1, <1>4, <1>5 DEF ItemLists
<1>7. order \in Injection(1..Cardinality(r), r)
  BY <1>4 DEF Injection, IsInjective
<1>8. IsFiniteSet(1..Cardinality(r)) /\ Cardinality(1..Cardinality(r)) = Cardinality(r)
  BY <1>3, FS_Interval
<1>9. order \in Surjection(1..Cardinality(r), r)
  BY <1>1, <1>7, <1>8, FS_Injection
<1>10. ToSet(order) = r
  BY <1>4, <1>5, <1>9 DEF Surjection, ToSet
<1> QED  BY <1>6, <1>10

\* The chosen order of a finite set is one of its orders.
LEMMA ChosenOrder ==
  ASSUME NEW r, IsFiniteSet(r)
  PROVE  SetToSeq(r) \in SetToSeqs(r)
<1>1. PICK n \in Nat : ExistsBijection(1..n, r)
  BY FS_NatBijection
<1>2. Cardinality(r) = n
  BY <1>1, FS_CountingElements
<1>3. \E f \in [1..Cardinality(r) -> r] : IsInjective(f)
  BY <1>1, <1>2 DEF ExistsBijection, Bijection, Injection, IsInjective
<1>4. SetToSeq(r) \in [1..Cardinality(r) -> r] /\ IsInjective(SetToSeq(r))
  BY <1>3 DEF SetToSeq
<1> QED  BY <1>4 DEF SetToSeqs, IsInjective

\* A path with a folder on top.
LEMMA PathWrapped ==
  ASSUME NEW A, NEW p \in Seq(A), Len(p) >= 2, NEW x \in A
  PROVE  LET q == <<x>> \o p IN
         /\ q \in Seq(A) /\ Len(q) = Len(p) + 1 /\ q[1] = x
         /\ SubSeq(q, 2, Len(q)) = p
         /\ Dirs(q) # <<>>
         /\ ToSet(Dirs(q)) = {x} \union ToSet(Dirs(p))
<1> DEFINE q == <<x>> \o p
<1>1. /\ q \in Seq(A) /\ Len(q) = Len(p) + 1 /\ q[1] = x /\ Len(p) \in Nat
      /\ \A k \in 1..Len(p) : q[k + 1] = p[k]
  OBVIOUS
<1> HIDE DEF q
<1>2. SubSeq(q, 2, Len(q)) = p
  <2>1. SubSeq(q, 2, Len(q)) \in Seq(A) /\ Len(SubSeq(q, 2, Len(q))) = Len(p)
    BY <1>1
  <2>2. \A k \in 1..Len(p) : SubSeq(q, 2, Len(q))[k] = q[k + 1]
    BY <1>1
  <2> QED  BY <1>1, <2>1, <2>2
<1>3. /\ Len(Dirs(q)) = Len(p) - 1 /\ DOMAIN Dirs(q) = 1..(Len(p) - 1)
      /\ \A k \in 1..(Len(p) - 1) : Dirs(q)[k] = q[k]
  BY <1>1 DEF Dirs
<1>4. /\ DOMAIN Dirs(p) = 1..(Len(p) - 2)
      /\ \A k \in 1..(Len(p) - 2) : Dirs(p)[k] = p[k]
  BY <1>1 DEF Dirs
<1>5. Dirs(q) # <<>>
  BY <1>1, <1>3
<1>6. ToSet(Dirs(q)) \subseteq {x} \union ToSet(Dirs(p))
  <2>1. ASSUME NEW k \in 1..(Len(p) - 1) PROVE q[k] \in {x} \union ToSet(Dirs(p))
    <3>1. CASE k = 1
      BY <1>1, <3>1
    <3>2. CASE k # 1
      <4>1. k - 1 \in 1..(Len(p) - 2) /\ q[k] = p[k - 1]
        <5>1. k - 1 \in 1..Len(p) /\ (k - 1) + 1 = k
          BY <1>1, <3>2
        <5>2. q[(k - 1) + 1] = p[k - 1]
          BY <1>1, <5>1
        <5> QED  BY <1>1, <3>2, <5>1, <5>2
      <4> QED  BY <1>4, <4>1 DEF ToSet
    <3> QED  BY <3>1, <3>2
  <2> QED  BY <1>3, <2>1 DEF ToSet
<1>7. {x} \union ToSet(Dirs(p)) \subseteq ToSet(Dirs(q))
  <2>1. 1 \in DOMAIN Dirs(q) /\ Dirs(q)[1] = x
    BY <1>1, <1>3
  <2>2. ASSUME NEW k \in 1..(Len(p) - 2) PROVE k + 1 \in DOMAIN Dirs(q) /\ Dirs(q)[k + 1] = p[k]
    <3>1. k + 1 \in 1..(Len(p) - 1) /\ k \in 1..Len(p)
      BY <1>1
    <3> QED  BY <1>1, <1>3, <3>1
  <2> QED  BY <1>4, <2>1, <2>2 DEF ToSet
<1> QED  BY <1>1, <1>2, <1>5, <1>6, <1>7 DEF q

\* An item in the host's folder differs from the item in its path only.
LEMMA WrappedShape ==
  ASSUME NEW item \in ItemRecord
  PROVE  /\ Wrapped(item).path[1] = Wrapper /\ Dirs(Wrapped(item).path) # <<>>
         /\ Unsafe(Wrapped(item)) <=> Unsafe(item)
         /\ RawSize(Wrapped(item)) = RawSize(item)
         /\ [Wrapped(item) EXCEPT !.path = SubSeq(@, 2, Len(@))] = item
<1> DEFINE p == item.path
           q == <<Wrapper>> \o p
<1>1. p \in Seq(STRING) /\ Len(p) >= 2
  BY ItemShape, BeforeOrder
<1>2. Wrapper \in STRING /\ Wrapper # ".."
  BY TermsAssumption DEF TermsAssumption
<1>3. /\ q[1] = Wrapper /\ SubSeq(q, 2, Len(q)) = p /\ Dirs(q) # <<>>
      /\ ToSet(Dirs(q)) = {Wrapper} \union ToSet(Dirs(p))
  <2> HIDE DEF p
  <2> QED  BY <1>1, <1>2, PathWrapped
<1>4. item = [path |-> item.path, kind |-> item.kind, points |-> item.points, abs |-> item.abs,
              text |-> item.text, crlf |-> item.crlf, nul |-> item.nul]
  BY DEF ItemRecord
<1>5. Wrapped(item) = [path |-> q, kind |-> item.kind, points |-> item.points, abs |-> item.abs,
                       text |-> item.text, crlf |-> item.crlf, nul |-> item.nul]
  <2>1. Wrapped(item) = [item EXCEPT !.path = q]
    BY DEF Wrapped
  <2> HIDE DEF q
  <2> QED  BY <1>4, <2>1
<1> HIDE DEF q
<1>6. /\ Wrapped(item).path = q /\ Wrapped(item).abs = item.abs
      /\ Wrapped(item).text = item.text /\ Wrapped(item).crlf = item.crlf
  BY <1>5
<1>7. Unsafe(Wrapped(item)) <=> Unsafe(item)
  BY <1>2, <1>3, <1>6 DEF Unsafe
<1>8. RawSize(Wrapped(item)) = RawSize(item)
  BY <1>6 DEF RawSize
<1>9. [Wrapped(item) EXCEPT !.path = SubSeq(@, 2, Len(@))] = item
  <2>1. [Wrapped(item) EXCEPT !.path = SubSeq(@, 2, Len(@))] = [Wrapped(item) EXCEPT !.path = p]
    BY <1>3, <1>5, <1>6
  <2> HIDE DEF p
  <2>2. [Wrapped(item) EXCEPT !.path = p] =
           [path |-> p, kind |-> item.kind, points |-> item.points, abs |-> item.abs,
            text |-> item.text, crlf |-> item.crlf, nul |-> item.nul]
    BY <1>5
  <2> QED  BY <1>4, <2>1, <2>2 DEF p
<1> QED  BY <1>3, <1>6, <1>7, <1>8, <1>9

\* Items in the host's folder are ingested as they would be without it.
LEMMA ArchiveShape ==
  ASSUME NEW order \in ItemLists
  PROVE  IngestZip([k \in DOMAIN order |-> Wrapped(order[k])]) =
           IF order = <<>> \/ (\E i \in ToSet(order) : Unsafe(i)) \/ ~ZipGuards(order) THEN Rejected
           ELSE Normalize(order)
<1> DEFINE items == [k \in DOMAIN order |-> Wrapped(order[k])]
           stripped(n) == [k \in DOMAIN items |-> [items[k] EXCEPT !.path = SubSeq(@, n, Len(@))]]
<1>1. /\ order \in Seq(ItemRecord) /\ DOMAIN order = 1..Len(order) /\ Len(order) \in Nat
  BY DEF ItemLists
<1>2. items = [k \in 1..Len(order) |-> Wrapped(order[k])]
  BY <1>1
<1>3. /\ DOMAIN items = 1..Len(order) /\ Len(items) = Len(order)
      /\ items = <<>> <=> order = <<>>
  <2> DEFINE A == {Wrapped(order[k]) : k \in 1..Len(order)}
  <2>1. items \in [1..Len(order) -> A]
    BY <1>2
  <2>2. items \in Seq(A)
    <3> HIDE DEF items, A
    <3> QED  BY <1>1, <2>1
  <2>3. Len(items) = Len(order) /\ DOMAIN items = 1..Len(order)
    <3> HIDE DEF items, A
    <3> QED  BY <1>1, <2>1, <2>2
  <2> HIDE DEF items, A
  <2>4. items = <<>> <=> Len(items) = 0
    BY <2>2
  <2>5. order = <<>> <=> Len(order) = 0
    BY <1>1
  <2> QED  BY <2>3, <2>4, <2>5
<1>4. \A k \in DOMAIN items :
          /\ items[k] = Wrapped(order[k])
          /\ items[k].path[1] = Wrapper /\ Dirs(items[k].path) # <<>>
          /\ Unsafe(items[k]) <=> Unsafe(order[k])
          /\ RawSize(items[k]) = RawSize(order[k])
          /\ [items[k] EXCEPT !.path = SubSeq(@, 2, Len(@))] = order[k]
  <2>1. ASSUME NEW k \in DOMAIN items PROVE order[k] \in ItemRecord /\ items[k] = Wrapped(order[k])
    <3> HIDE DEF items
    <3> QED  BY <1>1, <1>2, <1>3
  <2> HIDE DEF items
  <2>2. ASSUME NEW k \in DOMAIN items
        PROVE  /\ items[k].path[1] = Wrapper /\ Dirs(items[k].path) # <<>>
               /\ Unsafe(items[k]) <=> Unsafe(order[k])
               /\ RawSize(items[k]) = RawSize(order[k])
               /\ [items[k] EXCEPT !.path = SubSeq(@, 2, Len(@))] = order[k]
    <3> DEFINE o == order[k]
    <3>1. o \in ItemRecord /\ items[k] = Wrapped(o)
      BY <2>1
    <3> HIDE DEF o
    <3>2. /\ Wrapped(o).path[1] = Wrapper /\ Dirs(Wrapped(o).path) # <<>>
          /\ Unsafe(Wrapped(o)) <=> Unsafe(o)
          /\ RawSize(Wrapped(o)) = RawSize(o)
          /\ [Wrapped(o) EXCEPT !.path = SubSeq(@, 2, Len(@))] = o
      BY <3>1, WrappedShape
    <3> QED  BY <3>1, <3>2 DEF o
  <2> QED  BY <2>1, <2>2
<1> HIDE DEF items
<1>5. (\E i \in ToSet(items) : Unsafe(i)) <=> (\E i \in ToSet(order) : Unsafe(i))
  BY <1>1, <1>3, <1>4 DEF ToSet
<1>6. ZipGuards(items) <=> ZipGuards(order)
  <2>1. [k \in DOMAIN items |-> RawSize(items[k])] = [k \in DOMAIN order |-> RawSize(order[k])]
    BY <1>1, <1>3, <1>4
  <2> QED  BY <1>3, <2>1 DEF ZipGuards
<1>7. CASE order = <<>>
  BY <1>3, <1>7 DEF IngestZip, items
<1>8. CASE order # <<>>
  <2>1. 1 \in DOMAIN items
    BY <1>1, <1>3, <1>8
  <2>2. CommonRoot(items) = <<Wrapper>>
    <3>1. \A i \in ToSet(items) : Dirs(i.path) # <<>> /\ i.path[1] = Wrapper
      <4>1. \A k \in DOMAIN items : Dirs(items[k].path) # <<>> /\ items[k].path[1] = Wrapper
        BY <1>4
      <4> QED  BY <4>1 DEF ToSet
    <3>2. items[1].path[1] = Wrapper
      BY <1>4, <2>1
    <3> QED  BY <3>1, <3>2 DEF CommonRoot
  <2>3. Len(CommonRoot(items)) + 1 = 2
    BY <2>2
  <2>4. stripped(2) = order
    BY <1>1, <1>3, <1>4
  <2>5. stripped(Len(CommonRoot(items)) + 1) = order
    BY <2>3, <2>4
  <2> HIDE DEF stripped
  <2>6. IngestZip(items) = IF items = <<>> \/ (\E i \in ToSet(items) : Unsafe(i)) \/ ~ZipGuards(items) THEN Rejected
                           ELSE Normalize(stripped(Len(CommonRoot(items)) + 1))
    BY DEF IngestZip, stripped
  <2> QED  BY <1>3, <1>5, <1>6, <2>5, <2>6 DEF items
<1> QED  BY <1>7, <1>8

\* A path without its first directory.
LEMMA TailOf ==
  ASSUME NEW A, NEW p \in Seq(A), Len(p) >= 2
  PROVE  /\ SubSeq(p, 1, Len(p)) = p /\ SubSeq(p, 2, Len(p)) = Tail(p)
         /\ Len(Tail(p)) = Len(p) - 1
         /\ \A k \in 1..(Len(p) - 1) : Tail(p)[k] = p[k + 1]
<1>1. Len(p) \in Nat /\ DOMAIN p = 1..Len(p)
  OBVIOUS
<1>2. SubSeq(p, 1, Len(p)) = p
  <2>1. /\ SubSeq(p, 1, Len(p)) \in Seq(A) /\ Len(SubSeq(p, 1, Len(p))) = Len(p)
        /\ \A k \in 1..Len(p) : SubSeq(p, 1, Len(p))[k] = p[k]
    BY <1>1
  <2> QED  BY <1>1, <2>1
<1>3. /\ Tail(p) \in Seq(A) /\ Len(Tail(p)) = Len(p) - 1
      /\ \A k \in 1..(Len(p) - 1) : Tail(p)[k] = p[k + 1]
  BY <1>1
<1>4. /\ SubSeq(p, 2, Len(p)) \in Seq(A) /\ Len(SubSeq(p, 2, Len(p))) = Len(p) - 1
      /\ \A k \in 1..(Len(p) - 1) : SubSeq(p, 2, Len(p))[k] = p[k + 1]
  BY <1>1
<1>5. SubSeq(p, 2, Len(p)) = Tail(p)
  BY <1>3, <1>4
<1> QED  BY <1>2, <1>3, <1>5

\* What an archive of a source holds: a list of items of the same paths, none of them a
\* link, which is that of the source if it has no links.
ArchivedOf(order) == [k \in DOMAIN order |-> Archived(order[k])]

LEMMA ArchivedShape ==
  ASSUME NEW order \in ItemLists
  PROVE  /\ ArchivedOf(order) \in ItemLists /\ DOMAIN ArchivedOf(order) = DOMAIN order
         /\ ToSet(ArchivedOf(order)) = {Archived(i) : i \in ToSet(order)}
         /\ \A k \in DOMAIN order : ArchivedOf(order)[k].path = order[k].path
         /\ ArchivedOf(order) = <<>> <=> order = <<>>
<1>1. /\ order \in Seq(ItemRecord) /\ DOMAIN order = 1..Len(order) /\ Len(order) \in Nat
      /\ \A k, l \in DOMAIN order : order[k].path = order[l].path => k = l
  BY DEF ItemLists
<1>2. ASSUME NEW item \in ItemRecord
      PROVE  Archived(item) \in ItemRecord /\ Archived(item).path = item.path
  BY DEF Archived, ItemRecord
<1>3. \A k \in DOMAIN order : Archived(order[k]) \in ItemRecord /\ Archived(order[k]).path = order[k].path
  BY <1>1, <1>2
<1>4. ArchivedOf(order) \in [1..Len(order) -> ItemRecord]
  BY <1>1, <1>3 DEF ArchivedOf
<1>5. ArchivedOf(order) \in Seq(ItemRecord) /\ DOMAIN ArchivedOf(order) = DOMAIN order
  BY <1>1, <1>4
<1>6. \A k \in DOMAIN order : ArchivedOf(order)[k] = Archived(order[k])
  BY DEF ArchivedOf
<1>7. ArchivedOf(order) \in ItemLists
  BY <1>1, <1>3, <1>5, <1>6 DEF ItemLists
<1>8. ToSet(ArchivedOf(order)) = {Archived(i) : i \in ToSet(order)}
  BY <1>5, <1>6 DEF ToSet
<1>9. ArchivedOf(order) = <<>> <=> order = <<>>
  <2>1. Len(ArchivedOf(order)) = Len(order)
    BY <1>1, <1>4, <1>5
  <2>2. ArchivedOf(order) = <<>> <=> Len(ArchivedOf(order)) = 0
    BY <1>5
  <2>3. order = <<>> <=> Len(order) = 0
    BY <1>1
  <2> QED  BY <2>1, <2>2, <2>3
<1> QED  BY <1>3, <1>5, <1>6, <1>7, <1>8, <1>9

\* Paths that differ still differ when the folder that all have on top is stripped.
LEMMA ZipType ==
  ASSUME NEW order \in ItemLists,
         \A i \in ToSet(order) : Dirs(i.path) # <<>> => Tail(i.path) \in Paths
  PROVE  \/ IngestZip(order) = Rejected
         \/ /\ IngestZip(order) = [files |-> IngestZip(order).files, error |-> FALSE]
            /\ IngestZip(order).files \in FileSets
<1> DEFINE n == Len(CommonRoot(order)) + 1
           stripped == [k \in DOMAIN order |-> [order[k] EXCEPT !.path = SubSeq(@, n, Len(@))]]
<1>2. /\ order \in Seq(ItemRecord) /\ DOMAIN order = 1..Len(order) /\ Len(order) \in Nat
      /\ \A k, l \in DOMAIN order : order[k].path = order[l].path => k = l
  BY DEF ItemLists
<1>3. \A k \in DOMAIN order : /\ order[k] \in ItemRecord /\ order[k].path \in Seq(STRING)
                              /\ Len(order[k].path) >= 2
  BY <1>2, ItemShape, BeforeOrder
<1>4. /\ \A k \in DOMAIN order : SubSeq(order[k].path, n, Len(order[k].path)) \in Paths
      /\ \A k, l \in DOMAIN order :
             SubSeq(order[k].path, n, Len(order[k].path)) = SubSeq(order[l].path, n, Len(order[l].path)) => k = l
  <2>1. CASE \A i \in ToSet(order) : Dirs(i.path) # <<>> /\ i.path[1] = order[1].path[1]
    <3>1. n = 2
      <4>1. CommonRoot(order) = <<order[1].path[1]>>
        BY <2>1 DEF CommonRoot
      <4> QED  BY <4>1
    <3> HIDE DEF n
    <3>2. \A k \in DOMAIN order : /\ SubSeq(order[k].path, n, Len(order[k].path)) = Tail(order[k].path)
                                  /\ Len(Tail(order[k].path)) = Len(order[k].path) - 1
                                  /\ \A x \in 1..(Len(order[k].path) - 1) : Tail(order[k].path)[x] = order[k].path[x + 1]
      BY <1>3, <3>1, TailOf
    <3>3. \A k \in DOMAIN order : Tail(order[k].path) \in Paths
      <4>1. \A k \in DOMAIN order : order[k] \in ToSet(order) /\ Dirs(order[k].path) # <<>>
        BY <2>1 DEF ToSet
      <4> QED  BY <4>1
    <3>4. ASSUME NEW k \in DOMAIN order, NEW l \in DOMAIN order, Tail(order[k].path) = Tail(order[l].path)
          PROVE  k = l
      <4> DEFINE p == order[k].path
                 q == order[l].path
      <4>1. p[1] = q[1]
        BY <2>1 DEF ToSet
      <4>2. p \in Seq(STRING) /\ q \in Seq(STRING) /\ Len(p) >= 2 /\ Len(q) >= 2
        BY <1>3
      <4>3. /\ Len(p) - 1 = Len(q) - 1
            /\ \A x \in 1..(Len(p) - 1) : p[x + 1] = q[x + 1]
        <5>1. /\ Len(Tail(p)) = Len(p) - 1
              /\ \A x \in 1..(Len(p) - 1) : Tail(p)[x] = p[x + 1]
          BY <4>2, TailOf
        <5>2. /\ Len(Tail(q)) = Len(q) - 1
              /\ \A x \in 1..(Len(q) - 1) : Tail(q)[x] = q[x + 1]
          BY <4>2, TailOf
        <5>3. Tail(p) = Tail(q)
          BY <3>4
        <5> HIDE DEF p, q
        <5>4. Len(p) - 1 = Len(q) - 1
          BY <5>1, <5>2, <5>3
        <5> QED  BY <5>1, <5>2, <5>3, <5>4
      <4>4. p = q
        <5> HIDE DEF p, q
        <5>1. Len(p) = Len(q) /\ Len(p) \in Nat
          BY <4>2, <4>3
        <5>2. ASSUME NEW y \in 1..Len(p) PROVE p[y] = q[y]
          <6>1. CASE y = 1
            BY <4>1, <6>1
          <6>2. CASE y # 1
            <7>1. y - 1 \in 1..(Len(p) - 1) /\ (y - 1) + 1 = y
              BY <5>1, <6>2
            <7>2. p[(y - 1) + 1] = q[(y - 1) + 1]
              BY <4>3, <7>1
            <7> QED  BY <7>1, <7>2
          <6> QED  BY <6>1, <6>2
        <5> QED  BY <4>2, <5>1, <5>2
      <4> QED  BY <1>2, <4>4
    <3>5. \A k \in DOMAIN order : SubSeq(order[k].path, n, Len(order[k].path)) = Tail(order[k].path)
      BY <3>2
    <3> QED  BY <3>3, <3>4, <3>5
  <2>2. CASE ~(\A i \in ToSet(order) : Dirs(i.path) # <<>> /\ i.path[1] = order[1].path[1])
    <3>1. n = 1
      <4>1. CommonRoot(order) = <<>>
        BY <2>2 DEF CommonRoot
      <4> QED  BY <4>1
    <3> HIDE DEF n
    <3>2. \A k \in DOMAIN order : SubSeq(order[k].path, n, Len(order[k].path)) = order[k].path
      BY <1>3, <3>1, TailOf
    <3> QED  BY <1>2, <1>3, <3>2, ItemShape
  <2> QED  BY <2>1, <2>2
<1>5. \A k \in DOMAIN order : /\ stripped[k] \in ItemRecord
                              /\ stripped[k].path = SubSeq(order[k].path, n, Len(order[k].path))
  <2> HIDE DEF n
  <2>1. ASSUME NEW k \in DOMAIN order
        PROVE  /\ stripped[k] \in ItemRecord
               /\ stripped[k].path = SubSeq(order[k].path, n, Len(order[k].path))
    <3> DEFINE p == SubSeq(order[k].path, n, Len(order[k].path))
    <3>1. stripped[k] = [order[k] EXCEPT !.path = p]
      OBVIOUS
    <3>2. p \in Paths
      BY <1>4
    <3> HIDE DEF p, stripped
    <3>3. stripped[k] \in ItemRecord /\ stripped[k].path = p
      BY <1>3, <3>1, <3>2 DEF ItemRecord
    <3> QED  BY <3>3 DEF p
  <2> QED  BY <2>1
<1>6. DOMAIN stripped = 1..Len(order)
  BY <1>2
<1>7. stripped \in ItemLists
  <2> HIDE DEF stripped, n
  <2>1. stripped \in [1..Len(order) -> ItemRecord]
    <3>1. stripped = [k \in 1..Len(order) |-> stripped[k]]
      BY <1>2 DEF stripped
    <3> QED  BY <1>2, <1>5, <3>1
  <2>2. stripped \in Seq(ItemRecord)
    BY <1>2, <2>1
  <2> QED  BY <1>2, <1>4, <1>5, <1>6, <2>2 DEF ItemLists
<1>8. IngestZip(order) = Rejected \/ IngestZip(order) = Normalize(stripped)
  BY DEF IngestZip
<1> HIDE DEF stripped
<1> QED  BY <1>7, <1>8, NormalizeType
Ingested(order, from) ==
    IF from = "clone" THEN IngestGithub(order) ELSE IngestZip(ItemsOf(order, from))

\* The readable items of a list are items of a tree, too.
LEMMA ReadableShape ==
  ASSUME NEW items \in ItemLists
  PROVE  LET there == ReadableOf(ToSet(items)) IN
         IsFiniteSet(there) /\ there \subseteq ItemRecord /\ OnePerPath(there)
<1>1. IsFiniteSet(ToSet(items)) /\ ToSet(items) \subseteq ItemRecord /\ OnePerPath(ToSet(items))
  BY ListShape
<1>2. ReadableOf(ToSet(items)) \in SUBSET ToSet(items)
  BY DEF ReadableOf
<1>3. IsFiniteSet(ReadableOf(ToSet(items)))
  BY <1>1, <1>2, FS_Subset
<1> QED  BY <1>1, <1>2, <1>3 DEF OnePerPath

\* Of a tree whose links are where nothing is kept, an archive holds what a clone has.
LEMMA ArchivedKept ==
  ASSUME NEW r, r \subseteq ItemRecord, LinksOutside(r)
  PROVE  KeptOf({Archived(i) : i \in r}) = KeptOf(ReadableOf(r))
<1>1. ASSUME NEW i \in r
      PROVE  /\ i.kind = "file" => Archived(i) = i /\ Readable(i)
             /\ i.kind # "file" => ~Fits(i) /\ ~Fits(Archived(i))
  <2>1. CASE i.kind = "file"
    BY <2>1 DEF Archived, Readable
  <2>2. CASE i.kind # "file"
    <3>1. Excluded(i.path) /\ Archived(i).path = i.path
      BY <2>2 DEF LinksOutside, Archived, ItemRecord
    <3> QED  BY <2>2, <3>1 DEF Fits
  <2> QED  BY <2>1, <2>2
<1> QED  BY <1>1 DEF KeptOf, ReadableOf

\* Ingestion rejects or gives a file set.
LEMMA IngestedType ==
  ASSUME NEW r \in Repos \union Crafted, NEW order \in SetToSeqs(r), NEW from \in {"clone", "archive", "zip"}
  PROVE  \/ Ingested(order, from) = Rejected
         \/ /\ Ingested(order, from) = [files |-> Ingested(order, from).files, error |-> FALSE]
            /\ Ingested(order, from).files \in FileSets
<1>1. order \in ItemLists /\ ToSet(order) = r
  BY OrderShape
<1> DEFINE archived == ArchivedOf(order)
<1>a. archived \in ItemLists /\ \A i \in ToSet(archived) : Dirs(i.path) # <<>> => Tail(i.path) \in Paths
  <2>1. \A i \in r : Dirs(i.path) # <<>> => Tail(i.path) \in Paths
    BY SourcesAssumption DEF SourcesAssumption
  <2>2. \A k \in DOMAIN archived : \E i \in r : archived[k].path = i.path
    BY <1>1, ArchivedShape DEF ToSet
  <2>3. \A k \in DOMAIN archived : Dirs(archived[k].path) # <<>> => Tail(archived[k].path) \in Paths
    BY <2>1, <2>2
  <2> QED  BY <1>1, <2>3, ArchivedShape DEF ToSet
<1> HIDE DEF archived
<1>2. CASE from = "clone"
  <2> DEFINE there == ReadableOf(ToSet(order))
             kept  == KeptOf(there)
  <2>1. IsFiniteSet(kept) /\ kept \subseteq ItemRecord /\ OnePerPath(kept)
    <3>1. IsFiniteSet(there) /\ there \subseteq ItemRecord /\ OnePerPath(there)
      BY <1>1, ReadableShape
    <3> HIDE DEF there
    <3> QED  BY <3>1, KeptSubset
  <2>2. Ingested(order, from) = IF CloneSize(order) > MaxClone THEN Rejected ELSE FileSetOf(kept)
    BY <1>1, <1>2, GithubShape DEF Ingested
  <2> HIDE DEF kept
  <2>3. \/ FileSetOf(kept) = Rejected
        \/ FileSetOf(kept) = [files |-> FileSetOf(kept).files, error |-> FALSE] /\ FileSetOf(kept).files \in FileSets
    BY <2>1, FileSetShape
  <2> QED  BY <2>2, <2>3
<1>3. CASE from = "archive"
  <2>1. Ingested(order, from) = IngestZip([k \in DOMAIN archived |-> Wrapped(archived[k])])
    BY <1>3 DEF Ingested, ItemsOf, archived, ArchivedOf
  <2>2. Ingested(order, from) = Rejected \/ Ingested(order, from) = Normalize(archived)
    BY <1>a, <2>1, ArchiveShape
  <2> QED  BY <1>a, <2>2, NormalizeType
<1>4. CASE from = "zip"
  <2>1. Ingested(order, from) = IngestZip(archived)
    BY <1>4 DEF Ingested, ItemsOf, archived, ArchivedOf
  <2> QED  BY <1>a, <2>1, ZipType
<1> QED  BY <1>2, <1>3, <1>4

\* From each source and in every order, a repository has the file set of its clone.
LEMMA SameFileSet ==
  ASSUME NEW r \in Repos, NEW order \in SetToSeqs(r), NEW from \in {"clone", "archive"}, from = "clone" \/ LinksOutside(r),
         CloneSize(SetToSeq(r)) <= MaxClone, ZipGuards(ItemsOf(SetToSeq(r), "zip"))
  PROVE  Ingested(order, from) = IngestGithub(SetToSeq(r))
<1> DEFINE walk == SetToSeq(r)
           outcome == FileSetOf(KeptOf(ReadableOf(r)))
<1>1. order \in ItemLists /\ ToSet(order) = r
  BY OrderShape
<1>2. walk \in ItemLists /\ ToSet(walk) = r
  <2>1. IsFiniteSet(r) /\ r \in Repos \union Crafted
    BY SourcesAssumption DEF SourcesAssumption
  <2>2. walk \in SetToSeqs(r)
    BY <2>1, ChosenOrder
  <2> HIDE DEF walk
  <2> QED  BY <2>1, <2>2, OrderShape
<1>a. ZipGuards(ArchivedOf(walk))
  BY DEF ItemsOf, ArchivedOf
<1>b. CloneSize(walk) <= MaxClone
  OBVIOUS
<1> HIDE DEF walk
<1>3. /\ CloneSize(order) = CloneSize(walk)
      /\ ZipGuards(ArchivedOf(order)) <=> ZipGuards(ArchivedOf(walk))
  <2>1. CloneSize(order) = RawTotal({i \in r : ~InGitDir(i) /\ Readable(i)})
    BY <1>1, LimitsOfSet
  <2>2. CloneSize(walk) = RawTotal({i \in r : ~InGitDir(i) /\ Readable(i)})
    BY <1>2, LimitsOfSet
  <2> DEFINE held == {Archived(i) : i \in r}
  <2>3. /\ ArchivedOf(order) \in ItemLists /\ ToSet(ArchivedOf(order)) = held
        /\ ArchivedOf(walk) \in ItemLists /\ ToSet(ArchivedOf(walk)) = held
    BY <1>1, <1>2, ArchivedShape
  <2> HIDE DEF held
  <2>4. ZipGuards(ArchivedOf(order)) <=> /\ Cardinality(held) <= MaxFiles * 4
                                         /\ RawTotal(held) <= MaxTotal * 20
    BY <2>3, LimitsOfSet
  <2>5. ZipGuards(ArchivedOf(walk)) <=> /\ Cardinality(held) <= MaxFiles * 4
                                        /\ RawTotal(held) <= MaxTotal * 20
    BY <2>3, LimitsOfSet
  <2> QED  BY <2>1, <2>2, <2>4, <2>5
<1>4. ~(CloneSize(walk) > MaxClone)
  <2>1. CloneSize(walk) \in Nat
    <3> DEFINE s == {i \in r : ~InGitDir(i) /\ Readable(i)}
               w == [i \in s |-> RawSize(i)]
    <3>1. IsFiniteSet(s) /\ s \subseteq ItemRecord
      <4>1. IsFiniteSet(r) /\ r \subseteq ItemRecord
        BY <1>1, ListShape
      <4> QED  BY <4>1, FS_Subset
    <3>2. DOMAIN w = s /\ \A i \in DOMAIN w : w[i] \in Nat
      BY <3>1, ItemShape
    <3>3. SumFunction(w) \in Nat
      <4> HIDE DEF w, s
      <4> QED  BY <3>1, <3>2, SumType
    <3>4. CloneSize(walk) = SumFunction(w)
      BY <1>2, LimitsOfSet DEF RawTotal
    <3> QED  BY <3>3, <3>4
  <2>2. MaxClone \in Nat
    BY LimitsAssumption DEF LimitsAssumption
  <2> QED  BY <1>b, <2>1, <2>2
<1>5. IngestGithub(walk) = outcome
  BY <1>2, <1>4, GithubShape
<1>6. CASE from = "clone"
  <2>1. IngestGithub(order) = outcome
    BY <1>1, <1>3, <1>4, GithubShape
  <2> QED  BY <1>5, <1>6, <2>1 DEF Ingested, walk
<1>7. CASE from = "archive"
  <2> DEFINE archived == ArchivedOf(order)
  <2>1. archived \in ItemLists /\ ToSet(archived) = {Archived(i) : i \in r}
    BY <1>1, ArchivedShape
  <2>2. Ingested(order, from) = IngestZip([k \in DOMAIN archived |-> Wrapped(archived[k])])
    BY <1>7 DEF Ingested, ItemsOf, ArchivedOf
  <2>3. \A i \in ToSet(archived) : ~Unsafe(i)
    <3>1. ASSUME NEW i \in r PROVE ~Unsafe(Archived(i))
      <4>1. i \in ItemRecord
        BY <1>1, ListShape
      <4>2. Archived(i).path = i.path /\ Archived(i).abs = i.abs
        BY <4>1 DEF Archived, ItemRecord
      <4>3. ~Unsafe(i)
        BY SourcesAssumption DEF SourcesAssumption
      <4> QED  BY <4>2, <4>3 DEF Unsafe
    <3> QED  BY <2>1, <3>1
  <2>4. archived = <<>> => outcome = Rejected
    <3>1. archived = <<>> => r = {}
      BY <1>1, ArchivedShape DEF ToSet
    <3>2. archived = <<>> => KeptOf(ReadableOf(r)) = {}
      BY <3>1 DEF KeptOf, ReadableOf
    <3> QED  BY <3>2 DEF FileSetOf
  <2> HIDE DEF archived
  <2>5. ZipGuards(archived)
    BY <1>3, <1>a DEF archived
  <2>6. Ingested(order, from) = IF archived = <<>> THEN Rejected ELSE Normalize(archived)
    BY <2>1, <2>2, <2>3, <2>5, ArchiveShape
  <2>7. Normalize(archived) = outcome
    <3>1. Normalize(archived) = FileSetOf(KeptOf({Archived(i) : i \in r}))
      BY <2>1, NormalizeShape
    <3>2. r \subseteq ItemRecord
      BY <1>1, ListShape
    <3>3. KeptOf({Archived(i) : i \in r}) = KeptOf(ReadableOf(r))
      BY <1>7, <3>2, ArchivedKept
    <3> QED  BY <3>1, <3>3
  <2> QED  BY <1>5, <2>4, <2>6, <2>7 DEF walk
<1> QED  BY <1>6, <1>7

\* A repository has one file set in whatever order its files come, each time it is
\* cloned, and from an archive if its symbolic links are all where nothing is kept
\* (ingestion/zip.py, github.py and normalize.py).
THEOREM SourceIsIrrelevant == Spec => []SourceIrrelevant
<1>1. Init => SourceIrrelevant
  BY DEF Init, SourceIrrelevant, OneTreeOneFileSet
<1>2. ASSUME SourceIrrelevant, [Next]_vars PROVE SourceIrrelevant'
  <2>1. CASE Ingest
    <3>1. PICK r \in Repos \union Crafted :
              \E order \in SetToSeqs(r), from \in {"clone", "archive", "zip"} :
                  /\ r \in Crafted => from = "zip"
                  /\ repo' = r /\ source' = from /\ files' = Ingested(order, from)
      BY <2>1 DEF Ingest, Ingested
    <3>2. PICK order \in SetToSeqs(r), from \in {"clone", "archive", "zip"} :
              /\ r \in Crafted => from = "zip"
              /\ repo' = r /\ source' = from /\ files' = Ingested(order, from)
      BY <3>1
    <3>3. ASSUME from = "clone" \/ (from = "archive" /\ LinksOutside(r)), r \in Repos,
                 CloneSize(SetToSeq(r)) <= MaxClone,
                 ZipGuards(ItemsOf(SetToSeq(r), "zip"))
          PROVE  files' = IngestGithub(SetToSeq(r))
      <4>1. r \in Repos /\ from \in {"clone", "archive"} /\ (from = "clone" \/ LinksOutside(r))
        BY <3>3
      <4> QED  BY <3>2, <3>3, <4>1, SameFileSet
    <3> QED  BY <3>2, <3>3 DEF SourceIrrelevant, OneTreeOneFileSet
  <2>2. CASE Show \/ AnswerFake \/ AnswerModel \/ Receive \/ VerifyAll
    <3>1. stage' \notin {"stored", "rejected"}
      BY <2>2 DEF Show, AnswerFake, AnswerModel, Receive, VerifyAll
    <3> QED  BY <3>1 DEF SourceIrrelevant, OneTreeOneFileSet
  <2>3. CASE UNCHANGED vars
    BY <1>2, <2>3 DEF SourceIrrelevant, OneTreeOneFileSet, vars
  <2> QED  BY <1>2, <2>1, <2>2, <2>3 DEF Next
<1> QED  BY <1>1, <1>2, PTL DEF Spec
-----------------------------------------------------------------------------
(* The ranking.                                                             *)

\* Signals are terms.
LEMMA SignalsShape ==
  ASSUME NEW c \in Criteria
  PROVE  DeriveSignals(c) \in Seq(STRING)
<1> DEFINE all == c.ticked \o c.words
           first == {k \in DOMAIN all : all[k] \notin StopWords /\ \A j \in 1..(k - 1) : all[j] # all[k]}
           terms == Pick(all, first)
<1>1. all \in Seq(STRING)
  BY TermsAssumption DEF TermsAssumption
<1>2. terms \in Seq(STRING)
  <2>1. first \subseteq DOMAIN all
    OBVIOUS
  <2> HIDE DEF first, all
  <2> QED  BY <1>1, <2>1, PickSet
<1>3. AtMost(Len(terms), MaxSignals) \in 0..Len(terms)
  <2>1. Len(terms) \in Nat /\ MaxSignals \in Nat
    BY <1>2, BudgetsAssumption DEF BudgetsAssumption
  <2> HIDE DEF terms
  <2> QED  BY <2>1 DEF AtMost
<1>4. DeriveSignals(c) = SubSeq(terms, 1, AtMost(Len(terms), MaxSignals))
  BY DEF DeriveSignals
<1> HIDE DEF terms
<1>5. SubSeq(terms, 1, AtMost(Len(terms), MaxSignals)) \in Seq(STRING)
  <2> DEFINE n == AtMost(Len(terms), MaxSignals)
  <2>1. n \in 0..Len(terms)
    BY <1>3
  <2> HIDE DEF n
  <2>2. SubSeq(terms, 1, n) \in Seq(STRING)
    BY <1>2, <2>1
  <2> QED  BY <2>2 DEF n
<1> QED  BY <1>4, <1>5

\* The signals' score is a natural number,
LEMMA SignalScoreType ==
  ASSUME NEW f \in FileRecord, NEW signals \in Seq(STRING)
  PROVE  SignalScore(f, signals) \in Nat
<1> DEFINE w == [t \in Helpful(signals) |-> When(Contains(f.path, t), 100)
                                            + AtMost(Occurrences(t, f.content), 6) * 14]
<1>1. IsFiniteSet(Helpful(signals))
  <2>1. IsFiniteSet(ToSet(signals)) /\ Helpful(signals) \in SUBSET ToSet(signals)
    BY ToSetFinite DEF Helpful
  <2> QED  BY <2>1, FS_Subset
<1>2. ASSUME NEW t \in Helpful(signals) PROVE w[t] \in Nat
  <2>1. Occurrences(t, f.content) \in Nat
    <3> DEFINE K == {k \in DOMAIN f.content : f.content[k] = t}
    <3>1. f.content \in Texts
      BY DEF FileRecord
    <3>2. DOMAIN f.content = 1..Len(f.content) /\ Len(f.content) \in Nat
      BY <3>1 DEF Texts
    <3>3. IsFiniteSet(1..Len(f.content)) /\ K \in SUBSET (1..Len(f.content))
      BY <3>2, FS_Interval
    <3> HIDE DEF K
    <3>4. Cardinality(K) \in Nat
      BY <3>3, FS_Subset, FS_CardinalityType
    <3> QED  BY <3>4 DEF Occurrences, K
  <2>2. AtMost(Occurrences(t, f.content), 6) \in Nat
    BY <2>1 DEF AtMost
  <2>3. When(Contains(f.path, t), 100) \in Nat
    BY DEF When
  <2> QED  BY <2>2, <2>3
<1>3. DOMAIN w = Helpful(signals)
  OBVIOUS
<1>4. SumFunction(w) \in Nat
  <2> HIDE DEF w
  <2> QED  BY <1>1, <1>2, <1>3, SumType
<1> QED  BY <1>4 DEF SignalScore

\* and the score of a file that is not skipped an integer.
LEMMA ScoreType ==
  ASSUME NEW f \in FileRecord, NEW signals \in Seq(STRING), Classify(f.path) # "skip"
  PROVE  Score(f, signals) \in Int
<1>1. Classify(f.path) \in {"entrypoint", "source", "test", "doc", "config", "migration", "other"}
  BY DEF Classify
<1>2. BaseScore[Classify(f.path)] \in Int
  <2> DEFINE c == Classify(f.path)
  <2>1. c \in {"entrypoint", "source", "test", "doc", "config", "migration", "other"}
    BY <1>1
  <2> HIDE DEF c
  <2>2. BaseScore[c] \in Int
    BY <2>1 DEF BaseScore
  <2> QED  BY <2>2 DEF c
<1>3. AtMost(Len(Dirs(f.path)), 6) \in Int
  <2>1. f.path \in Seq(STRING) /\ Len(f.path) >= 2
    BY BeforeOrder DEF FileRecord
  <2>2. Len(Dirs(f.path)) \in Int
    BY <2>1 DEF Dirs
  <2> QED  BY <2>2 DEF AtMost
<1>4. \A b \in BOOLEAN : When(b, 80) \in Int /\ When(b, 300) \in Int /\ When(b, 60) \in Int
  BY DEF When
<1>5. StructuralPrior(f.path) \in Int
  <2> DEFINE x == BaseScore[Classify(f.path)]
             y == When(Classify(f.path) \in {"source", "entrypoint", "test"} /\ Marked(f.path, SourceMarkers), 80)
             z == When(Marked(f.path, LowMarkers), 300)
             u == When(FileName(f.path) \in ReadmeNames, 60)
             v == AtMost(Len(Dirs(f.path)), 6)
  <2>1. y \in Int
    BY DEF When
  <2>2. z \in Int
    BY DEF When
  <2>3. u \in Int
    BY DEF When
  <2>4. x \in Int /\ v \in Int
    BY <1>2, <1>3
  <2>5. StructuralPrior(f.path) = x + y - z + u - v * 5
    BY DEF StructuralPrior
  <2> HIDE DEF x, y, z, u, v
  <2> QED  BY <2>1, <2>2, <2>3, <2>4, <2>5
<1> QED  BY <1>5, SignalScoreType DEF Score
\* The files that are ranked, and the order of the ranking.
Rankable(fs) == {f \in ToSet(fs) : Classify(f.path) # "skip"}

Ranking(S, signals) == {fg \in S \X S : Outranks(fg[1], fg[2], signals)}

\* The sort key of the ranking leaves no two files without an order.
LEMMA RankingOrder ==
  ASSUME NEW S, S \subseteq FileRecord, OnePerPath(S), \A f \in S : Classify(f.path) # "skip",
         NEW signals \in Seq(STRING)
  PROVE  StrictOrder(Ranking(S, signals), S)
<1>1. \A f \in S : Score(f, signals) \in Int /\ f.path \in Paths
  BY ScoreType DEF FileRecord
<1> DEFINE Above(f, g) ==
             \/ Named(f, signals) /\ ~Named(g, signals)
             \/ (Named(f, signals) <=> Named(g, signals)) /\ Score(f, signals) > Score(g, signals)
             \/ /\ Named(f, signals) <=> Named(g, signals)
                /\ Score(f, signals) = Score(g, signals)
                /\ Before(f.path, g.path)
<1>2. ASSUME NEW f \in S, NEW g \in S PROVE <<f, g>> \in Ranking(S, signals) <=> Above(f, g)
  <2>1. <<f, g>> \in Ranking(S, signals) <=> Outranks(f, g, signals)
    BY DEF Ranking
  <2>2. (Named(f, signals) = Named(g, signals)) <=> (Named(f, signals) <=> Named(g, signals))
    BY DEF Named
  <2>3. Outranks(f, g, signals) <=> Above(f, g)
    BY <2>2 DEF Outranks
  <2> QED  BY <2>1, <2>3
<1>3. ASSUME NEW f \in S PROVE ~Above(f, f)
  BY <1>1, BeforeOrder
<1>4. ASSUME NEW f \in S, NEW g \in S, NEW h \in S, Above(f, g), Above(g, h) PROVE Above(f, h)
  <2>1. f.path \in Paths /\ g.path \in Paths /\ h.path \in Paths
    BY <1>1
  <2>2. Before(f.path, g.path) /\ Before(g.path, h.path) => Before(f.path, h.path)
    BY <2>1, BeforeOrder
  <2> QED  BY <1>1, <1>4, <2>2
<1>5. ASSUME NEW f \in S, NEW g \in S, f # g PROVE Above(f, g) \/ Above(g, f)
  <2>1. f.path # g.path
    BY <1>5 DEF OnePerPath
  <2>2. Before(f.path, g.path) \/ Before(g.path, f.path)
    BY <1>1, <2>1, BeforeOrder
  <2> QED  BY <1>1, <2>2
<1> HIDE DEF Above
<1> QED  BY <1>2, <1>3, <1>4, <1>5 DEF StrictOrder

\* A ranking has all files but the skipped ones, each before those that it outranks.
LEMMA RankedShape ==
  ASSUME NEW fs \in FileSets, NEW signals \in Seq(STRING)
  PROVE  /\ Ranked(fs, signals) \in FileSets /\ ToSet(Ranked(fs, signals)) = Rankable(fs)
         /\ \A m, n \in DOMAIN Ranked(fs, signals) :
                m < n => Outranks(Ranked(fs, signals)[m], Ranked(fs, signals)[n], signals)
<1> DEFINE S == Rankable(fs)
           R == Ranking(S, signals)
           ranked == InOrder(S, R)
<1>1. fs \in Seq(FileRecord) /\ \A k, l \in DOMAIN fs : fs[k].path = fs[l].path => k = l
  BY DEF FileSets
<1>2. IsFiniteSet(ToSet(fs)) /\ ToSet(fs) \subseteq FileRecord
  BY <1>1, ToSetFinite
<1>3. S \in SUBSET ToSet(fs) /\ \A f \in S : Classify(f.path) # "skip"
  BY DEF Rankable
<1>4. IsFiniteSet(S) /\ S \subseteq FileRecord
  BY <1>2, <1>3, FS_Subset
<1>5. OnePerPath(S)
  BY <1>1, <1>3 DEF OnePerPath, ToSet
<1>6. Ranked(fs, signals) = ranked
  BY DEF Ranked, Rankable, Ranking
<1>7. \A f, g \in S : <<f, g>> \in R => Outranks(f, g, signals)
  BY DEF Ranking
<1> HIDE DEF S
<1>8. StrictOrder(R, S)
  BY <1>3, <1>4, <1>5, RankingOrder
<1> HIDE DEF R
<1>9. /\ ranked \in FileSets /\ ToSet(ranked) = S
      /\ \A m, n \in DOMAIN ranked : m < n => <<ranked[m], ranked[n]>> \in R
  BY <1>4, <1>5, <1>8, OrderedFiles
<1> HIDE DEF ranked
<1>10. \A m \in DOMAIN ranked : ranked[m] \in S
  BY <1>9 DEF ToSet
<1> QED  BY <1>6, <1>7, <1>9, <1>10 DEF S

-----------------------------------------------------------------------------
(* What is shown of a file.                                                 *)

\* A head is the beginning of its text.
LEMMA HeadShape ==
  ASSUME NEW s \in Texts, NEW cap \in Nat, cap <= Len(s)
  PROVE  \E m \in 0..cap : HeadOf(s, cap) = Beginning(s, m)
<1> DEFINE cut == SubSeq(s, 1, cap)
           nl == LastNewline(cut)
<1>1. cut \in Texts /\ Len(cut) = cap /\ cut = Beginning(s, cap)
  BY BeginningShape DEF Beginning
<1>2. nl \in 0..cap
  <2> DEFINE I == {i \in 1..Len(cut) : cut[i] = "\n"}
  <2>1. nl = IF I # {} THEN Max(I) ELSE 0
    BY DEF LastNewline, SelectLastInSeq
  <2>2. I # {} => Max(I) \in I
    <3>1. I \subseteq 0..cap
      BY <1>1
    <3> HIDE DEF I
    <3> QED  BY <3>1, MaxShape
  <2>3. I \subseteq 0..cap
    BY <1>1
  <2>4. nl = 0 \/ nl \in 0..cap
    <3> HIDE DEF I, nl
    <3> QED  BY <2>1, <2>2, <2>3
  <2> HIDE DEF nl
  <2> QED  BY <2>4
<1>3. CASE 2 * (nl - 1) > cap
  <2>1. HeadOf(s, cap) = SubSeq(cut, 1, nl - 1)
    BY <1>3 DEF HeadOf
  <2>2. nl - 1 \in 0..cap
    <3> HIDE DEF nl
    <3> QED  BY <1>2, <1>3
  <2> HIDE DEF nl
  <2>3. SubSeq(SubSeq(s, 1, cap), 1, nl - 1) = SubSeq(s, 1 + (1 - 1), (nl - 1) + (1 - 1))
    <3> DEFINE j == nl - 1
    <3>1. j \in Int /\ 1 <= j + 1 /\ j <= cap - 1 + 1
      BY <2>2
    <3> HIDE DEF j
    <3>2. SubSeq(SubSeq(s, 1, cap), 1, j) = SubSeq(s, 1 + (1 - 1), j + (1 - 1))
      BY <3>1, PartOfPart
    <3> QED  BY <3>2 DEF j
  <2>4. (nl - 1) + (1 - 1) = nl - 1 /\ 1 + (1 - 1) = 1
    BY <2>2
  <2> QED  BY <2>1, <2>2, <2>3, <2>4 DEF Beginning
<1>4. CASE ~(2 * (nl - 1) > cap)
  BY <1>1, <1>4 DEF HeadOf
<1> QED  BY <1>3, <1>4

\* A text is its own beginning.
LEMMA WholeBeginning ==
  ASSUME NEW s \in Texts
  PROVE  Len(s) \in Nat /\ Beginning(s, Len(s)) = s
<1>1. Len(s) \in Nat /\ DOMAIN s = 1..Len(s)
  BY DEF Texts
<1>2. /\ Beginning(s, Len(s)) \in Texts /\ Len(Beginning(s, Len(s))) = Len(s)
      /\ \A k \in 1..Len(s) : Beginning(s, Len(s))[k] = s[k]
  BY <1>1, BeginningShape
<1> QED  BY <1>1, <1>2 DEF Texts
\* The first file is the beginning of the second.
Begins(f, g) ==
    f.path = g.path /\ \E m \in 0..Len(g.content) : f.content = Beginning(g.content, m)

\* What is shown of a file is its beginning, and fits the budget.
LEMMA ShownShape ==
  ASSUME NEW f \in FileRecord, NEW used \in 0..FilesBudget, Room(f, used)
  PROVE  /\ \E m \in 0..Len(f.content) : Shown(f, used) = Beginning(f.content, m)
         /\ Shown(f, used) \in Texts
         /\ Len(Shown(f, used)) \in Nat /\ used + Len(Shown(f, used)) <= FilesBudget
<1> DEFINE s == f.content
<1>1. s \in Texts /\ Len(s) \in Nat
  BY WholeBeginning DEF FileRecord
<1>2. FilesBudget \in Nat /\ PerFileCap \in Nat
  BY BudgetsAssumption DEF BudgetsAssumption
<1>3. \E m \in 0..Len(s) : Capped(f) = Beginning(s, m)
  <2>1. CASE Len(s) > PerFileCap
    <3>1. Capped(f) = HeadOf(s, PerFileCap)
      BY <2>1 DEF Capped
    <3>2. \E m \in 0..PerFileCap : HeadOf(s, PerFileCap) = Beginning(s, m)
      <4> HIDE DEF s
      <4> QED  BY <1>1, <1>2, <2>1, HeadShape
    <3> HIDE DEF s
    <3> QED  BY <1>1, <1>2, <2>1, <3>1, <3>2
  <2>2. CASE ~(Len(s) > PerFileCap)
    <3>1. Capped(f) = s
      BY <2>2 DEF Capped
    <3>2. Beginning(s, Len(s)) = s
      BY <1>1, WholeBeginning
    <3> HIDE DEF s
    <3> QED  BY <1>1, <3>1, <3>2
  <2> QED  BY <2>1, <2>2
<1>4. PICK m \in 0..Len(s) : Capped(f) = Beginning(s, m)
  BY <1>3
<1>5. Beginning(s, m) \in Texts /\ Len(Beginning(s, m)) = m /\ m \in Nat /\ m <= Len(s)
  <2> HIDE DEF s
  <2>1. m \in Nat /\ m <= Len(s)
    BY <1>1
  <2> QED  BY <1>1, <2>1, BeginningShape
<1>6. CASE used + Len(Capped(f)) <= FilesBudget
  <2>1. Shown(f, used) = Beginning(s, m)
    BY <1>4, <1>6 DEF Shown
  <2>2. Len(Capped(f)) = m
    BY <1>4, <1>5
  <2> HIDE DEF s
  <2> QED  BY <1>5, <1>6, <2>1, <2>2 DEF s
<1>7. CASE ~(used + Len(Capped(f)) <= FilesBudget)
  <2> DEFINE cap == FilesBudget - used
  <2>1. cap \in Nat /\ cap <= Len(s)
    <3>1. Len(Capped(f)) = m
      BY <1>4, <1>5
    <3>2. ~(used + m <= FilesBudget)
      BY <1>7, <3>1
    <3> HIDE DEF s
    <3> QED  BY <1>1, <1>2, <1>5, <3>2
  <2>2. Shown(f, used) = HeadOf(s, cap)
    BY <1>7 DEF Shown
  <2> HIDE DEF s, cap
  <2>3. PICK x \in 0..cap : HeadOf(s, cap) = Beginning(s, x)
    BY <1>1, <2>1, HeadShape
  <2>4. x \in Nat /\ x <= Len(s) /\ x <= cap
    BY <1>1, <2>1
  <2>5. Beginning(s, x) \in Texts /\ Len(Beginning(s, x)) = x
    BY <1>1, <2>4, BeginningShape
  <2>6. used + x <= FilesBudget
    BY <1>2, <2>4 DEF cap
  <2>7. x \in 0..Len(s)
    BY <1>1, <2>4
  <2> QED  BY <2>2, <2>3, <2>4, <2>5, <2>6, <2>7 DEF s
<1> QED  BY <1>6, <1>7

ShowNone == [chosen |-> <<>>, used |-> 0, over |-> FALSE]

Shows(acc, ranked, N) ==
    acc = [n \in 0..N |-> IF n = 0 THEN ShowNone ELSE ShowFile(acc[n - 1], ranked[n])]

\* The loop of select_for_criterion has a value after each round.
LEMMA ShowsExist ==
  ASSUME NEW ranked, NEW N \in Nat
  PROVE  \E acc : Shows(acc, ranked, N)
<1> DEFINE Q == {n \in 0..N : \E acc : Shows(acc, ranked, n)}
<1>1. 0 \in Q
  <2> DEFINE acc == [n \in 0..0 |-> ShowNone]
  <2>1. Shows(acc, ranked, 0)
    BY DEF Shows
  <2> QED  BY <2>1
<1>2. ASSUME NEW n \in 1..N, n - 1 \in Q PROVE n \in Q
  <2>1. PICK g : Shows(g, ranked, n - 1)
    BY <1>2
  <2> DEFINE h == [k \in 0..n |-> IF k = n THEN ShowFile(g[n - 1], ranked[n]) ELSE g[k]]
  <2>2. /\ g[0] = ShowNone
        /\ \A k \in 1..(n - 1) : g[k] = ShowFile(g[k - 1], ranked[k])
    BY <2>1 DEF Shows
  <2>3. h[0] = ShowNone
    BY <2>2
  <2>4. ASSUME NEW k \in 1..n PROVE h[k] = ShowFile(h[k - 1], ranked[k])
    <3>1. h[k - 1] = g[k - 1]
      OBVIOUS
    <3>2. CASE k = n
      BY <3>1, <3>2
    <3>3. CASE k # n
      <4>1. k \in 1..(n - 1) /\ h[k] = g[k]
        BY <3>3
      <4> HIDE DEF h
      <4> QED  BY <2>2, <3>1, <4>1
    <3> QED  BY <3>2, <3>3
  <2>5. \A k \in 0..n : k = 0 \/ k \in 1..n
    OBVIOUS
  <2>6. h = [k \in 0..n |-> h[k]]
    OBVIOUS
  <2> HIDE DEF h
  <2>7. Shows(h, ranked, n)
    BY <2>3, <2>4, <2>5, <2>6 DEF Shows
  <2> QED  BY <2>7
<1> HIDE DEF Q
<1>3. N \in Q
  BY <1>1, <1>2, CountingUp
<1> QED  BY <1>3 DEF Q

\* The selection is the value after the last round.
LEMMA SelectIs ==
  ASSUME NEW fs, NEW signals, NEW ranked, ranked = Ranked(fs, signals), Len(ranked) \in Nat
  PROVE  \E acc : Shows(acc, ranked, Len(ranked)) /\ Select(fs, signals) = acc[Len(ranked)].chosen
<1> DEFINE acc[n \in 0..Len(ranked)] ==
             IF n = 0 THEN [chosen |-> <<>>, used |-> 0, over |-> FALSE]
             ELSE ShowFile(acc[n - 1], ranked[n])
<1>1. PICK g : Shows(g, ranked, Len(ranked))
  BY ShowsExist
<1>2. g = [n \in 0..Len(ranked) |-> IF n = 0 THEN [chosen |-> <<>>, used |-> 0, over |-> FALSE]
                                    ELSE ShowFile(g[n - 1], ranked[n])]
  BY <1>1 DEF Shows, ShowNone
<1>3. acc = [n \in 0..Len(ranked) |-> IF n = 0 THEN [chosen |-> <<>>, used |-> 0, over |-> FALSE]
                                      ELSE ShowFile(acc[n - 1], ranked[n])]
  BY <1>2
<1>4. Select(fs, signals) = acc[Len(ranked)].chosen
  BY DEF Select
<1> HIDE DEF acc
<1>5. Shows(acc, ranked, Len(ranked))
  BY <1>3 DEF Shows, ShowNone
<1> QED  BY <1>4, <1>5
Lengths(shown) == SumFunction([k \in DOMAIN shown |-> Len(shown[k].content)])

\* The length of what is shown grows by the file that is added.
LEMMA LengthsShape ==
  ASSUME NEW shown \in Seq(FileRecord)
  PROVE  /\ Lengths(shown) \in Nat
         /\ \A f \in FileRecord : Lengths(Append(shown, f)) = Lengths(shown) + Len(f.content)
<1>1. DOMAIN shown = 1..Len(shown) /\ Len(shown) \in Nat
  OBVIOUS
<1>2. \A f \in FileRecord : Len(f.content) \in Nat
  BY WholeBeginning DEF FileRecord
<1> DEFINE w == [k \in DOMAIN shown |-> Len(shown[k].content)]
<1>3. IsFiniteSet(DOMAIN w) /\ \A k \in DOMAIN w : w[k] \in Nat
  BY <1>1, <1>2, FS_Interval
<1>4. SumFunction(w) \in Nat
  <2> HIDE DEF w
  <2> QED  BY <1>3, SumType
<1>5. ASSUME NEW f \in FileRecord PROVE Lengths(Append(shown, f)) = Lengths(shown) + Len(f.content)
  <2> DEFINE t == Append(shown, f)
             n == Len(shown) + 1
             v == [k \in DOMAIN t |-> Len(t[k].content)]
  <2>1. /\ DOMAIN t = 1..n /\ t[n] = f /\ \A k \in 1..Len(shown) : t[k] = shown[k]
    BY <1>1
  <2> HIDE DEF t
  <2>2. DOMAIN v = 1..n /\ \A k \in DOMAIN v : v[k] = Len(t[k].content)
    BY <2>1
  <2>3. /\ IsFiniteSet(DOMAIN v) /\ n \in DOMAIN v /\ DOMAIN w = DOMAIN v \ {n}
        /\ v[n] = Len(f.content)
        /\ \A k \in DOMAIN w : w[k] = v[k]
    <3>1. 1..Len(shown) = (1..n) \ {n}
      BY <1>1
    <3>2. n \in 1..n /\ IsFiniteSet(1..n)
      BY <1>1, FS_Interval
    <3>3. \A k \in 1..Len(shown) : k \in 1..n
      BY <1>1
    <3> HIDE DEF n, v
    <3> QED  BY <1>1, <2>1, <2>2, <3>1, <3>2, <3>3
  <2>4. \A k \in DOMAIN v : v[k] \in Nat
    <3>1. ASSUME NEW k \in DOMAIN v PROVE v[k] \in Nat
      <4>1. CASE k = n
        <5> HIDE DEF v, n
        <5> QED  BY <1>2, <2>3, <4>1
      <4>2. CASE k # n
        <5> HIDE DEF v, n, w
        <5> QED  BY <1>3, <2>3, <4>2
      <4> QED  BY <4>1, <4>2
    <3> QED  BY <3>1
  <2>5. SumFunction(v) = v[n] + SumFunction(w)
    <3> HIDE DEF v, w, n
    <3> QED  BY <2>3, <2>4, SumTakeOut
  <2>6. v[n] = Len(f.content) /\ Len(f.content) \in Nat
    BY <1>2, <2>3
  <2>7. Lengths(t) = SumFunction(v) /\ Lengths(shown) = SumFunction(w)
    BY DEF Lengths
  <2> HIDE DEF v, w, n
  <2> QED  BY <1>4, <2>5, <2>6, <2>7 DEF t
<1> QED  BY <1>4, <1>5 DEF Lengths

\* What is shown after n files.
ShownOf(chosen, used, ranked, n) ==
    /\ chosen \in Seq(FileRecord)
    /\ used = Lengths(chosen) /\ used \in 0..FilesBudget
    /\ Len(chosen) <= n /\ Len(chosen) <= MaxShown
    /\ \A k \in 1..Len(chosen) : Begins(chosen[k], ranked[k])

ShownSoFar(a, ranked, n) ==
    /\ a = [chosen |-> a.chosen, used |-> a.used, over |-> a.over]
    /\ ShownOf(a.chosen, a.used, ranked, n)
    /\ a.over = TRUE \/ (a.over = FALSE /\ Len(a.chosen) = n)

\* What is shown of some files of the ranking is so of more of them.
LEMMA ShownMore ==
  ASSUME NEW chosen, NEW used, NEW ranked, NEW n \in Nat \ {0}, ShownOf(chosen, used, ranked, n - 1)
  PROVE  ShownOf(chosen, used, ranked, n)
<1>1. Len(chosen) \in Nat
  BY DEF ShownOf
<1> QED  BY <1>1 DEF ShownOf

\* A round of the loop keeps its invariant.
LEMMA ShownStep ==
  ASSUME NEW ranked \in Seq(FileRecord), NEW n \in DOMAIN ranked, NEW a, ShownSoFar(a, ranked, n - 1)
  PROVE  ShownSoFar(ShowFile(a, ranked[n]), ranked, n)
<1> DEFINE file == ranked[n]
           b == ShowFile(a, file)
<1>1. n \in Nat \ {0} /\ file \in FileRecord
  OBVIOUS
<1>2. ShownOf(a.chosen, a.used, ranked, n - 1) /\ ShownOf(a.chosen, a.used, ranked, n)
  BY <1>1, ShownMore DEF ShownSoFar
<1>3. /\ a = [chosen |-> a.chosen, used |-> a.used, over |-> a.over]
      /\ a.over = TRUE \/ (a.over = FALSE /\ Len(a.chosen) = n - 1)
  BY DEF ShownSoFar
<1> DEFINE stops == a.over \/ Len(a.chosen) >= MaxShown \/ ~Room(file, a.used)
<1>4. CASE stops
  <2>1. b = [a EXCEPT !.over = TRUE]
    BY <1>4 DEF ShowFile
  <2> HIDE DEF b
  <2>2. b = [chosen |-> a.chosen, used |-> a.used, over |-> TRUE]
    BY <1>3, <2>1
  <2>3. b.chosen = a.chosen /\ b.used = a.used /\ b.over = TRUE
    BY <2>2
  <2>4. ShownSoFar(b, ranked, n)
    BY <1>2, <2>2, <2>3 DEF ShownSoFar
  <2> QED  BY <2>4 DEF b
<1>5. CASE ~stops
  <2> DEFINE text == Shown(file, a.used)
             f == [path |-> file.path, content |-> text]
             chosen == Append(a.chosen, f)
             used == a.used + Len(text)
  <2>1. a.over = FALSE /\ Len(a.chosen) = n - 1 /\ Room(file, a.used) /\ ~(Len(a.chosen) >= MaxShown)
    BY <1>3, <1>5
  <2>2. b = [a EXCEPT !.chosen = Append(@, f), !.used = @ + Len(text)]
    BY <1>5 DEF ShowFile
  <2>3. /\ a.chosen \in Seq(FileRecord) /\ a.used = Lengths(a.chosen) /\ a.used \in 0..FilesBudget
        /\ \A k \in 1..Len(a.chosen) : Begins(a.chosen[k], ranked[k])
    BY <1>2 DEF ShownOf
  <2>4. /\ \E m \in 0..Len(file.content) : text = Beginning(file.content, m)
        /\ text \in Texts
        /\ Len(text) \in Nat /\ a.used + Len(text) <= FilesBudget
    <3> HIDE DEF file
    <3> QED  BY <1>1, <2>1, <2>3, ShownShape
  <2>5. f \in FileRecord /\ Begins(f, file)
    <3>1. file.path \in Paths
      BY <1>1 DEF FileRecord
    <3> HIDE DEF text, file
    <3> QED  BY <2>4, <3>1 DEF FileRecord, Begins
  <2>6. b = [chosen |-> chosen, used |-> used, over |-> FALSE]
    <3>1. DOMAIN a = {"chosen", "used", "over"} /\ a.over = FALSE
      BY <1>3, <2>1
    <3> HIDE DEF b, f, text
    <3> QED  BY <2>2, <3>1
  <2>7. used = Lengths(chosen)
    <3>1. f.content = text
      OBVIOUS
    <3> HIDE DEF f, text
    <3> QED  BY <2>3, <2>5, <3>1, LengthsShape
  <2>8. /\ chosen \in Seq(FileRecord) /\ Len(chosen) = n
        /\ \A k \in 1..(n - 1) : chosen[k] = a.chosen[k]
        /\ chosen[n] = f
    <3> HIDE DEF f
    <3> QED  BY <1>1, <2>1, <2>3, <2>5
  <2>9. used \in 0..FilesBudget
    <3> HIDE DEF text
    <3> QED  BY <2>3, <2>4, BudgetsAssumption DEF BudgetsAssumption
  <2>10. Len(chosen) <= MaxShown
    <3>1. MaxShown \in Nat
      BY BudgetsAssumption DEF BudgetsAssumption
    <3> HIDE DEF chosen
    <3> QED  BY <1>1, <2>1, <2>8, <3>1
  <2> HIDE DEF chosen, used, f, text
  <2>11. \A k \in 1..Len(chosen) : Begins(chosen[k], ranked[k])
    <3>1. ASSUME NEW k \in 1..n PROVE Begins(chosen[k], ranked[k])
      <4>1. CASE k = n
        BY <2>5, <2>8, <4>1
      <4>2. CASE k # n
        <5>1. k \in 1..(n - 1)
          BY <1>1, <4>2
        <5> QED  BY <2>1, <2>3, <2>8, <5>1
      <4> QED  BY <4>1, <4>2
    <3> QED  BY <2>8, <3>1
  <2>12. ShownOf(chosen, used, ranked, n)
    BY <1>1, <2>7, <2>8, <2>9, <2>10, <2>11 DEF ShownOf
  <2> HIDE DEF b
  <2>13. b.chosen = chosen /\ b.used = used /\ b.over = FALSE
    BY <2>6
  <2>14. ShownSoFar(b, ranked, n)
    BY <2>6, <2>8, <2>12, <2>13 DEF ShownSoFar
  <2> QED  BY <2>14 DEF b
<1> QED  BY <1>4, <1>5

\* The files that are shown are those that rank highest, each from its beginning.
LEMMA SelectShape ==
  ASSUME NEW fs \in FileSets, NEW signals \in Seq(STRING)
  PROVE  ShownOf(Select(fs, signals), Lengths(Select(fs, signals)), Ranked(fs, signals),
                 Len(Ranked(fs, signals)))
<1> DEFINE ranked == Ranked(fs, signals)
<1>1. ranked \in Seq(FileRecord)
  BY RankedShape DEF FileSets
<1>2. Len(ranked) \in Nat /\ DOMAIN ranked = 1..Len(ranked)
  <2> HIDE DEF ranked
  <2> QED  BY <1>1
<1>3. PICK acc : Shows(acc, ranked, Len(ranked)) /\ Select(fs, signals) = acc[Len(ranked)].chosen
  BY <1>2, SelectIs
<1> DEFINE N == Len(ranked)
           Q == {n \in 0..N : ShownSoFar(acc[n], ranked, n)}
<1> HIDE DEF ranked
<1>4. 0 \in Q
  <2>1. acc[0] = ShowNone
    BY <1>2, <1>3 DEF Shows
  <2>2. Lengths(<<>>) = 0
    <3> DEFINE w == [k \in DOMAIN <<>> |-> Len(<<>>[k].content)]
    <3>1. DOMAIN w = {}
      OBVIOUS
    <3>2. SumFunction(w) = 0
      <4> HIDE DEF w
      <4> QED  BY <3>1, SumEmpty
    <3> QED  BY <3>2 DEF Lengths
  <2>3. ShownOf(<<>>, 0, ranked, 0)
    BY <2>2, BudgetsAssumption DEF ShownOf, BudgetsAssumption
  <2>4. ShownSoFar(ShowNone, ranked, 0)
    BY <2>3 DEF ShownSoFar, ShowNone
  <2> QED  BY <1>2, <2>1, <2>4
<1>5. ASSUME NEW n \in 1..N, n - 1 \in Q PROVE n \in Q
  <2>1. acc[n] = ShowFile(acc[n - 1], ranked[n])
    BY <1>2, <1>3 DEF Shows
  <2>2. ShownSoFar(acc[n - 1], ranked, n - 1) /\ n \in DOMAIN ranked
    BY <1>2, <1>5
  <2>3. ShownSoFar(ShowFile(acc[n - 1], ranked[n]), ranked, n)
    BY <1>1, <2>2, ShownStep
  <2> QED  BY <1>2, <2>1, <2>3
<1> HIDE DEF Q
<1>6. \A n \in 0..N : n \in Q
  BY <1>2, <1>4, <1>5, CountingUp
<1>7. ShownSoFar(acc[N], ranked, N)
  BY <1>2, <1>6 DEF Q
<1>8. ShownOf(acc[N].chosen, acc[N].used, ranked, N) /\ acc[N].used = Lengths(acc[N].chosen)
  BY <1>7 DEF ShownSoFar, ShownOf
<1> QED  BY <1>3, <1>8 DEF ranked
-----------------------------------------------------------------------------
(* The inductive invariant.                                                 *)

\* What is stored is a file set.
Stored == stage \notin {"new", "rejected"} => files.files \in FileSets

\* A prompt shows the beginnings of the files that rank highest.
PromptShows ==
    stage = "shown" =>
        /\ prompt.signals \in Seq(STRING)
        /\ ShownOf(prompt.files, Lengths(prompt.files), Ranked(files.files, prompt.signals),
                   Len(Ranked(files.files, prompt.signals)))

\* What a grader meant to cite would be verified.
CitesVerified(j, fs) == \A k \in DOMAIN j.evidence : Verify(j.evidence[k], fs) = "verified"

Meant ==
    stage \notin {"new", "rejected", "stored", "shown"} => CitesVerified(judgment, files.files)

\* The statuses are those of the citations that were received.
Settled ==
    stage = "verified" =>
        statuses = [k \in DOMAIN received.judgment.evidence |->
                       Verify(received.judgment.evidence[k], files.files)]

MaterialInv == Stored /\ PromptShows /\ Meant /\ Settled

\* A citation of lines that were shown.
LEMMA ShownVerified ==
  ASSUME NEW fs \in FileSets, NEW signals \in Seq(STRING), NEW shown, NEW used,
         ShownOf(shown, used, Ranked(fs, signals), Len(Ranked(fs, signals))),
         NEW n \in DOMAIN shown, NEW e, e.path = shown[n].path,
         e.start \in Nat \ {0}, e.end \in Nat, e.start <= e.end,
         e.end <= LineCount(shown[n].content),
         Quotes(e.quote, Extract(shown[n].content, e.start, e.end))
  PROVE  Verify(e, fs) = "verified"
<1> DEFINE ranked == Ranked(fs, signals)
<1>1. ranked \in Seq(FileRecord) /\ ToSet(ranked) = Rankable(fs) /\ fs \in Seq(FileRecord)
  BY RankedShape DEF FileSets
<1> HIDE DEF ranked
<1>2. /\ shown \in Seq(FileRecord) /\ Len(shown) <= Len(ranked)
      /\ \A k \in 1..Len(shown) : Begins(shown[k], ranked[k])
  BY DEF ShownOf, ranked
<1>3. n \in 1..Len(shown) /\ n \in DOMAIN ranked
  BY <1>1, <1>2
<1>4. PICK k \in DOMAIN fs : fs[k] = ranked[n]
  BY <1>1, <1>3 DEF Rankable, ToSet
<1>5. fs[k] \in FileRecord /\ fs[k].content \in Texts
  <2>1. fs[k] \in FileRecord
    BY <1>1
  <2> QED  BY <2>1 DEF FileRecord
<1>6. shown[n].path = fs[k].path
  BY <1>2, <1>3, <1>4 DEF Begins
<1>7. PICK m \in 0..Len(fs[k].content) : shown[n].content = Beginning(fs[k].content, m)
  BY <1>2, <1>3, <1>4 DEF Begins
<1>8. Len(fs[k].content) \in Nat /\ m \in Nat /\ m <= Len(fs[k].content)
  BY <1>5, WholeBeginning
<1>9. /\ e.end <= LineCount(Beginning(fs[k].content, m))
      /\ Quotes(e.quote, Extract(Beginning(fs[k].content, m), e.start, e.end))
  BY <1>7
<1>10. e.path = fs[k].path
  BY <1>6
<1> QED  BY <1>8, <1>9, <1>10, CitationVerified

\* The first of a set of triples of numbers.
LEMMA FirstHit ==
  ASSUME NEW hits, NEW A, A \subseteq Nat, NEW B, B \subseteq Nat, NEW C, C \subseteq Nat,
         hits \subseteq A \X B \X C, hits # {}
  PROVE  \E h \in hits : \A g \in hits :
             \/ h[1] < g[1]
             \/ h[1] = g[1] /\ h[2] < g[2]
             \/ h[1] = g[1] /\ h[2] = g[2] /\ h[3] <= g[3]
<1> DEFINE one == {h[1] : h \in hits}
<1>1. ASSUME NEW h \in hits PROVE h[1] \in Nat /\ h[2] \in Nat /\ h[3] \in Nat
  <2>1. h \in A \X B \X C
    OBVIOUS
  <2> QED  BY <2>1
<1>2. PICK i \in one : \A x \in one : i <= x
  <2>1. one \subseteq Nat /\ one # {}
    BY <1>1
  <2> HIDE DEF one
  <2> QED  BY <2>1, LeastNat
<1> DEFINE two == {h[2] : h \in {g \in hits : g[1] = i}}
<1>3. PICK j \in two : \A x \in two : j <= x
  <2>1. two \subseteq Nat /\ two # {}
    BY <1>1, <1>2
  <2> HIDE DEF two
  <2> QED  BY <2>1, LeastNat
<1> DEFINE three == {h[3] : h \in {g \in hits : g[1] = i /\ g[2] = j}}
<1>4. PICK k \in three : \A x \in three : k <= x
  <2>1. three \subseteq Nat /\ three # {}
    BY <1>1, <1>3
  <2> HIDE DEF three
  <2> QED  BY <2>1, LeastNat
<1>5. PICK h \in hits : h[1] = i /\ h[2] = j /\ h[3] = k
  BY <1>4
<1>6. ASSUME NEW g \in hits
      PROVE  \/ h[1] < g[1]
             \/ h[1] = g[1] /\ h[2] < g[2]
             \/ h[1] = g[1] /\ h[2] = g[2] /\ h[3] <= g[3]
  <2>1. i <= g[1] /\ i \in Nat /\ g[1] \in Nat
    BY <1>1, <1>2, <1>5
  <2>2. g[1] = i => j <= g[2]
    BY <1>3
  <2>3. g[1] = i /\ g[2] = j => k <= g[3]
    BY <1>4
  <2>4. j \in Nat /\ g[2] \in Nat
    BY <1>1, <1>5
  <2> QED  BY <1>5, <2>1, <2>2, <2>3, <2>4
<1> QED  BY <1>6

\* What the offline grader cites would be verified.
LEMMA FakeVerified ==
  ASSUME NEW fs \in FileSets, NEW p, p.signals \in Seq(STRING), NEW used,
         ShownOf(p.files, used, Ranked(fs, p.signals), Len(Ranked(fs, p.signals)))
  PROVE  CitesVerified(FakeJudgment(p), fs)
<1> DEFINE text(h) == p.files[h[2]].content
           A == DOMAIN p.signals
           B == DOMAIN p.files
           C == 1..FilesBudget
           hits == {h \in A \X B \X C :
                     /\ h[3] <= LineCount(text(h))
                     /\ Contains(Extract(text(h), h[3], h[3]), p.signals[h[1]])}
           first == CHOOSE h \in hits : \A g \in hits :
                     \/ h[1] < g[1]
                     \/ h[1] = g[1] /\ h[2] < g[2]
                     \/ h[1] = g[1] /\ h[2] = g[2] /\ h[3] <= g[3]
           e == [path |-> p.files[first[2]].path, start |-> first[3], end |-> first[3],
                 quote |-> LineQuoted(Extract(text(first), first[3], first[3]))]
<1>1. p.files \in Seq(FileRecord)
  BY DEF ShownOf
<1>2. A \subseteq Nat /\ B \subseteq Nat /\ C \subseteq Nat
  <2>1. A = 1..Len(p.signals)
    OBVIOUS
  <2>2. B = 1..Len(p.files)
    BY <1>1
  <2>3. FilesBudget \in Nat
    BY BudgetsAssumption DEF BudgetsAssumption
  <2> QED  BY <2>1, <2>2, <2>3
<1>3. CASE hits = {}
  <2>1. FakeJudgment(p).evidence = <<>>
    BY <1>3 DEF FakeJudgment
  <2> QED  BY <2>1 DEF CitesVerified
<1>4. CASE hits # {}
  <2>1. FakeJudgment(p).evidence = <<e>>
    BY <1>4 DEF FakeJudgment
  <2>2. first \in hits
    <3>1. hits \subseteq A \X B \X C
      OBVIOUS
    <3> HIDE DEF hits, A, B, C
    <3>2. \E h \in hits : \A g \in hits :
             \/ h[1] < g[1]
             \/ h[1] = g[1] /\ h[2] < g[2]
             \/ h[1] = g[1] /\ h[2] = g[2] /\ h[3] <= g[3]
      BY <1>2, <1>4, <3>1, FirstHit
    <3> QED  BY <3>2
  <2> DEFINE n == first[2]
             l == first[3]
             shown == p.files[n].content
  <2>3. n \in DOMAIN p.files /\ l \in C /\ l <= LineCount(shown)
    <3> HIDE DEF first, C
    <3> QED  BY <2>2
  <2>4. e.path = p.files[n].path /\ e.start = l /\ e.end = l /\ e.quote = LineQuoted(Extract(shown, l, l))
    <3> HIDE DEF first
    <3> QED  OBVIOUS
  <2>5. l \in Nat \ {0}
    <3> HIDE DEF l
    <3>1. FilesBudget \in Nat
      BY BudgetsAssumption DEF BudgetsAssumption
    <3>2. l \in 1..FilesBudget
      BY <2>3
    <3> QED  BY ONLY <3>1, <3>2
  <2> HIDE DEF e, n, l, shown
  <2>6. shown \in Texts
    <3>1. p.files[n] \in FileRecord
      BY <1>1, <2>3
    <3> QED  BY <3>1 DEF FileRecord, shown
  <2>7. Extract(shown, l, l) \in Texts
    <3>1. l \in Int /\ l <= l
      BY <2>5
    <3> QED  BY <2>6, <3>1, ExtractShape
  <2>8. Quotes(e.quote, Extract(shown, l, l))
    BY <2>4, <2>7, LineQuotedPart DEF Quotes
  <2>9. /\ e.start \in Nat \ {0} /\ e.end \in Nat /\ e.start <= e.end
        /\ e.end <= LineCount(p.files[n].content)
        /\ Quotes(e.quote, Extract(p.files[n].content, e.start, e.end))
    BY <2>3, <2>4, <2>5, <2>8 DEF shown
  <2>10. Verify(e, fs) = "verified"
    <3> DEFINE s == p.signals
               x == p.files
    <3>1. /\ s \in Seq(STRING) /\ ShownOf(x, used, Ranked(fs, s), Len(Ranked(fs, s))) /\ n \in DOMAIN x
          /\ e.path = x[n].path /\ e.end <= LineCount(x[n].content)
          /\ Quotes(e.quote, Extract(x[n].content, e.start, e.end))
      BY <2>3, <2>4, <2>9
    <3> HIDE DEF s, x
    <3> QED  BY <2>9, <3>1, ShownVerified
  <2>11. \A k \in DOMAIN FakeJudgment(p).evidence : FakeJudgment(p).evidence[k] = e
    BY <2>1
  <2> QED  BY <2>10, <2>11 DEF CitesVerified
<1> QED  BY <1>3, <1>4

\* What a model quotes of lines that it was shown, as they are or with other
\* blanks, would be verified.
LEMMA ModelVerified ==
  ASSUME NEW fs \in FileSets, NEW signals \in Seq(STRING), NEW shown, NEW used,
         ShownOf(shown, used, Ranked(fs, signals), Len(Ranked(fs, signals))),
         NEW n \in DOMAIN shown,
         NEW a \in 1..LineCount(shown[n].content), NEW b \in 1..LineCount(shown[n].content), a <= b,
         NEW quote \in {Extract(shown[n].content, a, b), Collapse(Extract(shown[n].content, a, b))}
  PROVE  Verify([path |-> shown[n].path, start |-> a, end |-> b, quote |-> quote], fs) = "verified"
<1> DEFINE text == shown[n].content
           e == [path |-> shown[n].path, start |-> a, end |-> b, quote |-> quote]
<1>1. text \in Texts
  <2>1. shown \in Seq(FileRecord)
    BY DEF ShownOf
  <2>2. shown[n] \in FileRecord
    BY <2>1
  <2> QED  BY <2>2 DEF FileRecord
<1>2. LineCount(text) \in Nat
  BY <1>1, NewlinesShape
<1>3. a \in Nat \ {0} /\ b \in Nat /\ b <= LineCount(text)
  BY <1>2
<1>4. IsPart(Extract(text, a, b), Extract(text, a, b))
  <2> HIDE DEF text
  <2>1. Extract(text, a, b) \in Texts
    BY <1>1, <1>3, ExtractShape
  <2> QED  BY <2>1, WholePart
<1>5. Quotes(quote, Extract(text, a, b))
  BY <1>4 DEF Quotes
<1>6. /\ e.path = shown[n].path /\ e.start \in Nat \ {0} /\ e.end \in Nat /\ e.start <= e.end
      /\ e.end <= LineCount(shown[n].content)
      /\ Quotes(e.quote, Extract(shown[n].content, e.start, e.end))
  BY <1>3, <1>5
<1> HIDE DEF e
<1>7. Verify(e, fs) = "verified"
  BY <1>6, ShownVerified
<1> QED  BY <1>7 DEF e

\* The invariant holds before the upload,
LEMMA MaterialInit == Init => MaterialInv
BY DEF Init, MaterialInv, Stored, PromptShows, Meant, Settled

\* and is kept by each step: Stored by the ingestion,
LEMMA MaterialIngest ==
  ASSUME MaterialInv, Ingest
  PROVE  MaterialInv'
<1>1. PICK r \in Repos \union Crafted :
          \E order \in SetToSeqs(r), from \in {"clone", "archive", "zip"} : files' = Ingested(order, from)
  BY DEF Ingest, Ingested
<1>2. PICK order \in SetToSeqs(r), from \in {"clone", "archive", "zip"} : files' = Ingested(order, from)
  BY <1>1
<1>3. \/ files' = Rejected
      \/ files' = [files |-> files'.files, error |-> FALSE] /\ files'.files \in FileSets
  BY <1>2, IngestedType
<1>4. stage' = IF files'.error THEN "rejected" ELSE "stored"
  BY DEF Ingest
<1>5. stage' = "rejected" \/ (stage' = "stored" /\ files'.files \in FileSets)
  BY <1>3, <1>4 DEF Rejected
<1> QED  BY <1>5 DEF MaterialInv, Stored, PromptShows, Meant, Settled

\* PromptShows by the selection,
LEMMA MaterialShow ==
  ASSUME MaterialInv, Show
  PROVE  MaterialInv'
<1>1. stage = "stored" /\ stage' = "shown" /\ files' = files
  BY DEF Show
<1>2. files.files \in FileSets
  BY <1>1 DEF MaterialInv, Stored
<1>3. PICK c \in Criteria : prompt' = BuildMessages(c, files.files)
  BY DEF Show
<1>4. prompt'.signals = DeriveSignals(c) /\ prompt'.files = Select(files.files, DeriveSignals(c))
  BY <1>3 DEF BuildMessages
<1>5. prompt'.signals \in Seq(STRING)
  BY <1>4, SignalsShape
<1>6. ShownOf(prompt'.files, Lengths(prompt'.files), Ranked(files.files, prompt'.signals),
              Len(Ranked(files.files, prompt'.signals)))
  <2> DEFINE s == DeriveSignals(c)
             fs == files.files
  <2>1. s \in Seq(STRING) /\ fs \in FileSets
    BY <1>2, <1>4, <1>5
  <2> HIDE DEF s, fs
  <2>2. ShownOf(Select(fs, s), Lengths(Select(fs, s)), Ranked(fs, s), Len(Ranked(fs, s)))
    BY <2>1, SelectShape
  <2> QED  BY <1>4, <2>2 DEF s, fs
<1>7. Stored' /\ Meant' /\ Settled'
  BY <1>1, <1>2 DEF Stored, Meant, Settled
<1>8. PromptShows'
  BY <1>1, <1>5, <1>6 DEF PromptShows
<1> QED  BY <1>7, <1>8 DEF MaterialInv

\* Meant by the fake
LEMMA MaterialAnswerFake ==
  ASSUME MaterialInv, AnswerFake
  PROVE  MaterialInv'
<1>1. stage = "shown" /\ stage' = "received" /\ files' = files /\ judgment' = FakeJudgment(prompt)
  BY DEF AnswerFake
<1>2. files.files \in FileSets
  BY <1>1 DEF MaterialInv, Stored
<1>3. /\ prompt.signals \in Seq(STRING)
      /\ ShownOf(prompt.files, Lengths(prompt.files), Ranked(files.files, prompt.signals),
                 Len(Ranked(files.files, prompt.signals)))
  BY <1>1 DEF MaterialInv, PromptShows
<1>4. CitesVerified(FakeJudgment(prompt), files.files)
  BY <1>2, <1>3, FakeVerified
<1> QED  BY <1>1, <1>2, <1>4 DEF MaterialInv, Stored, PromptShows, Meant, Settled

\* and by a model.
LEMMA MaterialAnswerModel ==
  ASSUME MaterialInv, AnswerModel
  PROVE  MaterialInv'
<1>1. stage = "shown" /\ stage' = "sent" /\ files' = files
  BY DEF AnswerModel
<1>2. files.files \in FileSets
  BY <1>1 DEF MaterialInv, Stored
<1>3. /\ prompt.signals \in Seq(STRING)
      /\ ShownOf(prompt.files, Lengths(prompt.files), Ranked(files.files, prompt.signals),
                 Len(Ranked(files.files, prompt.signals)))
  BY <1>1 DEF MaterialInv, PromptShows
<1> DEFINE citable(model) == UNION {Citations(f, model.lines) : f \in ToSet(prompt.files)}
<1>a. PICK model \in Models :
          \E verdict \in Verdicts, evidence \in BoundedSeq(citable(model), model.most) :
              judgment' = [verdict |-> verdict, score |-> <<"8", "5">>, evidence |-> evidence]
  BY DEF AnswerModel
<1>4. PICK verdict \in Verdicts, evidence \in BoundedSeq(citable(model), model.most) :
          judgment' = [verdict |-> verdict, score |-> <<"8", "5">>, evidence |-> evidence]
  BY <1>a
<1>5. ASSUME NEW n \in DOMAIN evidence
      PROVE  Verify(evidence[n], files.files) = "verified"
  <2>1. PICK f \in ToSet(prompt.files) : evidence[n] \in Citations(f, model.lines)
    <3>1. evidence \in Seq(citable(model))
      BY DEF BoundedSeq, SeqOf
    <3>2. evidence[n] \in citable(model)
      BY <3>1
    <3> QED  BY <3>2
  <2>2. PICK k \in DOMAIN prompt.files : f = prompt.files[k]
    BY DEF ToSet
  <2> DEFINE text == prompt.files[k].content
  <2>3. PICK a \in 1..LineCount(text), b \in 1..LineCount(text) :
            \E quote \in {Extract(text, a, b), Collapse(Extract(text, a, b))} :
                a <= b /\ evidence[n] = [path |-> prompt.files[k].path, start |-> a, end |-> b, quote |-> quote]
    BY <2>1, <2>2 DEF Citations
  <2>4. PICK quote \in {Extract(text, a, b), Collapse(Extract(text, a, b))} :
                a <= b /\ evidence[n] = [path |-> prompt.files[k].path, start |-> a, end |-> b, quote |-> quote]
    BY <2>3
  <2>5. Verify([path |-> prompt.files[k].path, start |-> a, end |-> b, quote |-> quote], files.files) = "verified"
    BY <1>2, <1>3, <2>4, ModelVerified
  <2> QED  BY <2>4, <2>5
<1>6. judgment'.evidence = evidence
  BY <1>4
<1>7. CitesVerified(judgment', files.files)
  BY <1>5, <1>6 DEF CitesVerified
<1> QED  BY <1>1, <1>2, <1>7 DEF MaterialInv, Stored, PromptShows, Meant, Settled

\* The other steps carry what is there.
LEMMA MaterialStep ==
  ASSUME MaterialInv, [Next]_vars
  PROVE  MaterialInv'
<1>1. CASE Ingest
  BY <1>1, MaterialIngest
<1>2. CASE Show
  BY <1>2, MaterialShow
<1>3. CASE AnswerFake
  BY <1>3, MaterialAnswerFake
<1>4. CASE AnswerModel
  BY <1>4, MaterialAnswerModel
<1>6. CASE Receive
  <2>1. stage = "sent" /\ stage' \in {"received", "unreadable"} /\ files' = files /\ judgment' = judgment
    BY <1>6 DEF Receive
  <2> QED  BY <2>1 DEF MaterialInv, Stored, PromptShows, Meant, Settled
<1>7. CASE VerifyAll
  BY <1>7 DEF VerifyAll, MaterialInv, Stored, PromptShows, Meant, Settled
<1>8. CASE UNCHANGED vars
  BY <1>8 DEF vars, MaterialInv, Stored, PromptShows, Meant, Settled
<1> QED  BY <1>1, <1>2, <1>3, <1>4, <1>6, <1>7, <1>8 DEF Next

\* What is stored is one file per path, what is shown of it are the beginnings of
\* the files that rank highest, and what a grader meant to cite would be verified
\* at every later stage.
THEOREM MaterialInvHolds == Spec => []MaterialInv
<1>1. Init => MaterialInv
  BY MaterialInit
<1>2. ASSUME MaterialInv, [Next]_vars PROVE MaterialInv'
  BY <1>2, MaterialStep
<1> QED  BY <1>1, <1>2, PTL DEF Spec

\* A grader that quotes the lines it was shown is never accused of making them up
\* (llm/fake.py, engine/prompts.py, engine/file_selection.py, engine/evidence.py).
THEOREM HonestIsVerified == Spec => []HonestVerified
<1>1. MaterialInv => HonestVerified
  <2> SUFFICES ASSUME MaterialInv, stage = "verified", received.judgment.evidence = judgment.evidence,
                      NEW k \in DOMAIN statuses
               PROVE  statuses[k] = "verified"
    BY DEF HonestVerified
  <2>1. statuses = [n \in DOMAIN judgment.evidence |-> Verify(judgment.evidence[n], files.files)]
    BY DEF MaterialInv, Settled
  <2>2. CitesVerified(judgment, files.files)
    BY DEF MaterialInv, Meant
  <2> QED  BY <2>1, <2>2 DEF CitesVerified
<1> QED  BY <1>1, MaterialInvHolds, PTL

\* What is shown is the beginning of the ranking: a file that is left out ranks
\* below all that are shown.
LEMMA NamedLead ==
  ASSUME NEW fs \in FileSets, NEW signals \in Seq(STRING), NEW shown, NEW used,
         ShownOf(shown, used, Ranked(fs, signals), Len(Ranked(fs, signals)))
  PROVE  /\ \A k, l \in DOMAIN shown : k < l /\ Named(shown[l], signals) => Named(shown[k], signals)
         /\ \A f \in ToSet(fs) :
                Named(f, signals) /\ Classify(f.path) # "skip" /\ f.path \notin {g.path : g \in ToSet(shown)} =>
                    \A g \in ToSet(shown) : Named(g, signals)
<1> DEFINE ranked == Ranked(fs, signals)
<1>1. /\ ranked \in Seq(FileRecord) /\ ToSet(ranked) = Rankable(fs)
      /\ \A m, n \in DOMAIN ranked : m < n => Outranks(ranked[m], ranked[n], signals)
  BY RankedShape DEF FileSets
<1> HIDE DEF ranked
<1>2. DOMAIN ranked = 1..Len(ranked) /\ Len(ranked) \in Nat
  BY <1>1
<1>3. /\ shown \in Seq(FileRecord) /\ Len(shown) <= Len(ranked)
      /\ \A k \in 1..Len(shown) : Begins(shown[k], ranked[k])
  BY DEF ShownOf, ranked
<1>4. DOMAIN shown = 1..Len(shown) /\ Len(shown) \in Nat
  BY <1>3
<1>5. \A k \in DOMAIN shown : /\ k \in DOMAIN ranked /\ shown[k].path = ranked[k].path
                              /\ Named(shown[k], signals) <=> Named(ranked[k], signals)
  <2>1. \A k \in DOMAIN shown : k \in DOMAIN ranked /\ shown[k].path = ranked[k].path
    BY <1>2, <1>3, <1>4 DEF Begins
  <2> QED  BY <2>1 DEF Named
<1>6. \A m, n \in DOMAIN ranked : m < n /\ Named(ranked[n], signals) => Named(ranked[m], signals)
  <2>1. ASSUME NEW m \in DOMAIN ranked, NEW n \in DOMAIN ranked, m < n, Named(ranked[n], signals)
        PROVE  Named(ranked[m], signals)
    <3>1. Outranks(ranked[m], ranked[n], signals)
      BY <1>1, <2>1
    <3>2. (Named(ranked[m], signals) = Named(ranked[n], signals)) <=>
             (Named(ranked[m], signals) <=> Named(ranked[n], signals))
      BY DEF Named
    <3> QED  BY <2>1, <3>1, <3>2 DEF Outranks
  <2> QED  BY <2>1
<1>7. \A k, l \in DOMAIN shown : k < l /\ Named(shown[l], signals) => Named(shown[k], signals)
  BY <1>5, <1>6
<1>8. ASSUME NEW f \in ToSet(fs), Named(f, signals), Classify(f.path) # "skip",
             f.path \notin {g.path : g \in ToSet(shown)}, NEW g \in ToSet(shown)
      PROVE  Named(g, signals)
  <2>1. PICK n \in DOMAIN ranked : ranked[n] = f
    BY <1>1, <1>8 DEF Rankable, ToSet
  <2>2. PICK k \in DOMAIN shown : shown[k] = g
    BY DEF ToSet
  <2>3. n \notin DOMAIN shown
    <3>1. ASSUME n \in DOMAIN shown PROVE FALSE
      <4>1. shown[n] \in ToSet(shown) /\ shown[n].path = f.path
        BY <1>5, <2>1, <3>1 DEF ToSet
      <4> QED  BY <1>8, <4>1
    <3> QED  BY <3>1
  <2>4. k < n /\ k \in DOMAIN ranked
    BY <1>2, <1>4, <1>5, <2>3
  <2>5. Named(ranked[k], signals)
    BY <1>6, <1>8, <2>1, <2>4
  <2> QED  BY <1>5, <2>2, <2>5
<1> QED  BY <1>7, <1>8

\* The files whose path has a term of the criterion are shown before all others,
\* and none of them is left out for one of the others; what is shown keeps to the
\* budgets (the loop of select_files in engine/file_selection.py).
THEOREM NamedFilesAreLeading == Spec => []NamedFilesLead
<1>1. MaterialInv => NamedFilesLead
  <2> SUFFICES ASSUME MaterialInv, stage = "shown" PROVE NamedFilesLead
    BY DEF NamedFilesLead
  <2> DEFINE shown == prompt.files
             signals == prompt.signals
             fs == files.files
             paths == {f.path : f \in ToSet(shown)}
             named(p) == \E t \in ToSet(prompt.signals) : t \notin ShortTerms /\ Contains(p, t)
  <2>1. fs \in FileSets /\ signals \in Seq(STRING)
        /\ ShownOf(shown, Lengths(shown), Ranked(fs, signals), Len(Ranked(fs, signals)))
    BY DEF MaterialInv, Stored, PromptShows
  <2>2. /\ \A k, l \in DOMAIN shown : k < l /\ Named(shown[l], signals) => Named(shown[k], signals)
        /\ \A f \in ToSet(fs) :
               Named(f, signals) /\ Classify(f.path) # "skip" /\ f.path \notin {g.path : g \in ToSet(shown)} =>
                   \A g \in ToSet(shown) : Named(g, signals)
    <3> HIDE DEF fs, signals, shown
    <3> QED  BY <2>1, NamedLead
  <2>3. \A f : named(f.path) <=> Named(f, signals)
    BY DEF Named, Helpful
  <2>4. Len(shown) <= MaxShown /\ Lengths(shown) <= FilesBudget
    <3>1. Len(shown) <= MaxShown /\ Lengths(shown) \in 0..FilesBudget
      BY <2>1 DEF ShownOf
    <3>2. FilesBudget \in Nat
      BY BudgetsAssumption DEF BudgetsAssumption
    <3> HIDE DEF shown
    <3> QED  BY <3>1, <3>2
  <2>5. \A k, l \in DOMAIN shown : k < l /\ named(shown[l].path) => named(shown[k].path)
    <3> HIDE DEF shown, named, signals
    <3> QED  BY <2>2, <2>3
  <2>6. \A f \in ToSet(fs) :
            named(f.path) /\ Classify(f.path) # "skip" /\ f.path \notin paths => \A p \in paths : named(p)
    <3> HIDE DEF shown, named, signals, fs
    <3> QED  BY <2>2, <2>3
  <2>7. SumFunction([k \in DOMAIN shown |-> Len(shown[k].content)]) <= FilesBudget
    BY <2>4 DEF Lengths
  <2> QED  BY <2>4, <2>5, <2>6, <2>7 DEF NamedFilesLead
<1> QED  BY <1>1, MaterialInvHolds, PTL

=============================================================================
