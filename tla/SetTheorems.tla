----------------------------- MODULE SetTheorems ----------------------------
(***************************************************************************)
(* What the proofs of the other modules need of sets: folds over finite    *)
(* ones, by induction over their subsets, least elements, ordered lists.   *)
(***************************************************************************)
EXTENDS Integers, FiniteSets, FiniteSetsExt, FiniteSetTheorems, WellFoundedInduction, TLAPS

-----------------------------------------------------------------------------
(* Folds over finite sets. No operator can be put in the place of another    *)
(* in a proof, so the step of a fold is a function on a set of values here,  *)
(* and what is to be shown of it is a set of pairs.                          *)

\* P holds of a set when it holds of all smaller ones.
Climbs(D, P) == \A s \in SUBSET D : (\A t \in (SUBSET s) \ {s} : t \in P) => s \in P

\* Of subsets of a finite set, one that fails has a least one that does.
LEMMA BySubsets ==
  ASSUME NEW D, IsFiniteSet(D), NEW P, Climbs(D, P)
  PROVE  SUBSET D \subseteq P
<1> SUFFICES ASSUME ~(SUBSET D \subseteq P) PROVE FALSE
  OBVIOUS
<1> PICK bad : bad = {s \in SUBSET D : s \notin P}
  OBVIOUS
<1>1. bad # {} /\ bad \subseteq FiniteSubsetsOf(D)
  BY FS_Subset DEF FiniteSubsetsOf
<1>2. PICK t \in bad : \A u \in bad : <<u, t>> \notin StrictSubsetOrdering(D)
  BY <1>1, FS_StrictSubsetOrderingWellFounded, WFMin
<1>3. \A u \in (SUBSET t) \ {t} : u \in P
  BY <1>2 DEF StrictSubsetOrdering
<1> QED
  BY <1>2, <1>3 DEF Climbs

\* The steps of a fold: ch says which element of a set comes last.
Folds(D, ch, V, base, op) ==
    /\ IsFiniteSet(D) /\ base \in V /\ op \in [D \X V -> V]
    /\ \A s \in SUBSET D : s # {} => ch[s] \in s
FoldsTo(t, g, ch, base, op) ==
    \A s \in SUBSET t : g[s] = IF s = {} THEN base ELSE op[<<ch[s], g[s \ {ch[s]}]>>]

LEMMA FoldIsOne ==
  ASSUME NEW D, NEW ch, NEW V, NEW base, NEW op, Folds(D, ch, V, base, op),
         NEW t \in SUBSET D, NEW u \in SUBSET D, NEW g, NEW h,
         FoldsTo(t, g, ch, base, op), FoldsTo(u, h, ch, base, op)
  PROVE  \A s \in SUBSET (t \cap u) : g[s] = h[s]
<1>0. PICK P : P = {s \in SUBSET D : s \subseteq t \cap u => g[s] = h[s]}
  OBVIOUS
<1>1. ASSUME NEW s \in SUBSET D, \A v \in (SUBSET s) \ {s} : v \in P
      PROVE  s \in P
  <2>1. CASE ~(s \subseteq t \cap u) \/ s = {}
    BY <1>0, <2>1 DEF FoldsTo
  <2>2. CASE s \subseteq t \cap u /\ s # {}
    <3>1. ch[s] \in s
      BY <2>2 DEF Folds
    <3>2. g[s \ {ch[s]}] = h[s \ {ch[s]}]
      <4>1. s \ {ch[s]} \in (SUBSET s) \ {s}
        BY <3>1
      <4> QED
        BY <4>1, <1>0, <1>1, <2>2
    <3> QED
      BY <1>0, <2>2, <3>2 DEF FoldsTo
  <2> QED
    BY <2>1, <2>2
<1>2. SUBSET D \subseteq P
  <2> HIDE DEF Folds
  <2>1. IsFiniteSet(D)
    BY DEF Folds
  <2>2. Climbs(D, P)
    BY <1>1 DEF Climbs
  <2> QED
    BY <2>1, <2>2, BySubsets
<1> QED
  BY <1>0, <1>2

\* The recursion of a fold over a finite set has a solution.
LEMMA FoldExists ==
  ASSUME NEW D, NEW ch, NEW V, NEW base, NEW op, Folds(D, ch, V, base, op)
  PROVE  \E g \in [SUBSET D -> V] : FoldsTo(D, g, ch, base, op)
<1>0. PICK P : P = {t \in SUBSET D : \E g \in [SUBSET t -> V] : FoldsTo(t, g, ch, base, op)}
  OBVIOUS
<1>1. ASSUME NEW t \in SUBSET D, \A u \in (SUBSET t) \ {t} : u \in P
      PROVE  t \in P
  <2>0. PICK H : H = [u \in (SUBSET t) \ {t} |-> CHOOSE g \in [SUBSET u -> V] : FoldsTo(u, g, ch, base, op)]
    OBVIOUS
  <2>1. \A u \in (SUBSET t) \ {t} : H[u] \in [SUBSET u -> V] /\ FoldsTo(u, H[u], ch, base, op)
    BY <1>0, <1>1, <2>0
  <2>2. PICK g : g = [s \in SUBSET t |-> IF s = {} THEN base ELSE op[<<ch[s], H[s \ {ch[s]}][s \ {ch[s]}]>>]]
    OBVIOUS
  <2>3. ASSUME NEW s \in SUBSET t, s # {}
        PROVE  ch[s] \in s /\ ch[s] \in D /\ s \ {ch[s]} \in (SUBSET t) \ {t}
    BY <2>3 DEF Folds
  <2>4. ASSUME NEW u \in (SUBSET t) \ {t}
        PROVE  H[u][u] \in V /\ g[u] = H[u][u]
    <3>1. H[u][u] \in V
      BY <2>1
    <3>2. CASE u = {}
      BY <2>1, <2>2, <3>2 DEF FoldsTo
    <3>3. CASE u # {}
      <4>1. PICK v : v = u \ {ch[u]}
        OBVIOUS
      <4>2. v \in (SUBSET t) \ {t} /\ v \in SUBSET u /\ u \in SUBSET u
        BY <2>3, <3>3, <4>1
      <4>3. H[u][v] = H[v][v]
        <5>1. u \in SUBSET D /\ v \in SUBSET D /\ v \in SUBSET (u \cap v)
          BY <4>2
        <5>2. FoldsTo(u, H[u], ch, base, op) /\ FoldsTo(v, H[v], ch, base, op)
          BY <2>1, <4>2
        <5> QED
          BY <5>1, <5>2, FoldIsOne
      <4>4. H[u][u] = op[<<ch[u], H[u][v]>>]
        <5>1. FoldsTo(u, H[u], ch, base, op)
          BY <2>1
        <5> QED
          BY <3>3, <4>1, <4>2, <5>1 DEF FoldsTo
      <4>5. g[u] = op[<<ch[u], H[v][v]>>]
        BY <2>2, <3>3, <4>1
      <4> QED
        BY <3>1, <4>3, <4>4, <4>5
    <3> QED
      BY <3>1, <3>2, <3>3
  <2>5. FoldsTo(t, g, ch, base, op)
    <3>1. ASSUME NEW s \in SUBSET t
          PROVE  g[s] = IF s = {} THEN base ELSE op[<<ch[s], g[s \ {ch[s]}]>>]
      <4>1. CASE s = {}
        BY <2>2, <4>1
      <4>2. CASE s # {}
        <5>1. PICK u : u = s \ {ch[s]}
          OBVIOUS
        <5>2. g[u] = H[u][u]
          BY <2>3, <2>4, <4>2, <5>1
        <5>3. g[s] = op[<<ch[s], H[u][u]>>]
          BY <2>2, <4>2, <5>1
        <5> QED
          BY <4>2, <5>1, <5>2, <5>3
      <4> QED
        BY <4>1, <4>2
    <3> QED
      BY <3>1 DEF FoldsTo
  <2>6. g \in [SUBSET t -> V]
    <3>1. ASSUME NEW s \in SUBSET t, s # {}
          PROVE  op[<<ch[s], H[s \ {ch[s]}][s \ {ch[s]}]>>] \in V
      BY <2>3, <2>4, <3>1 DEF Folds
    <3> QED
      BY <2>2, <3>1 DEF Folds
  <2> QED
    BY <1>0, <2>5, <2>6
<1>2. SUBSET D \subseteq P
  <2>1. IsFiniteSet(D)
    BY DEF Folds
  <2>2. Climbs(D, P)
    BY <1>1 DEF Climbs
  <2> QED
    BY <2>1, <2>2, BySubsets
<1> QED
  BY <1>0, <1>2

\* A step of the fold keeps a set of pairs: what was folded, and its value.
Keeps(D, ch, V, base, op, P) ==
    /\ <<{}, base>> \in P
    /\ \A s \in SUBSET D, v \in V : s # {} /\ <<s \ {ch[s]}, v>> \in P => <<s, op[<<ch[s], v>>]>> \in P

\* What holds at first and is kept by every step holds of every set.
LEMMA FoldKeeps ==
  ASSUME NEW D, NEW ch, NEW V, NEW base, NEW op, Folds(D, ch, V, base, op),
         NEW g, FoldsTo(D, g, ch, base, op),
         NEW P, Keeps(D, ch, V, base, op, P)
  PROVE  \A s \in SUBSET D : g[s] \in V /\ <<s, g[s]>> \in P
<1>0. PICK Q : Q = {s \in SUBSET D : g[s] \in V /\ <<s, g[s]>> \in P}
  OBVIOUS
<1>1. ASSUME NEW s \in SUBSET D, \A t \in (SUBSET s) \ {s} : t \in Q
      PROVE  s \in Q
  <2>1. CASE s = {}
    BY <1>0, <2>1 DEF Folds, FoldsTo, Keeps
  <2>2. CASE s # {}
    <3>1. ch[s] \in s /\ s \ {ch[s]} \in Q
      <4>1. ch[s] \in s
        BY <2>2 DEF Folds
      <4>2. s \ {ch[s]} \in (SUBSET s) \ {s}
        BY <4>1
      <4> QED
        BY <1>0, <1>1, <4>1, <4>2
    <3>2. g[s] = op[<<ch[s], g[s \ {ch[s]}]>>]
      BY <2>2 DEF FoldsTo
    <3> QED
      BY <1>0, <2>2, <3>1, <3>2 DEF Folds, Keeps
  <2> QED
    BY <2>1, <2>2
<1>2. SUBSET D \subseteq Q
  <2>1. IsFiniteSet(D)
    BY DEF Folds
  <2>2. Climbs(D, Q)
    BY <1>1 DEF Climbs
  <2> QED
    BY <2>1, <2>2, BySubsets
<1> QED
  BY <1>0, <1>2

\* What follows the steps of a fold while its values are in V is the fold.
LEMMA FoldSolved ==
  ASSUME NEW D, NEW ch, NEW V, NEW base, NEW op, Folds(D, ch, V, base, op),
         NEW h, h[{}] = base,
         \A s \in SUBSET D : s # {} /\ h[s \ {ch[s]}] \in V => h[s] = op[<<ch[s], h[s \ {ch[s]}]>>]
  PROVE  FoldsTo(D, h, ch, base, op) /\ \A s \in SUBSET D : h[s] \in V
<1>0. PICK P : P = {s \in SUBSET D : h[s] \in V}
  OBVIOUS
<1>1. ASSUME NEW s \in SUBSET D, \A t \in (SUBSET s) \ {s} : t \in P
      PROVE  s \in P
  <2>1. CASE s = {}
    BY <1>0, <2>1 DEF Folds
  <2>2. CASE s # {}
    <3>1. ch[s] \in s /\ ch[s] \in D
      BY <2>2 DEF Folds
    <3>2. s \ {ch[s]} \in (SUBSET s) \ {s}
      BY <3>1
    <3>3. h[s \ {ch[s]}] \in V
      BY <1>0, <1>1, <3>2
    <3> QED
      BY <1>0, <2>2, <3>1, <3>3 DEF Folds
  <2> QED
    BY <2>1, <2>2
<1>2. SUBSET D \subseteq P
  <2>1. IsFiniteSet(D)
    BY DEF Folds
  <2>2. Climbs(D, P)
    BY <1>1 DEF Climbs
  <2> QED
    BY <2>1, <2>2, BySubsets
<1>3. ASSUME NEW s \in SUBSET D, s # {}
      PROVE  h[s] = op[<<ch[s], h[s \ {ch[s]}]>>]
  BY <1>0, <1>2, <1>3
<1> QED
  BY <1>0, <1>2, <1>3 DEF FoldsTo

-----------------------------------------------------------------------------
(* The least and the greatest.                                              *)

LEMMA LeastExists ==
  ASSUME NEW S \in SUBSET Nat, S # {}
  PROVE  \E x \in S : \A y \in S : x <= y
<1> PICK below : below = {0..x : x \in S}
  OBVIOUS
<1>1. below \subseteq FiniteSubsetsOf(Nat) /\ below # {}
  <2>1. \A x \in S : IsFiniteSet(0..x) /\ 0..x \in SUBSET Nat
    BY FS_Interval
  <2> QED
    BY <2>1 DEF FiniteSubsetsOf
<1>2. PICK t \in below : \A u \in below : <<u, t>> \notin StrictSubsetOrdering(Nat)
  BY <1>1, FS_StrictSubsetOrderingWellFounded, WFMin
<1>3. PICK x \in S : t = 0..x
  BY <1>2
<1>4. ASSUME NEW y \in S, ~(x <= y)
      PROVE  FALSE
  <2>1. 0..y \subseteq 0..x /\ x \in 0..x /\ x \notin 0..y
    BY <1>4
  <2>2. <<0..y, 0..x>> \in StrictSubsetOrdering(Nat)
    BY <2>1 DEF StrictSubsetOrdering
  <2> QED
    BY <1>2, <1>3, <2>2
<1> QED
  BY <1>4

LEMMA MinIs ==
  ASSUME NEW S \in SUBSET Nat, S # {}
  PROVE  Min(S) \in S /\ \A y \in S : Min(S) <= y
BY LeastExists DEF Min

LEMMA MaxIs ==
  ASSUME NEW S \in SUBSET Nat, S # {}, IsFiniteSet(S)
  PROVE  Max(S) \in S /\ \A y \in S : y <= Max(S)
<1>0. PICK above : above = [x \in S |-> {y \in S : y >= x}]
  OBVIOUS
<1>1. PICK tops : tops = {above[x] : x \in S}
  OBVIOUS
<1>2. tops \subseteq FiniteSubsetsOf(Nat) /\ tops # {}
  <2>1. ASSUME NEW x \in S
        PROVE  above[x] \in FiniteSubsetsOf(Nat)
    <3>1. above[x] \subseteq S
      BY <1>0
    <3>2. IsFiniteSet(above[x])
      BY <3>1, FS_Subset
    <3> QED
      BY <3>1, <3>2 DEF FiniteSubsetsOf
  <2> QED
    BY <1>1, <2>1
<1>3. PICK t \in tops : \A u \in tops : <<u, t>> \notin StrictSubsetOrdering(Nat)
  BY <1>2, FS_StrictSubsetOrderingWellFounded, WFMin
<1>4. PICK x \in S : t = above[x]
  BY <1>1, <1>3
<1>5. ASSUME NEW y \in S, ~(y <= x)
      PROVE  FALSE
  <2>1. above[y] \subseteq above[x] /\ x \in above[x] /\ x \notin above[y] /\ above[x] \subseteq S
    <3>1. y \in Nat /\ x \in Nat /\ S \subseteq Nat /\ y > x
      BY <1>5
    <3>2. above[y] = {z \in S : z >= y} /\ above[x] = {z \in S : z >= x}
      BY <1>0
    <3>3. \A z \in S : z >= y => z >= x
      BY <3>1
    <3>4. x \in above[x] /\ x \notin above[y]
      BY <3>1, <3>2
    <3> QED
      BY <3>2, <3>3, <3>4
  <2>2. <<above[y], above[x]>> \in StrictSubsetOrdering(Nat)
    BY <2>1 DEF StrictSubsetOrdering
  <2>3. above[y] \in tops
    BY <1>1
  <2> QED
    BY <1>3, <1>4, <2>2, <2>3
<1> QED
  BY <1>5 DEF Max

-----------------------------------------------------------------------------
(* Lists of a finite set in an order, which is a set of pairs here.         *)

Orders(R, S) ==
    /\ \A x \in S : <<x, x>> \notin R
    /\ \A x, y, z \in S : <<x, y>> \in R /\ <<y, z>> \in R => <<x, z>> \in R
    /\ \A x, y \in S : x = y \/ <<x, y>> \in R \/ <<y, x>> \in R
Lower(R, S, x) == {y \in S : <<y, x>> \in R}

LEMMA LowerGrows ==
  ASSUME NEW S, IsFiniteSet(S), NEW R, Orders(R, S), NEW x \in S, NEW y \in S, <<x, y>> \in R
  PROVE  Cardinality(Lower(R, S, x)) < Cardinality(Lower(R, S, y))
<1>0. PICK A, B : A = Lower(R, S, x) /\ B = Lower(R, S, y)
  OBVIOUS
<1>1. A \subseteq B /\ x \in B /\ x \notin A /\ B \subseteq S
  BY <1>0 DEF Orders, Lower
<1>2. IsFiniteSet(A) /\ IsFiniteSet(B)
  BY <1>1, FS_Subset
<1>3. Cardinality(A) \in Nat /\ Cardinality(B) \in Nat
  BY <1>2, FS_CardinalityType
<1>4. Cardinality(A) <= Cardinality(B) /\ (Cardinality(B) = Cardinality(A) => B = A)
  BY <1>1, <1>2, FS_Subset
<1>5. Cardinality(A) < Cardinality(B)
  BY <1>1, <1>3, <1>4
<1> QED
  BY <1>0, <1>5

\* Of every number of members there is one that so many are lower than.
Ranked(R, S) ==
    /\ Cardinality(S) \in Nat
    /\ \A x \in S : Cardinality(Lower(R, S, x)) \in 0..(Cardinality(S) - 1)
    /\ \A k \in 0..(Cardinality(S) - 1) : \E x \in S : Cardinality(Lower(R, S, x)) = k

LEMMA LowerIsOnto ==
  ASSUME NEW S, IsFiniteSet(S), NEW R, Orders(R, S)
  PROVE  Ranked(R, S)
<1>0. PICK n, T, f : n = Cardinality(S) /\ T = 0..(n - 1) /\ f = [x \in S |-> Cardinality(Lower(R, S, x))]
  OBVIOUS
<1>1. n \in Nat
  BY <1>0, FS_CardinalityType
<1>2. \A x \in S : Cardinality(Lower(R, S, x)) \in T
  <2> TAKE x \in S
  <2>0. PICK A : A = Lower(R, S, x)
    OBVIOUS
  <2>1. A \subseteq S /\ x \notin A
    BY <2>0 DEF Orders, Lower
  <2>2. IsFiniteSet(A) /\ Cardinality(A) <= n /\ (n = Cardinality(A) => S = A)
    BY <1>0, <2>1, FS_Subset
  <2>3. Cardinality(A) \in Nat
    BY <2>2, FS_CardinalityType
  <2>4. Cardinality(A) \in T
    BY <1>0, <1>1, <2>1, <2>2, <2>3
  <2> QED
    BY <2>0, <2>4
<1>3. IsFiniteSet(T) /\ Cardinality(T) = n
  <2>1. 0 \in Int /\ n - 1 \in Int
    BY <1>1
  <2>2. IsFiniteSet(0..(n - 1)) /\ Cardinality(0..(n - 1)) = IF 0 > n - 1 THEN 0 ELSE (n - 1) - 0 + 1
    BY <2>1, FS_Interval
  <2> QED
    BY <1>0, <1>1, <2>2
<1>4. f \in [S -> T] /\ \A x, y \in S : x # y => f[x] # f[y]
  <2>1. f \in [S -> T]
    BY <1>0, <1>2
  <2>2. ASSUME NEW x \in S, NEW y \in S, x # y
        PROVE  f[x] # f[y]
    <3>1. f[x] \in Nat /\ f[y] \in Nat /\ f[x] = Cardinality(Lower(R, S, x)) /\ f[y] = Cardinality(Lower(R, S, y))
      BY <1>0, <1>1, <2>1
    <3>2. CASE <<x, y>> \in R
      BY <3>1, <3>2, LowerGrows
    <3>3. CASE <<y, x>> \in R
      BY <3>1, <3>3, LowerGrows
    <3> QED
      BY <2>2, <3>2, <3>3 DEF Orders
  <2> QED
    BY <2>1, <2>2
<1>5. f \in Injection(S, T)
  BY <1>4 DEF Injection, IsInjective
<1>6. f \in Surjection(S, T)
  BY <1>0, <1>3, <1>5, FS_Injection
<1>7. \A k \in T : \E x \in S : f[x] = k
  BY <1>6 DEF Surjection
<1> QED
  BY <1>0, <1>1, <1>2, <1>7 DEF Ranked

\* s has every member of S once.
Lists(s, S) ==
    /\ Cardinality(S) \in Nat /\ s \in [1..Cardinality(S) -> S]
    /\ \A i, j \in 1..Cardinality(S) : i # j => s[i] # s[j]
    /\ \A x \in S : \E i \in 1..Cardinality(S) : s[i] = x
Rises(s, R) == \A i, j \in DOMAIN s : i < j => <<s[i], s[j]>> \in R

\* The list of a set by how many of its members come before each.
LEMMA ListedIs ==
  ASSUME NEW S, IsFiniteSet(S), NEW R, Orders(R, S),
         NEW s \in [1..Cardinality(S) -> S],
         \A k \in 1..Cardinality(S) : Cardinality(Lower(R, S, s[k])) = k - 1
  PROVE  Lists(s, S) /\ Rises(s, R)
<1>0. PICK n : n = Cardinality(S)
  OBVIOUS
<1>1. /\ n \in Nat
      /\ \A x \in S : Cardinality(Lower(R, S, x)) \in 0..(n - 1)
      /\ \A k \in 0..(n - 1) : \E x \in S : Cardinality(Lower(R, S, x)) = k
  BY <1>0, LowerIsOnto DEF Ranked
<1>2. \A k \in 1..n : s[k] \in S /\ Cardinality(Lower(R, S, s[k])) = k - 1
  BY <1>0
<1>3. s \in [1..n -> S]
  BY <1>0
<1>4. ASSUME NEW i \in 1..n, NEW j \in 1..n, i < j
      PROVE  <<s[i], s[j]>> \in R
  <2>1. PICK a, b : a = s[i] /\ b = s[j]
    OBVIOUS
  <2>2. a \in S /\ b \in S /\ Cardinality(Lower(R, S, a)) = i - 1 /\ Cardinality(Lower(R, S, b)) = j - 1
    BY <1>2, <2>1
  <2>3. a # b
    BY <1>1, <1>4, <2>2
  <2>4. <<b, a>> \notin R
    <3> SUFFICES ASSUME <<b, a>> \in R PROVE FALSE
      OBVIOUS
    <3>1. Cardinality(Lower(R, S, b)) < Cardinality(Lower(R, S, a))
      BY <2>2, LowerGrows
    <3> QED
      BY <1>1, <1>4, <2>2, <3>1
  <2> QED
    BY <2>1, <2>2, <2>3, <2>4 DEF Orders
<1>5. ASSUME NEW i \in 1..n, NEW j \in 1..n, i # j
      PROVE  s[i] # s[j]
  <2>1. i < j \/ j < i
    BY <1>1, <1>5
  <2> QED
    BY <1>2, <1>4, <2>1 DEF Orders
<1>6. ASSUME NEW x \in S
      PROVE  \E i \in 1..n : s[i] = x
  <2>1. PICK i : i = Cardinality(Lower(R, S, x)) + 1
    OBVIOUS
  <2>2. i \in 1..n /\ Cardinality(Lower(R, S, x)) = i - 1
    BY <1>1, <2>1
  <2>3. PICK y : y = s[i]
    OBVIOUS
  <2>4. y \in S /\ Cardinality(Lower(R, S, y)) = Cardinality(Lower(R, S, x)) /\ Cardinality(Lower(R, S, x)) \in Nat
    BY <1>1, <1>2, <2>2, <2>3
  <2>5. <<x, y>> \notin R /\ <<y, x>> \notin R
    BY <2>4, LowerGrows
  <2>6. x = y
    BY <2>4, <2>5 DEF Orders
  <2> QED
    BY <2>2, <2>3, <2>6
<1>7. DOMAIN s = 1..n
  BY <1>3
<1> QED
  BY <1>0, <1>1, <1>3, <1>4, <1>5, <1>6, <1>7 DEF Lists, Rises

\* Every finite set can be listed in an order of its members.
LEMMA ListExists ==
  ASSUME NEW S, IsFiniteSet(S), NEW R, Orders(R, S)
  PROVE  \E s \in [1..Cardinality(S) -> S] : Lists(s, S) /\ Rises(s, R)
<1>1. PICK s : s = [k \in 1..Cardinality(S) |-> CHOOSE x \in S : Cardinality(Lower(R, S, x)) = k - 1]
  OBVIOUS
<1>2. /\ Cardinality(S) \in Nat
      /\ \A i \in 0..(Cardinality(S) - 1) : \E x \in S : Cardinality(Lower(R, S, x)) = i
  BY LowerIsOnto DEF Ranked
<1>3. ASSUME NEW k \in 1..Cardinality(S)
      PROVE  s[k] \in S /\ Cardinality(Lower(R, S, s[k])) = k - 1
  <2>1. k - 1 \in 0..(Cardinality(S) - 1)
    BY <1>2
  <2>2. \E x \in S : Cardinality(Lower(R, S, x)) = k - 1
    BY <1>2, <2>1
  <2>3. s[k] = CHOOSE x \in S : Cardinality(Lower(R, S, x)) = k - 1
    BY <1>1
  <2> QED
    BY <2>2, <2>3
<1>4. s \in [1..Cardinality(S) -> S]
  BY <1>1, <1>3
<1>5. Lists(s, S) /\ Rises(s, R)
  BY <1>3, <1>4, ListedIs
<1> QED
  BY <1>4, <1>5

\* There is one list of a set in an order.
LEMMA OneList ==
  ASSUME NEW S, NEW R, Orders(R, S), NEW s, Lists(s, S), Rises(s, R), NEW t, Lists(t, S), Rises(t, R)
  PROVE  s = t
<1>0. PICK n : n = Cardinality(S)
  OBVIOUS
<1>1. /\ n \in Nat /\ s \in [1..n -> S] /\ t \in [1..n -> S]
      /\ \A i, j \in 1..n : i # j => s[i] # s[j] /\ t[i] # t[j]
      /\ \A x \in S : (\E i \in 1..n : s[i] = x) /\ (\E i \in 1..n : t[i] = x)
  BY <1>0 DEF Lists
<1>2. \A i, j \in 1..n : i < j => <<s[i], s[j]>> \in R /\ <<t[i], t[j]>> \in R
  BY <1>1 DEF Rises
<1>3. PICK bad : bad = {k \in 1..n : s[k] # t[k]}
  OBVIOUS
<1>4. SUFFICES ASSUME bad # {} PROVE FALSE
  <2>1. ASSUME bad = {} PROVE s = t
    <3>1. \A k \in 1..n : s[k] = t[k]
      BY <1>3, <2>1
    <3> QED
      BY <1>1, <3>1
  <2> QED
    BY <2>1
<1>5. FALSE
  <2>1. bad \in SUBSET Nat
    BY <1>3
  <2>2. PICK k \in bad : \A i \in bad : k <= i
    BY <1>4, <2>1, LeastExists
  <2>3. k \in 1..n /\ s[k] # t[k] /\ \A i \in 1..n : i < k => s[i] = t[i]
    BY <1>1, <1>3, <2>2
  <2>4. PICK i \in 1..n : s[i] = t[k]
    BY <1>1, <2>3
  <2>5. PICK j \in 1..n : t[j] = s[k]
    BY <1>1, <2>3
  <2>6. i > k
    <3>1. i # k
      BY <2>3, <2>4
    <3>2. CASE i < k
      BY <1>1, <2>3, <2>4, <3>1, <3>2
    <3> QED
      BY <1>1, <2>3, <3>1, <3>2
  <2>7. j > k
    <3>1. j # k
      BY <2>3, <2>5
    <3>2. CASE j < k
      BY <1>1, <2>3, <2>5, <3>1, <3>2
    <3> QED
      BY <1>1, <2>3, <3>1, <3>2
  <2>8. <<s[k], t[k]>> \in R /\ <<t[k], s[k]>> \in R
    BY <1>2, <2>3, <2>4, <2>5, <2>6, <2>7
  <2>9. s[k] \in S /\ t[k] \in S
    BY <1>1, <2>3
  <2> QED
    BY <2>8, <2>9 DEF Orders
<1> QED
  BY <1>5
=============================================================================
