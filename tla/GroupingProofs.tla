--------------------------- MODULE GroupingProofs ---------------------------
(***************************************************************************)
(* Grouping, proved for any files, paths and worlds, and Stacking, for     *)
(* every population, ceiling, screen and bound.                            *)
(***************************************************************************)
EXTENDS Grouping, StackingWalk, SetTheorems, FiniteSetTheorems, SequenceTheorems, WellFoundedInduction, TLAPS

-----------------------------------------------------------------------------
(* Union-find.                                                              *)

\* Whatever holds x and is closed under the edges holds y.
Chained(S, E, x, y) ==
    \A C \in SUBSET S : x \in C /\ (\A e \in E : e[1] \in C <=> e[2] \in C) => y \in C
\* The roots part what the edges seen so far do not chain.
Roots(S, E, root) ==
    /\ root \in [S -> S]
    /\ \A e \in E : root[e[1]] = root[e[2]]
    /\ \A x, y \in S : root[x] = root[y] => Chained(S, E, x, y)

LEMMA UnionRoots ==
  ASSUME NEW S \in SUBSET Nat, NEW E \in SUBSET (S \X S), NEW e \in E, NEW root, Roots(S, E \ {e}, root)
  PROVE  Roots(S, E, Union(root, e)) /\ Union(root, e) \in [S -> S]
<1>1. PICK low : low = Min({root[e[1]], root[e[2]]})
  OBVIOUS
<1>2. e[1] \in S /\ e[2] \in S /\ root \in [S -> S] /\ low \in {root[e[1]], root[e[2]]}
  <2>1. e[1] \in S /\ e[2] \in S /\ root \in [S -> S]
    BY DEF Roots
  <2>2. {root[e[1]], root[e[2]]} \in SUBSET Nat /\ {root[e[1]], root[e[2]]} # {}
    BY <2>1
  <2> QED
    BY <1>1, <2>1, <2>2, MinIs
<1>3. PICK new : new = [x \in S |-> IF root[x] \in {root[e[1]], root[e[2]]} THEN low ELSE root[x]]
  OBVIOUS
<1>4. Union(root, e) = new /\ new \in [S -> S]
  BY <1>1, <1>2, <1>3 DEF Union
<1>5. \A d \in E : new[d[1]] = new[d[2]]
  BY <1>2, <1>3 DEF Roots
<1>6. ASSUME NEW x \in S, NEW y \in S, new[x] = new[y], NEW C \in SUBSET S, x \in C,
             \A d \in E : d[1] \in C <=> d[2] \in C
      PROVE  y \in C
  <2>1. \A a, b \in S : root[a] = root[b] /\ a \in C => b \in C
    BY <1>6 DEF Roots, Chained
  <2>2. CASE root[x] = root[y]
    BY <1>6, <2>1, <2>2
  <2>3. CASE root[x] # root[y]
    <3>1. root[x] \in {root[e[1]], root[e[2]]} /\ root[y] \in {root[e[1]], root[e[2]]}
      BY <1>2, <1>3, <1>6, <2>3
    <3> QED
      BY <1>2, <1>6, <2>1, <3>1
  <2> QED
    BY <2>2, <2>3
<1> QED
  BY <1>4, <1>5, <1>6 DEF Roots, Chained

\* Union-find (group.py: Union) gives two items one root exactly when the edges
\* chain them, whatever the order the edges come in.
THEOREM ComponentsAre ==
  ASSUME NEW S \in SUBSET Nat, IsFiniteSet(S), NEW E \in SUBSET (S \X S)
  PROVE  Roots(S, E, Components(S, E))
<1>1. IsFiniteSet(E)
  BY FS_Product, FS_Subset
<1>2. PICK V : V = [S -> S]
  OBVIOUS
<1>3. PICK base : base = [x \in S |-> x]
  OBVIOUS
<1>4. PICK ch : ch = [s \in SUBSET E |-> CHOOSE e \in s : TRUE]
  OBVIOUS
<1>5. PICK op : op = [p \in E \X V |-> Union(p[2], p[1])]
  OBVIOUS
<1>6. \A s \in SUBSET E : s # {} => ch[s] \in s
  BY <1>4
<1>7. \A e \in E, root \in V : op[<<e, root>>] = Union(root, e) /\ Union(root, e) \in V
  <2>1. ASSUME NEW e \in E, NEW root \in V
        PROVE  Union(root, e) \in V
    <3>0. e[1] \in S /\ e[2] \in S /\ root \in [S -> S]
      BY <1>2
    <3>1. Min({root[e[1]], root[e[2]]}) \in S
      <4>1. {root[e[1]], root[e[2]]} \in SUBSET Nat /\ {root[e[1]], root[e[2]]} # {}
        BY <3>0
      <4>2. Min({root[e[1]], root[e[2]]}) \in {root[e[1]], root[e[2]]}
        BY <4>1, MinIs
      <4> QED
        BY <3>0, <4>2
    <3> QED
      BY <1>2, <3>0, <3>1 DEF Union
  <2> QED
    BY <1>5, <2>1
<1>8. Folds(E, ch, V, base, op)
  <2>1. base \in V
    BY <1>2, <1>3
  <2>2. op \in [E \X V -> V]
    BY <1>5, <1>7
  <2> QED
    BY <1>1, <1>6, <2>1, <2>2 DEF Folds
<1>9. PICK g \in [SUBSET E -> V] : FoldsTo(E, g, ch, base, op)
  BY <1>8, FoldExists
<1>10. g = [s \in SUBSET E |-> IF s = {} THEN [x \in S |-> x] ELSE Union(g[s \ {CHOOSE e \in s : TRUE}], CHOOSE e \in s : TRUE)]
  <2>1. ASSUME NEW s \in SUBSET E
        PROVE  g[s] = IF s = {} THEN [x \in S |-> x] ELSE Union(g[s \ {CHOOSE e \in s : TRUE}], CHOOSE e \in s : TRUE)
    <3>1. CASE s = {}
      BY <1>3, <1>9, <3>1 DEF FoldsTo
    <3>2. CASE s # {}
      <4>1. PICK e : e = ch[s]
        OBVIOUS
      <4>2. e \in s /\ e \in E /\ e = CHOOSE x \in s : TRUE
        BY <1>4, <1>6, <3>2, <4>1
      <4>3. g[s \ {e}] \in V /\ g[s] = op[<<e, g[s \ {e}]>>]
        BY <1>9, <3>2, <4>1 DEF FoldsTo
      <4> QED
        BY <1>7, <3>2, <4>2, <4>3
    <3> QED
      BY <3>1, <3>2
  <2> QED
    BY <1>9, <2>1
<1>11. PICK h : /\ h = [s \in SUBSET E |-> IF s = {} THEN [x \in S |-> x]
                                           ELSE Union(h[s \ {CHOOSE e \in s : TRUE}], CHOOSE e \in s : TRUE)]
                /\ Components(S, E) = h[E]
  BY <1>10 DEF Components, FoldSet, MapThenFoldSet
<1>12. SUBSET E \subseteq {s \in SUBSET E : h[s] = g[s]}
  <2>1. PICK P : P = {s \in SUBSET E : h[s] = g[s]}
    OBVIOUS
  <2>2. ASSUME NEW s \in SUBSET E, \A t \in (SUBSET s) \ {s} : t \in P
        PROVE  s \in P
    <3>1. CASE s = {}
      BY <1>10, <1>11, <2>1, <3>1
    <3>2. CASE s # {}
      <4>1. PICK u : u = s \ {CHOOSE e \in s : TRUE}
        OBVIOUS
      <4>2. u \in (SUBSET s) \ {s}
        BY <3>2, <4>1
      <4>3. h[u] = g[u]
        BY <2>1, <2>2, <4>2
      <4> QED
        <5>1. g[s] = Union(g[u], CHOOSE e \in s : TRUE)
          BY <1>10, <3>2, <4>1
        <5>2. h[s] = Union(h[u], CHOOSE e \in s : TRUE)
          BY <1>11, <3>2, <4>1
        <5> QED
          BY <2>1, <4>3, <5>1, <5>2
    <3> QED
      BY <3>1, <3>2
  <2>3. SUBSET E \subseteq P
    <3>1. Climbs(E, P)
      BY <2>2 DEF Climbs
    <3> QED
      BY <1>1, <3>1, BySubsets
  <2> QED
    BY <2>1, <2>3
<1>13. PICK P : P = {p \in (SUBSET E) \X V : Roots(S, p[1], p[2])}
  OBVIOUS
<1>14. <<{}, base>> \in P
  BY <1>2, <1>3, <1>13 DEF Roots, Chained
<1>15. ASSUME NEW s \in SUBSET E, NEW root \in V, s # {}, <<s \ {ch[s]}, root>> \in P
       PROVE  <<s, op[<<ch[s], root>>]>> \in P
  <2>1. ch[s] \in s /\ ch[s] \in E /\ Roots(S, s \ {ch[s]}, root)
    BY <1>6, <1>13, <1>15
  <2>2. Roots(S, s, Union(root, ch[s])) /\ Union(root, ch[s]) \in [S -> S]
    BY <2>1, UnionRoots
  <2> QED
    BY <1>2, <1>7, <1>13, <2>1, <2>2
<1>16. \A s \in SUBSET E : g[s] \in V /\ <<s, g[s]>> \in P
  <2>1. Keeps(E, ch, V, base, op, P)
    BY <1>14, <1>15 DEF Keeps
  <2>2. FoldsTo(E, g, ch, base, op)
    BY <1>9
  <2> QED
    BY <1>8, <2>1, <2>2, FoldKeeps
<1>17. Roots(S, E, g[E]) /\ h[E] = g[E]
  BY <1>12, <1>13, <1>16
<1> QED
  BY <1>11, <1>17

\* Roots and chains are the same: an edge joins files of one root only.
LEMMA RootsAreChains ==
  ASSUME NEW S, NEW E \in SUBSET (S \X S), NEW root, Roots(S, E, root), NEW x \in S, NEW y \in S
  PROVE  root[x] = root[y] <=> Chained(S, E, x, y)
<1>1. ASSUME Chained(S, E, x, y)
      PROVE  root[x] = root[y]
  <2>1. PICK C : C = {z \in S : root[z] = root[x]}
    OBVIOUS
  <2>2. \A e \in E : e[1] \in C <=> e[2] \in C
    BY <2>1 DEF Roots
  <2>3. C \in SUBSET S /\ x \in C
    BY <2>1
  <2>4. y \in C
    BY <1>1, <2>2, <2>3 DEF Chained
  <2> QED
    BY <2>1, <2>4
<1> QED
  BY <1>1 DEF Roots

\* A set closed under a relation is closed under the chains of it.
LEMMA ChainsClose ==
  ASSUME NEW S, NEW E, NEW x \in S, NEW y \in S, Chained(S, E, x, y),
         NEW C, x \in C, \A e \in E : e[1] \in S /\ e[2] \in S /\ (e[1] \in C <=> e[2] \in C)
  PROVE  y \in C
<1>1. PICK B : B = C \cap S
  OBVIOUS
<1>2. B \in SUBSET S /\ x \in B /\ \A e \in E : e[1] \in B <=> e[2] \in B
  BY <1>1
<1>3. y \in B
  BY <1>2 DEF Chained
<1> QED
  BY <1>1, <1>3

LEMMA TwoAre ==
  ASSUME NEW x, NEW y, x # y
  PROVE  IsFiniteSet({x, y}) /\ Cardinality({x, y}) = 2
<1>1. IsFiniteSet({x}) /\ Cardinality({x}) = 1
  BY FS_Singleton
<1>2. y \notin {x}
  OBVIOUS
<1>3. IsFiniteSet({x} \union {y}) /\ Cardinality({x} \union {y}) = Cardinality({x}) + 1
  BY <1>1, <1>2, FS_AddElement
<1>4. {x, y} = {x} \union {y}
  OBVIOUS
<1> QED
  BY <1>1, <1>3, <1>4

\* The numbers of the groups: one for each root that has enough files.
LEMMA NumberedIs ==
  ASSUME NEW S \in SUBSET Nat, IsFiniteSet(S), NEW root \in [S -> S], NEW least \in {1, 2}
  PROVE  /\ Numbered(root, least) \in [DOMAIN Numbered(root, least) -> Nat \ {0}]
         /\ DOMAIN Numbered(root, least) \subseteq S
         /\ \A x, y \in S : root[x] = root[y] /\ (x # y \/ least = 1) => x \in DOMAIN Numbered(root, least)
         /\ \A x, y \in DOMAIN Numbered(root, least) :
               Numbered(root, least)[x] = Numbered(root, least)[y] <=> root[x] = root[y]
<1>1. PICK roots : roots = {r \in Range(root) : Cardinality(Group(root, r)) >= least}
  OBVIOUS
<1>2. PICK dom : dom = {x \in S : root[x] \in roots}
  OBVIOUS
<1>3. PICK upto : upto = [x \in dom |-> {r \in roots : r <= root[x]}]
  OBVIOUS
<1>4. PICK num : num = Numbered(root, least)
  OBVIOUS
<1>5. num = [x \in dom |-> Cardinality(upto[x])]
  BY <1>1, <1>2, <1>3, <1>4 DEF Numbered
<1>6. IsFiniteSet(roots) /\ roots \subseteq S
  <2>1. roots \subseteq S
    BY <1>1 DEF Range
  <2> QED
    BY <2>1, FS_Subset
<1>7. \A x \in dom : IsFiniteSet(upto[x]) /\ root[x] \in upto[x]
  <2>1. ASSUME NEW x \in dom
        PROVE  upto[x] \subseteq roots /\ root[x] \in upto[x]
    <3>1. root[x] \in roots /\ root[x] \in Nat
      BY <1>2, <1>6
    <3> QED
      BY <1>3, <3>1
  <2> QED
    BY <1>6, <2>1, FS_Subset
<1>8. \A x \in dom : Cardinality(upto[x]) \in Nat \ {0}
  BY <1>7, FS_CardinalityType, FS_EmptySet
<1>9. ASSUME NEW x \in dom, NEW y \in dom, Cardinality(upto[x]) = Cardinality(upto[y])
      PROVE  root[x] = root[y]
  <2>1. ASSUME NEW a \in dom, NEW b \in dom, Cardinality(upto[a]) = Cardinality(upto[b]), root[a] <= root[b]
        PROVE  root[b] <= root[a]
    <3>1. root[a] \in Nat /\ root[b] \in Nat /\ roots \subseteq Nat
      BY <1>2, <1>6
    <3>2. upto[a] \subseteq upto[b]
      <4>1. upto[a] = {r \in roots : r <= root[a]} /\ upto[b] = {r \in roots : r <= root[b]}
        BY <1>3
      <4>2. \A r \in roots : r <= root[a] => r <= root[b]
        BY <2>1, <3>1
      <4> QED
        BY <4>1, <4>2
    <3>3. upto[a] = upto[b]
      BY <1>7, <2>1, <3>2, FS_Subset
    <3>4. root[b] \in upto[a]
      BY <1>7, <3>3
    <3> QED
      BY <1>3, <3>4
  <2>2. root[x] \in Nat /\ root[y] \in Nat
    BY <1>2, <1>6
  <2>3. root[x] <= root[y] => root[y] <= root[x]
    BY <1>9, <2>1
  <2>4. root[y] <= root[x] => root[x] <= root[y]
    BY <1>9, <2>1
  <2> QED
    BY <2>2, <2>3, <2>4
<1>10. ASSUME NEW x \in dom, NEW y \in dom, root[x] = root[y]
       PROVE  upto[x] = upto[y]
  BY <1>3, <1>10
<1>11. ASSUME NEW x \in S, NEW y \in S, root[x] = root[y], x # y \/ least = 1
       PROVE  x \in dom
  <2>1. PICK all : all = Group(root, root[x])
    OBVIOUS
  <2>2. x \in all /\ y \in all /\ all \subseteq S
    BY <1>11, <2>1 DEF Group
  <2>3. IsFiniteSet(all)
    BY <2>2, FS_Subset
  <2>4. Cardinality(all) >= least
    <3>1. CASE x # y
      <4>1. Cardinality({x, y}) = 2
        BY <3>1, TwoAre
      <4>2. Cardinality({x, y}) <= Cardinality(all)
        <5>1. {x, y} \subseteq all
          BY <2>2
        <5> QED
          BY <2>3, <5>1, FS_Subset
      <4> QED
        BY <2>3, <4>1, <4>2, FS_CardinalityType
    <3>2. CASE least = 1
      BY <2>2, <2>3, <3>2, FS_EmptySet, FS_CardinalityType
    <3> QED
      BY <1>11, <3>1, <3>2
  <2>5. root[x] \in roots
    BY <1>1, <2>1, <2>4 DEF Range
  <2> QED
    BY <1>2, <2>5
<1>12. /\ num \in [dom -> Nat \ {0}]
       /\ dom \subseteq S
       /\ \A x, y \in dom : num[x] = num[y] <=> root[x] = root[y]
  BY <1>2, <1>5, <1>8, <1>9, <1>10
<1> QED
  BY <1>4, <1>11, <1>12

-----------------------------------------------------------------------------
(* The incremental build of groups.                                         *)

\* What ties files together when the groups of root are folded into of.
Ties(root, of) ==
    {e \in (DOMAIN root) \X (DOMAIN root) : root[e[1]] = root[e[2]]}
      \union {e \in (DOMAIN of) \X (DOMAIN of) : of[e[1]] = of[e[2]]}

\* The state of the fold, once the roots in Q are folded in.
Absorbed(root, of, least, Q, s) ==
    /\ s.next \in Nat \ {0}
    /\ s.of \in [DOMAIN s.of -> 1..(s.next - 1)]
    /\ DOMAIN of \subseteq DOMAIN s.of
    /\ DOMAIN s.of \subseteq DOMAIN of \union DOMAIN root
    /\ \A f, g \in DOMAIN of : s.of[f] <= of[f] /\ (of[f] = of[g] => s.of[f] = s.of[g])
    /\ \A f \in DOMAIN s.of : \/ f \in DOMAIN of /\ s.of[f] = of[f]
                              \/ \E a \in DOMAIN root \cap DOMAIN s.of : s.of[f] = s.of[a]
    /\ \A f, g \in DOMAIN root :
          root[f] = root[g] /\ root[f] \in Q /\ (f # g \/ least = 1)
            => f \in DOMAIN s.of /\ g \in DOMAIN s.of /\ s.of[f] = s.of[g]
    /\ \A f, g \in DOMAIN s.of :
          s.of[f] = s.of[g] => Chained(DOMAIN of \union DOMAIN root, Ties(root, of), f, g)

LEMMA ChainedUp ==
  ASSUME NEW S, NEW E \in SUBSET (S \X S), NEW x \in S, NEW y \in S, NEW z \in S
  PROVE  /\ Chained(S, E, x, x)
         /\ Chained(S, E, x, y) /\ Chained(S, E, y, z) => Chained(S, E, x, z)
         /\ Chained(S, E, x, y) => Chained(S, E, y, x)
         /\ <<x, y>> \in E => Chained(S, E, x, y)
<1>1. Chained(S, E, x, x)
  BY DEF Chained
<1>2. Chained(S, E, x, y) /\ Chained(S, E, y, z) => Chained(S, E, x, z)
  BY DEF Chained
<1>3. ASSUME Chained(S, E, x, y), NEW C \in SUBSET S, y \in C, \A e \in E : e[1] \in C <=> e[2] \in C
      PROVE  x \in C
  <2>1. PICK B : B = S \ C
    OBVIOUS
  <2>2. B \in SUBSET S /\ \A e \in E : e[1] \in B <=> e[2] \in B
    BY <1>3, <2>1
  <2>3. x \in B => y \in B
    BY <1>3, <2>2 DEF Chained
  <2> QED
    BY <1>3, <2>1, <2>3
<1>4. ASSUME <<x, y>> \in E, NEW C \in SUBSET S, x \in C, \A e \in E : e[1] \in C <=> e[2] \in C
      PROVE  y \in C
  <2>1. <<x, y>>[1] \in C <=> <<x, y>>[2] \in C
    BY <1>4
  <2> QED
    BY <1>4, <2>1
<1>5. Chained(S, E, x, y) => Chained(S, E, y, x)
  BY <1>3 DEF Chained
<1>6. <<x, y>> \in E => Chained(S, E, x, y)
  BY <1>4 DEF Chained
<1> QED
  BY <1>1, <1>2, <1>5, <1>6

\* Folding in one more group keeps what the fold is about.
LEMMA JoinedKeeps ==
  ASSUME NEW root, NEW of, of \in [DOMAIN of -> Nat], NEW least \in {1, 2}, NEW Q, NEW r \in Range(root), NEW s,
         IsFiniteSet(DOMAIN root), IsFiniteSet(DOMAIN of), Absorbed(root, of, least, Q, s)
  PROVE  Absorbed(root, of, least, Q \union {r}, Joined(root, least, r, s))
<1>1. PICK T : T = DOMAIN of \union DOMAIN root
  OBVIOUS
<1>2. PICK D : D = DOMAIN s.of
  OBVIOUS
<1>3. PICK G : G = Group(root, r)
  OBVIOUS
<1>4. PICK ids : ids = {s.of[f] : f \in G \cap D}
  OBVIOUS
<1>5. PICK all : all = G \union {f \in D : s.of[f] \in ids}
  OBVIOUS
<1>6. PICK target : target = IF ids = {} THEN s.next ELSE Min(ids)
  OBVIOUS
<1>7. PICK t : t = Joined(root, least, r, s)
  OBVIOUS
<1>8. PICK E : E = Ties(root, of)
  OBVIOUS
<1>9. t = IF Cardinality(all) < least THEN s
          ELSE [of |-> [f \in D \union all |-> IF f \in all THEN target ELSE s.of[f]],
                next |-> IF ids = {} THEN s.next + 1 ELSE s.next]
  BY <1>2, <1>3, <1>4, <1>5, <1>6, <1>7 DEF Joined
<1>10. /\ s.next \in Nat \ {0} /\ s.of \in [D -> 1..(s.next - 1)]
       /\ DOMAIN of \subseteq D /\ D \subseteq T
       /\ \A f, g \in DOMAIN of : s.of[f] <= of[f] /\ (of[f] = of[g] => s.of[f] = s.of[g])
  BY <1>1, <1>2 DEF Absorbed
<1>11. G = {x \in DOMAIN root : root[x] = r} /\ G # {} /\ G \subseteq all /\ all \subseteq T /\ G \subseteq T
  BY <1>1, <1>3, <1>5, <1>10 DEF Group, Range
<1>12. IsFiniteSet(all) /\ Cardinality(all) \in Nat
  <2>1. IsFiniteSet(T)
    BY <1>1, FS_Union
  <2> QED
    BY <2>1, <1>11, FS_Subset, FS_CardinalityType
<1>13. \A f \in D : f \in all <=> s.of[f] \in ids
  BY <1>4, <1>5
<1>14. ids \subseteq 1..(s.next - 1) /\ (ids # {} => target \in ids /\ \A i \in ids : target <= i)
  <2>1. ids \subseteq 1..(s.next - 1)
    BY <1>4, <1>10
  <2>2. ids \in SUBSET Nat
    BY <1>10, <2>1
  <2> QED
    BY <1>6, <2>1, <2>2, MinIs
<1>15. E \in SUBSET (T \X T)
  BY <1>1, <1>8 DEF Ties
<1>16. \A f, g \in D : s.of[f] = s.of[g] => Chained(T, E, f, g)
  BY <1>1, <1>2, <1>8 DEF Absorbed
<1>17. \A f \in D : \/ f \in DOMAIN of /\ s.of[f] = of[f]
                    \/ \E a \in DOMAIN root \cap D : s.of[f] = s.of[a]
  BY <1>2 DEF Absorbed
<1>18. \A f, g \in DOMAIN root :
          root[f] = root[g] /\ root[f] \in Q /\ (f # g \/ least = 1) => f \in D /\ g \in D /\ s.of[f] = s.of[g]
  BY <1>2 DEF Absorbed
<1>19. CASE Cardinality(all) < least
  <2>1. t = s
    BY <1>9, <1>19
  <2>2. ASSUME NEW f \in G, NEW g \in G, f # g \/ least = 1
        PROVE  FALSE
    <3>1. CASE f # g
      <4>1. Cardinality({f, g}) = 2
        BY <3>1, TwoAre
      <4>2. {f, g} \subseteq all
        BY <1>11
      <4>3. Cardinality({f, g}) <= Cardinality(all)
        BY <1>12, <4>2, FS_Subset
      <4> QED
        BY <1>12, <1>19, <4>1, <4>3
    <3>2. CASE least = 1
      <4>1. all # {}
        BY <1>11
      <4>2. Cardinality(all) # 0
        BY <1>12, <4>1, FS_EmptySet
      <4> QED
        BY <1>12, <1>19, <3>2, <4>2
    <3> QED
      BY <2>2, <3>1, <3>2
  <2>3. ASSUME NEW f \in DOMAIN root, NEW g \in DOMAIN root,
               root[f] = root[g], root[f] \in Q \union {r}, f # g \/ least = 1
        PROVE  f \in DOMAIN s.of /\ g \in DOMAIN s.of /\ s.of[f] = s.of[g]
    <3>1. CASE root[f] \in Q
      BY <1>2, <1>18, <2>3, <3>1
    <3>2. CASE root[f] = r
      <4>1. f \in G /\ g \in G
        BY <1>11, <2>3, <3>2
      <4> QED
        BY <2>2, <2>3, <4>1
    <3> QED
      BY <2>3, <3>1, <3>2
  <2> QED
    BY <1>7, <2>1, <2>3 DEF Absorbed
<1>20. CASE ~(Cardinality(all) < least)
  <2>1. t.of = [f \in D \union all |-> IF f \in all THEN target ELSE s.of[f]]
    BY <1>9, <1>20
  <2>2. t.next = IF ids = {} THEN s.next + 1 ELSE s.next
    BY <1>9, <1>20
  <2>3. /\ DOMAIN t.of = D \union all
        /\ \A f \in all : t.of[f] = target
        /\ \A f \in D \ all : t.of[f] = s.of[f]
    BY <2>1
  <2>4. t.next \in Nat \ {0} /\ target \in 1..(t.next - 1) /\ 1..(s.next - 1) \subseteq 1..(t.next - 1)
    <3>1. CASE ids = {}
      BY <1>6, <1>10, <2>2, <3>1
    <3>2. CASE ids # {}
      BY <1>10, <1>14, <2>2, <3>2
    <3> QED
      BY <3>1, <3>2
  <2>5. t.of \in [DOMAIN t.of -> 1..(t.next - 1)]
    BY <1>10, <2>1, <2>4
  <2>6. DOMAIN of \subseteq DOMAIN t.of /\ DOMAIN t.of \subseteq T
    BY <1>10, <1>11, <2>3
  <2>7. \A f, g \in D : s.of[f] = s.of[g] => t.of[f] = t.of[g]
    BY <1>13, <2>3
  <2>8. \A f \in D : t.of[f] <= s.of[f]
    <3>1. ASSUME NEW f \in D
          PROVE  t.of[f] <= s.of[f]
      <4>1. s.of[f] \in Nat
        BY <1>10
      <4>2. CASE f \in all
        BY <1>13, <1>14, <2>3, <4>2
      <4>3. CASE f \notin all
        BY <2>3, <4>1, <4>3
      <4> QED
        BY <4>2, <4>3
    <3> QED
      BY <3>1
  <2>9. ASSUME NEW f \in DOMAIN of, NEW g \in DOMAIN of
        PROVE  t.of[f] <= of[f] /\ (of[f] = of[g] => t.of[f] = t.of[g])
    <3>1. f \in D /\ g \in D
      BY <1>10
    <3>2. of[f] = of[g] => t.of[f] = t.of[g]
      BY <1>10, <2>7, <3>1
    <3>3. t.of[f] <= s.of[f] /\ s.of[f] <= of[f]
      BY <1>10, <2>8, <3>1
    <3>4. of[f] \in Nat /\ s.of[f] \in Nat /\ t.of[f] \in Nat
      BY <1>10, <2>4, <2>5, <2>6, <3>1
    <3> QED
      BY <3>2, <3>3, <3>4
  <2>10. ASSUME NEW f \in DOMAIN t.of
         PROVE  \/ f \in DOMAIN of /\ t.of[f] = of[f]
                \/ \E a \in DOMAIN root \cap DOMAIN t.of : t.of[f] = t.of[a]
    <3>1. CASE f \in all
      <4>1. PICK a \in G : TRUE
        BY <1>11
      <4>2. a \in DOMAIN root \cap DOMAIN t.of /\ t.of[f] = t.of[a]
        BY <1>11, <2>3, <3>1
      <4> QED
        BY <4>2
    <3>2. CASE f \notin all
      <4>1. f \in D /\ t.of[f] = s.of[f]
        BY <2>3, <3>2
      <4>2. CASE f \in DOMAIN of /\ s.of[f] = of[f]
        BY <4>1, <4>2
      <4>3. CASE \E a \in DOMAIN root \cap D : s.of[f] = s.of[a]
        <5>1. PICK a \in DOMAIN root \cap D : s.of[f] = s.of[a]
          BY <4>3
        <5>2. a \in DOMAIN t.of /\ t.of[f] = t.of[a]
          BY <2>3, <2>7, <4>1, <5>1
        <5> QED
          BY <5>1, <5>2
      <4> QED
        BY <1>17, <4>1, <4>2, <4>3
    <3> QED
      BY <3>1, <3>2
  <2>11. ASSUME NEW f \in DOMAIN root, NEW g \in DOMAIN root,
                root[f] = root[g], root[f] \in Q \union {r}, f # g \/ least = 1
         PROVE  f \in DOMAIN t.of /\ g \in DOMAIN t.of /\ t.of[f] = t.of[g]
    <3>1. CASE root[f] \in Q
      <4>1. f \in D /\ g \in D /\ s.of[f] = s.of[g]
        BY <1>18, <2>11, <3>1
      <4> QED
        BY <2>3, <2>7, <4>1
    <3>2. CASE root[f] = r
      <4>1. f \in all /\ g \in all
        BY <1>11, <2>11, <3>2
      <4> QED
        BY <2>3, <4>1
    <3> QED
      BY <2>11, <3>1, <3>2
  <2>12. \A f, g \in G : Chained(T, E, f, g)
    <3>1. ASSUME NEW f \in G, NEW g \in G
          PROVE  Chained(T, E, f, g)
      <4>1. <<f, g>> \in E
        BY <1>8, <1>11 DEF Ties
      <4>2. f \in T /\ g \in T
        BY <1>11
      <4> QED
        BY <1>15, <4>1, <4>2, ChainedUp
    <3> QED
      BY <3>1
  <2>13. \A f \in all : \E a \in G : Chained(T, E, f, a)
    <3>1. ASSUME NEW f \in all
          PROVE  \E a \in G : Chained(T, E, f, a)
      <4>1. CASE f \in G
        BY <2>12, <4>1
      <4>2. CASE f \notin G
        <5>1. f \in D /\ s.of[f] \in ids
          BY <1>5, <4>2
        <5>2. PICK a \in G \cap D : s.of[f] = s.of[a]
          BY <1>4, <5>1
        <5> QED
          BY <1>16, <5>1, <5>2
      <4> QED
        BY <4>1, <4>2
    <3> QED
      BY <3>1
  <2>14. ASSUME NEW f \in DOMAIN t.of, NEW g \in DOMAIN t.of, t.of[f] = t.of[g]
         PROVE  Chained(T, E, f, g)
    <3>1. ASSUME NEW x \in all, NEW y \in D \ all
          PROVE  t.of[x] # t.of[y]
      <4>1. t.of[x] = target /\ t.of[y] = s.of[y] /\ s.of[y] \in 1..(s.next - 1) /\ s.of[y] \notin ids
        BY <1>10, <1>13, <2>3
      <4>2. CASE ids = {}
        BY <1>6, <1>10, <4>1, <4>2
      <4>3. CASE ids # {}
        BY <1>14, <4>1, <4>3
      <4> QED
        BY <4>2, <4>3
    <3>2. CASE f \in all /\ g \in all
      <4>1. PICK a \in G : Chained(T, E, f, a)
        BY <2>13, <3>2
      <4>2. PICK b \in G : Chained(T, E, g, b)
        BY <2>13, <3>2
      <4>3. f \in T /\ g \in T /\ a \in T /\ b \in T
        BY <1>11, <3>2
      <4>4. Chained(T, E, a, b) /\ Chained(T, E, b, g)
        BY <1>15, <2>12, <4>2, <4>3, ChainedUp
      <4>5. Chained(T, E, f, b)
        BY <1>15, <4>1, <4>3, <4>4, ChainedUp
      <4> QED
        BY <1>15, <4>3, <4>4, <4>5, ChainedUp
    <3>3. CASE f \notin all /\ g \notin all
      BY <1>16, <2>3, <2>14, <3>3
    <3>4. CASE f \in all /\ g \notin all
      BY <2>3, <2>14, <3>1, <3>4
    <3>5. CASE f \notin all /\ g \in all
      BY <2>3, <2>14, <3>1, <3>5
    <3> QED
      BY <3>2, <3>3, <3>4, <3>5
  <2> QED
    <3>1. /\ t.next \in Nat \ {0}
          /\ t.of \in [DOMAIN t.of -> 1..(t.next - 1)]
          /\ DOMAIN of \subseteq DOMAIN t.of
          /\ DOMAIN t.of \subseteq DOMAIN of \union DOMAIN root
      BY <1>1, <2>4, <2>5, <2>6
    <3>2. \A f, g \in DOMAIN of : t.of[f] <= of[f] /\ (of[f] = of[g] => t.of[f] = t.of[g])
      BY <2>9
    <3>3. \A f \in DOMAIN t.of :
             \/ f \in DOMAIN of /\ t.of[f] = of[f]
             \/ \E a \in DOMAIN root \cap DOMAIN t.of : t.of[f] = t.of[a]
      BY <2>10
    <3>4. \A f, g \in DOMAIN root :
             root[f] = root[g] /\ root[f] \in Q \union {r} /\ (f # g \/ least = 1)
               => f \in DOMAIN t.of /\ g \in DOMAIN t.of /\ t.of[f] = t.of[g]
      BY <2>11
    <3>5. \A f, g \in DOMAIN t.of :
             t.of[f] = t.of[g] => Chained(DOMAIN of \union DOMAIN root, Ties(root, of), f, g)
      BY <1>1, <1>8, <2>14
    <3>6. Absorbed(root, of, least, Q \union {r}, t)
      BY <3>1, <3>2, <3>3, <3>4, <3>5 DEF Absorbed
    <3> QED
      BY <1>7, <3>6
<1> QED
  BY <1>19, <1>20

LEMMA RangeFinite ==
  ASSUME NEW f, f \in [DOMAIN f -> Range(f)], IsFiniteSet(DOMAIN f)
  PROVE  IsFiniteSet(Range(f))
<1>1. f \in Surjection(DOMAIN f, Range(f))
  BY DEF Surjection, Range
<1> QED
  BY <1>1, FS_Surjection

\* Before the first group is folded in.
LEMMA FirstAre ==
  ASSUME NEW root, NEW of, of \in [DOMAIN of -> Nat \ {0}], IsFiniteSet(DOMAIN of), NEW least
  PROVE  Absorbed(root, of, least, {}, First(of))
<1>1. PICK s : s = First(of)
  OBVIOUS
<1>2. s.of = of /\ s.next = IF DOMAIN of = {} THEN 1 ELSE Max(Range(of)) + 1
  BY <1>1 DEF First
<1>3. s.next \in Nat \ {0} /\ of \in [DOMAIN of -> 1..(s.next - 1)]
  <2>1. CASE DOMAIN of = {}
    BY <1>2, <2>1
  <2>2. CASE DOMAIN of # {}
    <3>1. Range(of) \in SUBSET Nat /\ Range(of) # {}
      BY <2>2 DEF Range
    <3>2. IsFiniteSet(Range(of))
      <4>1. of \in [DOMAIN of -> Range(of)]
        BY DEF Range
      <4> QED
        BY <4>1, RangeFinite
    <3>3. Max(Range(of)) \in Nat /\ \A y \in Range(of) : y <= Max(Range(of))
      BY <3>1, <3>2, MaxIs
    <3>4. \A x \in DOMAIN of : of[x] \in Nat \ {0} /\ of[x] <= Max(Range(of))
      BY <3>3 DEF Range
    <3>5. s.next = Max(Range(of)) + 1
      BY <1>2, <2>2
    <3>6. \A x \in DOMAIN of : of[x] \in 1..(s.next - 1)
      BY <3>3, <3>4, <3>5
    <3> QED
      BY <3>3, <3>5, <3>6
  <2> QED
    BY <2>1, <2>2
<1>4. ASSUME NEW f \in DOMAIN of, NEW g \in DOMAIN of, of[f] = of[g]
      PROVE  Chained(DOMAIN of \union DOMAIN root, Ties(root, of), f, g)
  <2>1. PICK T : T = DOMAIN of \union DOMAIN root
    OBVIOUS
  <2>2. PICK E : E = Ties(root, of)
    OBVIOUS
  <2>3. E \in SUBSET (T \X T) /\ <<f, g>> \in E /\ f \in T /\ g \in T
    BY <1>4, <2>1, <2>2 DEF Ties
  <2>4. Chained(T, E, f, g)
    BY <2>3, ChainedUp
  <2> QED
    BY <2>1, <2>2, <2>4
<1>5. /\ s.next \in Nat \ {0}
      /\ s.of \in [DOMAIN s.of -> 1..(s.next - 1)]
      /\ DOMAIN of \subseteq DOMAIN s.of
      /\ DOMAIN s.of \subseteq DOMAIN of \union DOMAIN root
  BY <1>2, <1>3
<1>6. /\ \A f, g \in DOMAIN of : s.of[f] <= of[f] /\ (of[f] = of[g] => s.of[f] = s.of[g])
      /\ \A f \in DOMAIN s.of : f \in DOMAIN of /\ s.of[f] = of[f]
  BY <1>2
<1>7. \A f, g \in DOMAIN s.of :
        s.of[f] = s.of[g] => Chained(DOMAIN of \union DOMAIN root, Ties(root, of), f, g)
  BY <1>2, <1>4
<1>8. Absorbed(root, of, least, {}, s)
  BY <1>5, <1>6, <1>7 DEF Absorbed
<1> QED
  BY <1>1, <1>8

\* The values a fold of groups goes through.
Folded(T) == [of : UNION {[D -> Nat] : D \in SUBSET T}, next : Nat]

LEMMA JoinedIs ==
  ASSUME NEW root, NEW T, DOMAIN root \subseteq T, NEW least \in {1, 2}, NEW r \in Range(root), NEW s \in Folded(T)
  PROVE  Joined(root, least, r, s) \in Folded(T)
<1>1. PICK D \in SUBSET T : s.of \in [D -> Nat] /\ s.next \in Nat
  BY DEF Folded
<1>2. PICK G : G = Group(root, r)
  OBVIOUS
<1>3. PICK ids : ids = {s.of[f] : f \in G \cap D}
  OBVIOUS
<1>4. PICK all : all = G \union {f \in D : s.of[f] \in ids}
  OBVIOUS
<1>5. PICK target : target = IF ids = {} THEN s.next ELSE Min(ids)
  OBVIOUS
<1>6. PICK of : of = [f \in D \union all |-> IF f \in all THEN target ELSE s.of[f]]
  OBVIOUS
<1>7. PICK next : next = IF ids = {} THEN s.next + 1 ELSE s.next
  OBVIOUS
<1>8. Joined(root, least, r, s) = IF Cardinality(all) < least THEN s ELSE [of |-> of, next |-> next]
  <2>1. DOMAIN s.of = D
    BY <1>1
  <2> QED
    BY <1>2, <1>3, <1>4, <1>5, <1>6, <1>7, <2>1 DEF Joined
<1>9. target \in Nat /\ next \in Nat
  <2>1. ids \in SUBSET Nat
    BY <1>1, <1>3
  <2>2. ids # {} => Min(ids) \in Nat
    BY <2>1, MinIs
  <2> QED
    BY <1>1, <1>5, <1>7, <2>2
<1>10. D \union all \in SUBSET T
  BY <1>1, <1>2, <1>4 DEF Group
<1>11. of \in [D \union all -> Nat]
  BY <1>1, <1>6, <1>9
<1>12. [of |-> of, next |-> next] \in Folded(T)
  BY <1>9, <1>10, <1>11 DEF Folded
<1> QED
  BY <1>8, <1>12

\* The fold of all groups, the lowest root first.
LEMMA AbsorbIs ==
  ASSUME NEW root, root \in [DOMAIN root -> Range(root)], IsFiniteSet(DOMAIN root), Range(root) \in SUBSET Nat,
         NEW of, of \in [DOMAIN of -> Nat \ {0}], IsFiniteSet(DOMAIN of), NEW least \in {1, 2}
  PROVE  \E s : Absorbed(root, of, least, Range(root), s) /\ Absorb(root, of, least) = s.of
<1>1. PICK T : T = DOMAIN of \union DOMAIN root
  OBVIOUS
<1>2. PICK R : R = Range(root)
  OBVIOUS
<1>3. PICK V : V = Folded(T)
  OBVIOUS
<1>4. PICK base : base = First(of)
  OBVIOUS
<1>5. PICK ch : ch = [q \in SUBSET R |-> Max(q)]
  OBVIOUS
<1>6. PICK op : op = [p \in R \X V |-> Joined(root, least, p[1], p[2])]
  OBVIOUS
<1>7. IsFiniteSet(R) /\ R \in SUBSET Nat
  BY <1>2, RangeFinite
<1>8. ASSUME NEW q \in SUBSET R, q # {}
      PROVE  ch[q] \in q /\ ch[q] = Max(q)
  <2>1. IsFiniteSet(q) /\ q \in SUBSET Nat
    BY <1>7, FS_Subset
  <2>2. Max(q) \in q
    BY <1>8, <2>1, MaxIs
  <2> QED
    BY <1>5, <2>2
<1>9. \A r \in R, v \in V : op[<<r, v>>] = Joined(root, least, r, v) /\ Joined(root, least, r, v) \in V
  <2>1. ASSUME NEW r \in R, NEW v \in V
        PROVE  Joined(root, least, r, v) \in V
    <3>1. r \in Range(root) /\ v \in Folded(T) /\ DOMAIN root \subseteq T
      BY <1>1, <1>2, <1>3
    <3>2. Joined(root, least, r, v) \in Folded(T)
      BY <3>1, JoinedIs
    <3> QED
      BY <1>3, <3>2
  <2> QED
    BY <1>6, <2>1
<1>10. Absorbed(root, of, least, {}, base)
  BY <1>4, FirstAre
<1>11. base \in V
  <2>1. base = [of |-> of, next |-> base.next] /\ base.next \in Nat
    BY <1>4, <1>10 DEF First, Absorbed
  <2>2. of \in [DOMAIN of -> Nat] /\ DOMAIN of \in SUBSET T
    BY <1>1
  <2>3. of \in UNION {[D -> Nat] : D \in SUBSET T}
    BY <2>2
  <2> QED
    BY <1>3, <2>1, <2>3 DEF Folded
<1>12. Folds(R, ch, V, base, op)
  <2>1. op \in [R \X V -> V]
    BY <1>6, <1>9
  <2> QED
    BY <1>7, <1>8, <1>11, <2>1 DEF Folds
<1>13. PICK g \in [SUBSET R -> V] : FoldsTo(R, g, ch, base, op)
  BY <1>12, FoldExists
<1>14. g = [q \in SUBSET R |-> IF q = {} THEN First(of) ELSE Joined(root, least, Max(q), g[q \ {Max(q)}])]
  <2>1. ASSUME NEW q \in SUBSET R
        PROVE  g[q] = IF q = {} THEN First(of) ELSE Joined(root, least, Max(q), g[q \ {Max(q)}])
    <3>1. CASE q = {}
      BY <1>4, <1>13, <3>1 DEF FoldsTo
    <3>2. CASE q # {}
      <4>1. PICK r : r = ch[q]
        OBVIOUS
      <4>2. r \in q /\ r \in R /\ r = Max(q)
        BY <1>8, <3>2, <4>1
      <4>3. g[q \ {r}] \in V /\ g[q] = op[<<r, g[q \ {r}]>>]
        BY <1>13, <3>2, <4>1 DEF FoldsTo
      <4> QED
        BY <1>9, <3>2, <4>2, <4>3
    <3> QED
      BY <3>1, <3>2
  <2> QED
    BY <1>13, <2>1
<1>15. PICK h : /\ h = [q \in SUBSET R |-> IF q = {} THEN First(of)
                                           ELSE Joined(root, least, Max(q), h[q \ {Max(q)}])]
                /\ Absorb(root, of, least) = h[R].of
  BY <1>2, <1>14 DEF Absorb, MapThenFoldSet
<1>16. h[R] = g[R]
  <2>1. PICK P : P = {q \in SUBSET R : h[q] = g[q]}
    OBVIOUS
  <2>2. ASSUME NEW q \in SUBSET R, \A p \in (SUBSET q) \ {q} : p \in P
        PROVE  q \in P
    <3>1. CASE q = {}
      BY <1>14, <1>15, <2>1, <3>1
    <3>2. CASE q # {}
      <4>1. PICK p : p = q \ {Max(q)}
        OBVIOUS
      <4>2. p \in (SUBSET q) \ {q}
        BY <1>8, <3>2, <4>1
      <4>3. h[p] = g[p]
        BY <2>1, <2>2, <4>2
      <4>4. g[q] = Joined(root, least, Max(q), g[p])
        BY <1>14, <3>2, <4>1
      <4>5. h[q] = Joined(root, least, Max(q), h[p])
        BY <1>15, <3>2, <4>1
      <4> QED
        BY <2>1, <4>3, <4>4, <4>5
    <3> QED
      BY <3>1, <3>2
  <2>4. SUBSET R \subseteq P
    <3>1. IsFiniteSet(R)
      BY <1>7
    <3>2. Climbs(R, P)
      BY <2>2 DEF Climbs
    <3> QED
      BY <3>1, <3>2, BySubsets
  <2> QED
    BY <2>1, <2>4
<1>17. PICK P : P = {p \in (SUBSET R) \X V : Absorbed(root, of, least, p[1], p[2])}
  OBVIOUS
<1>18. <<{}, base>> \in P
  BY <1>10, <1>11, <1>17
<1>19. ASSUME NEW q \in SUBSET R, NEW v \in V, q # {}, <<q \ {ch[q]}, v>> \in P
       PROVE  <<q, op[<<ch[q], v>>]>> \in P
  <2>1. PICK r : r = ch[q]
    OBVIOUS
  <2>2. r \in q /\ r \in R /\ Absorbed(root, of, least, q \ {r}, v)
    BY <1>8, <1>17, <1>19, <2>1
  <2>3. r \in Range(root) /\ of \in [DOMAIN of -> Nat]
    BY <1>2, <2>2
  <2>4. Absorbed(root, of, least, (q \ {r}) \union {r}, Joined(root, least, r, v))
    BY <2>2, <2>3, JoinedKeeps
  <2>5. (q \ {r}) \union {r} = q
    BY <2>2
  <2>6. op[<<r, v>>] = Joined(root, least, r, v) /\ Joined(root, least, r, v) \in V
    BY <1>9, <2>2
  <2> QED
    BY <1>17, <2>1, <2>4, <2>5, <2>6
<1>20. \A q \in SUBSET R : g[q] \in V /\ <<q, g[q]>> \in P
  <2>1. Keeps(R, ch, V, base, op, P)
    BY <1>18, <1>19 DEF Keeps
  <2>2. FoldsTo(R, g, ch, base, op)
    BY <1>13
  <2> QED
    BY <1>12, <2>1, <2>2, FoldKeeps
<1>21. Absorbed(root, of, least, R, g[R])
  BY <1>17, <1>20
<1> QED
  BY <1>2, <1>15, <1>16, <1>21

-----------------------------------------------------------------------------
(* Dates.                                                                   *)

Sources == {"null", "exif", "filename", "mtime", "none"}

\* A date is a reading of its rung.
DatesInv ==
    /\ corpus \in Worlds /\ origins \subseteq Path
    /\ taken \in [File -> [at : Nat, src : Sources]]
    /\ \A f \in File :
         /\ taken[f].src \in {"null", "none"} => taken[f].at = 0
         /\ taken[f].src = "filename" => taken[f].at \in NamedDates(f)
         /\ taken[f].src = "mtime" => taken[f].at \in Mtimes(f)

LEMMA ReadingsAreNat ==
  ASSUME corpus \in Worlds, origins \subseteq Path, NEW f \in File
  PROVE  NamedDates(f) \in SUBSET Nat /\ Mtimes(f) \in SUBSET Nat
<1>1. \A o \in Path : corpus.path[o].named \in Nat /\ corpus.path[o].mtime \in Nat
  BY GroupingAssumption
<1>2. \A p \in NamesOf(f) : p.named \in Nat /\ p.mtime \in Nat
  BY <1>1 DEF NamesOf
<1> QED
  BY <1>2 DEF NamedDates, Mtimes

\* What a resolved date is.
LEMMA ResolvedIs ==
  ASSUME DatesInv, NEW f \in File
  PROVE  /\ Resolved(f) \in [at : Nat, src : Sources]
         /\ taken[f].src = "exif" => Resolved(f) = taken[f]
         /\ Resolved(f).src # "null" \/ taken[f].src = "exif"
         /\ Resolved(f).src = "none" => Resolved(f).at = 0
         /\ Resolved(f).src = "filename" =>
              Resolved(f).at \in NamedDates(f) /\ \A d \in NamedDates(f) : Resolved(f).at <= d
         /\ Resolved(f).src = "mtime" =>
              Resolved(f).at \in Mtimes(f) /\ (\A d \in Mtimes(f) : Resolved(f).at <= d)
         /\ Resolved(f).src \in {"mtime", "none"} => NamedDates(f) = {}
         /\ Resolved(f).src = "none" => Mtimes(f) = {} \/ Masked(f)
<1>1. NamedDates(f) \in SUBSET Nat /\ Mtimes(f) \in SUBSET Nat
  BY ReadingsAreNat DEF DatesInv
<1>2. corpus.file[f].recovered \in Nat
  BY GroupingAssumption DEF DatesInv
<1>3. taken[f] \in [at : Nat, src : Sources]
  BY DEF DatesInv
<1>4. CASE taken[f].src = "exif"
  BY <1>3, <1>4 DEF Resolved
<1>5. CASE taken[f].src # "exif" /\ corpus.file[f].recovered # 0
  BY <1>2, <1>5 DEF Resolved, Sources
<1>6. CASE taken[f].src # "exif" /\ corpus.file[f].recovered = 0 /\ NamedDates(f) # {}
  <2>1. Resolved(f) = [at |-> Min(NamedDates(f)), src |-> "filename"]
    BY <1>6 DEF Resolved, Earliest
  <2>2. Min(NamedDates(f)) \in NamedDates(f) /\ \A d \in NamedDates(f) : Min(NamedDates(f)) <= d
    BY <1>1, <1>6, MinIs
  <2> QED
    BY <1>1, <1>6, <2>1, <2>2 DEF Sources
<1>7. CASE taken[f].src # "exif" /\ corpus.file[f].recovered = 0 /\ NamedDates(f) = {} /\ Mtimes(f) # {}
  <2>1. Min(Mtimes(f)) \in Mtimes(f) /\ \A d \in Mtimes(f) : Min(Mtimes(f)) <= d
    BY <1>1, <1>7, MinIs
  <2>2. CASE Plausible(Min(Mtimes(f)))
    <3>1. Resolved(f) = [at |-> Min(Mtimes(f)), src |-> "mtime"]
      BY <1>7, <2>2 DEF Resolved, Earliest
    <3> QED
      BY <1>1, <1>7, <2>1, <3>1 DEF Sources
  <2>3. CASE ~Plausible(Min(Mtimes(f)))
    <3>1. Resolved(f) = [at |-> 0, src |-> "none"]
      BY <1>7, <2>3 DEF Resolved, Earliest
    <3>2. Masked(f)
      BY <2>1, <2>3 DEF Masked
    <3> QED
      BY <1>7, <3>1, <3>2 DEF Sources
  <2> QED
    BY <2>2, <2>3
<1>8. CASE taken[f].src # "exif" /\ corpus.file[f].recovered = 0 /\ NamedDates(f) = {} /\ Mtimes(f) = {}
  <2>1. Resolved(f) = [at |-> 0, src |-> "none"]
    BY <1>8 DEF Resolved
  <2> QED
    BY <1>8, <2>1 DEF Sources
<1> QED
  BY <1>4, <1>5, <1>6, <1>7, <1>8

LEMMA DatesInit == GroupingInit => DatesInv
<1> SUFFICES ASSUME GroupingInit PROVE DatesInv
  OBVIOUS
<1>1. corpus \in Worlds /\ origins \subseteq Path
  BY GroupingAssumption DEF GroupingInit
<1>2. \A f \in File : corpus.file[f].exif \in Nat
  BY <1>1, GroupingAssumption
<1>3. \A f \in File : taken[f] = IF corpus.file[f].exif = 0 THEN [at |-> 0, src |-> "null"]
                                 ELSE [at |-> corpus.file[f].exif, src |-> "exif"]
  BY DEF GroupingInit
<1>4. taken \in [File -> [at : Nat, src : Sources]]
  BY <1>2 DEF GroupingInit, Sources
<1>5. \A f \in File : taken[f].src \in {"null", "exif"} /\ (taken[f].src = "null" => taken[f].at = 0)
  <2>1. ASSUME NEW f \in File
        PROVE  taken[f].src \in {"null", "exif"} /\ (taken[f].src = "null" => taken[f].at = 0)
    <3>1. CASE corpus.file[f].exif = 0
      <4>1. taken[f] = [at |-> 0, src |-> "null"]
        BY <1>3, <3>1
      <4> QED
        BY <4>1
    <3>2. CASE corpus.file[f].exif # 0
      <4>1. taken[f] = [at |-> corpus.file[f].exif, src |-> "exif"]
        BY <1>3, <3>2
      <4> QED
        BY <4>1
    <3> QED
      BY <3>1, <3>2
  <2> QED
    BY <2>1
<1> QED
  BY <1>1, <1>4, <1>5 DEF DatesInv

LEMMA DatesNext == DatesInv /\ [GroupingNext]_groupingVars => DatesInv'
<1> SUFFICES ASSUME DatesInv, [GroupingNext]_groupingVars PROVE DatesInv'
  OBVIOUS
<1>1. CASE UNCHANGED <<origins, taken, corpus>>
  BY <1>1 DEF DatesInv, NamedDates, Mtimes, NamesOf
<1>2. ASSUME NEW o \in Path, Find(o)
      PROVE  DatesInv'
  <2>1. corpus' = corpus /\ taken' = taken /\ origins' = origins \union {o}
    BY <1>2 DEF Find, Edit
  <2>2. \A f \in File : NamesOf(f) \subseteq NamesOf(f)'
    BY <2>1 DEF NamesOf
  <2>3. \A f \in File : NamedDates(f) \subseteq NamedDates(f)' /\ Mtimes(f) \subseteq Mtimes(f)'
    BY <2>2 DEF NamedDates, Mtimes
  <2> QED
    BY <2>1, <2>3 DEF DatesInv
<1>3. CASE ResolveDates
  <2>1. corpus' = corpus /\ origins' = origins /\ taken' = [f \in File |-> Resolved(f)]
    BY <1>3 DEF ResolveDates
  <2>2. \A f \in File : NamedDates(f)' = NamedDates(f) /\ Mtimes(f)' = Mtimes(f)
    BY <2>1 DEF NamedDates, Mtimes, NamesOf
  <2>3. ASSUME NEW f \in File
        PROVE  /\ taken'[f] \in [at : Nat, src : Sources]
               /\ taken'[f].src \in {"null", "none"} => taken'[f].at = 0
               /\ taken'[f].src = "filename" => taken'[f].at \in NamedDates(f)
               /\ taken'[f].src = "mtime" => taken'[f].at \in Mtimes(f)
    <3>1. taken'[f] = Resolved(f)
      BY <2>1
    <3>2. Resolved(f).src = "null" => FALSE
      BY ResolvedIs
    <3> QED
      BY <3>1, <3>2, ResolvedIs
  <2> QED
    BY <2>1, <2>2, <2>3 DEF DatesInv
<1>4. ASSUME NEW f \in File, Publish(f) \/ Condemn(f) \/ Clear(f)
      PROVE  UNCHANGED <<origins, taken, corpus>>
  BY <1>4 DEF Publish, Condemn, Clear, Edit
<1>5. Rebuild => UNCHANGED <<origins, taken, corpus>>
  BY DEF Rebuild, inputs
<1>6. ASSUME NEW batch \in SUBSET File, Extend(batch)
      PROVE  UNCHANGED <<origins, taken, corpus>>
  BY <1>6 DEF Extend, inputs
<1>7. UNCHANGED groupingVars => UNCHANGED <<origins, taken, corpus>>
  BY DEF groupingVars, inputs
<1> QED
  BY <1>1, <1>2, <1>3, <1>4, <1>5, <1>6, <1>7 DEF GroupingNext

\* What is learnt only moves a date up the chain (capture_time.py:27).
LEMMA DatesStep == DatesInv /\ [GroupingNext]_groupingVars =>
  \A f \in File :
    \/ Rung(taken'[f].src) > Rung(taken[f].src)
    \/ taken'[f].src = taken[f].src /\ taken'[f].at <= taken[f].at
    \/ Rung(taken[f].src) <= 1 /\ taken'[f].at = 0 /\ (taken[f].at = 0 \/ Masked(f))
<1> SUFFICES ASSUME DatesInv, [GroupingNext]_groupingVars, NEW f \in File
             PROVE  \/ Rung(taken'[f].src) > Rung(taken[f].src)
                    \/ taken'[f].src = taken[f].src /\ taken'[f].at <= taken[f].at
                    \/ Rung(taken[f].src) <= 1 /\ taken'[f].at = 0 /\ (taken[f].at = 0 \/ Masked(f))
  OBVIOUS
<1>1. taken[f].at \in Nat /\ taken[f].src \in Sources
  BY DEF DatesInv
<1>2. CASE taken' = taken
  BY <1>1, <1>2
<1>3. CASE ResolveDates
  <2>1. taken'[f] = Resolved(f)
    BY <1>3 DEF ResolveDates
  <2>2. PICK new : new = Resolved(f)
    OBVIOUS
  <2>3. new.src \in Sources /\ new.at \in Nat
    BY <2>2, ResolvedIs
  <2>4. CASE taken[f].src = "exif"
    BY <1>1, <2>1, <2>4, ResolvedIs
  <2>5. CASE taken[f].src # "exif" /\ new.src = "exif"
    BY <1>1, <2>1, <2>2, <2>5 DEF Rung, Sources
  <2>6. CASE taken[f].src # "exif" /\ new.src = "filename"
    <3>1. CASE taken[f].src = "filename"
      <4>1. taken[f].at \in NamedDates(f)
        BY <3>1 DEF DatesInv
      <4>2. new.at <= taken[f].at
        BY <2>2, <2>6, <4>1, ResolvedIs
      <4> QED
        BY <2>1, <2>2, <2>6, <3>1, <4>2
    <3>2. CASE taken[f].src # "filename"
      BY <1>1, <2>1, <2>2, <2>6, <3>2 DEF Rung, Sources
    <3> QED
      BY <3>1, <3>2
  <2>7. ASSUME taken[f].src # "exif", new.src \in {"mtime", "none"}
        PROVE  taken[f].src # "filename"
    <3>1. NamedDates(f) = {}
      BY <2>2, <2>7, ResolvedIs
    <3> QED
      BY <3>1 DEF DatesInv
  <2>8. CASE taken[f].src # "exif" /\ new.src = "mtime"
    <3>1. CASE taken[f].src = "mtime"
      <4>1. taken[f].at \in Mtimes(f)
        BY <3>1 DEF DatesInv
      <4>2. new.at <= taken[f].at
        BY <2>2, <2>8, <4>1, ResolvedIs
      <4> QED
        BY <2>1, <2>2, <2>8, <3>1, <4>2
    <3>2. CASE taken[f].src # "mtime"
      BY <1>1, <2>1, <2>2, <2>7, <2>8, <3>2 DEF Rung, Sources
    <3> QED
      BY <3>1, <3>2
  <2>9. CASE taken[f].src # "exif" /\ new.src = "none"
    <3>1. new.at = 0
      BY <2>2, <2>9, ResolvedIs
    <3>2. taken[f].src \in {"null", "none", "mtime"}
      BY <1>1, <2>7, <2>9 DEF Sources
    <3>3. Rung(taken[f].src) <= 1
      BY <3>2 DEF Rung
    <3>4. taken[f].at = 0 \/ Masked(f)
      <4>1. CASE taken[f].src = "mtime"
        <5>1. Mtimes(f) # {}
          BY <4>1 DEF DatesInv
        <5> QED
          BY <2>2, <2>9, <5>1, ResolvedIs
      <4>2. CASE taken[f].src # "mtime"
        BY <3>2, <4>2 DEF DatesInv
      <4> QED
        BY <4>1, <4>2
    <3> QED
      BY <2>1, <2>2, <3>1, <3>3, <3>4
  <2>10. new.src # "null" \/ taken[f].src = "exif"
    BY <2>2, ResolvedIs
  <2> QED
    BY <2>3, <2>4, <2>5, <2>6, <2>8, <2>9, <2>10 DEF Sources
<1>4. taken' = taken \/ ResolveDates
  BY DEF GroupingNext, Publish, Condemn, Clear, Find, Rebuild, Extend, inputs, groupingVars
<1> QED
  BY <1>2, <1>3, <1>4

\* A date once known is lost only when a copy without one hides it, and is
\* otherwise replaced by a better source or an earlier reading
\* (capture_time.py:27).
THEOREM DatesImprove == GroupingSpec => DatesOnlyImprove
<1>1. DatesInv /\ [GroupingNext]_groupingVars =>
        [\A f \in File :
         \/ Rung(taken'[f].src) > Rung(taken[f].src)
         \/ taken'[f].src = taken[f].src /\ taken'[f].at <= taken[f].at
         \/ Rung(taken[f].src) <= 1 /\ taken'[f].at = 0 /\ (taken[f].at = 0 \/ Masked(f))]_groupingVars
  BY DatesStep
<1> QED
  BY <1>1, DatesInit, DatesNext, PTL DEF GroupingSpec, DatesOnlyImprove

-----------------------------------------------------------------------------
(* The best file of a tile.                                                 *)

LEMMA RankIs ==
  ASSUME corpus \in Worlds, NEW f \in File
  PROVE  /\ Rank(f)[1] \in {0, 1} /\ Rank(f)[2] \in Nat /\ Rank(f)[3] \in {0, 1}
         /\ Rank(f)[4] = f /\ f \in Nat
<1>1. corpus.file[f].size \in Nat /\ f \in Nat
  BY GroupingAssumption
<1> QED
  BY <1>1 DEF Rank

LEMMA OutranksIs ==
  ASSUME NEW f, NEW g
  PROVE  Outranks(f, g) <=>
           \/ Rank(f)[1] > Rank(g)[1]
           \/ Rank(f)[1] = Rank(g)[1] /\ Rank(f)[2] > Rank(g)[2]
           \/ Rank(f)[1] = Rank(g)[1] /\ Rank(f)[2] = Rank(g)[2] /\ Rank(f)[3] > Rank(g)[3]
           \/ Rank(f)[1] = Rank(g)[1] /\ Rank(f)[2] = Rank(g)[2] /\ Rank(f)[3] = Rank(g)[3] /\ Rank(f)[4] > Rank(g)[4]
<1>1. PICK a : a = Rank(f)
  OBVIOUS
<1>2. PICK b : b = Rank(g)
  OBVIOUS
<1>3. Outranks(f, g) <=> \E i \in 1..4 : a[i] > b[i] /\ \A j \in 1..(i - 1) : a[j] = b[j]
  BY <1>1, <1>2 DEF Outranks
<1>4. (\A j \in 1..(1 - 1) : a[j] = b[j]) <=> TRUE
  OBVIOUS
<1>5. (\A j \in 1..(2 - 1) : a[j] = b[j]) <=> a[1] = b[1]
  OBVIOUS
<1>6. (\A j \in 1..(3 - 1) : a[j] = b[j]) <=> a[1] = b[1] /\ a[2] = b[2]
  <2>1. 1..(3 - 1) = {1, 2}
    OBVIOUS
  <2> QED
    BY <2>1
<1>7. (\A j \in 1..(4 - 1) : a[j] = b[j]) <=> a[1] = b[1] /\ a[2] = b[2] /\ a[3] = b[3]
  <2>1. 1..(4 - 1) = {1, 2, 3}
    OBVIOUS
  <2> QED
    BY <2>1
<1>8. 1..4 = {1, 2, 3, 4}
  OBVIOUS
<1>9. Outranks(f, g) <=> \/ a[1] > b[1] /\ \A j \in 1..(1 - 1) : a[j] = b[j]
                         \/ a[2] > b[2] /\ \A j \in 1..(2 - 1) : a[j] = b[j]
                         \/ a[3] > b[3] /\ \A j \in 1..(3 - 1) : a[j] = b[j]
                         \/ a[4] > b[4] /\ \A j \in 1..(4 - 1) : a[j] = b[j]
  BY <1>3, <1>8
<1> QED
  BY <1>1, <1>2, <1>4, <1>5, <1>6, <1>7, <1>9

LEMMA OutranksOrders ==
  ASSUME corpus \in Worlds, NEW f \in File, NEW g \in File, NEW h \in File
  PROVE  /\ f # g => Outranks(f, g) \/ Outranks(g, f)
         /\ Outranks(f, g) /\ Outranks(g, h) => Outranks(f, h)
<1>1. /\ Rank(f)[1] \in Nat /\ Rank(f)[2] \in Nat /\ Rank(f)[3] \in Nat /\ Rank(f)[4] = f /\ f \in Nat
      /\ Rank(g)[1] \in Nat /\ Rank(g)[2] \in Nat /\ Rank(g)[3] \in Nat /\ Rank(g)[4] = g /\ g \in Nat
      /\ Rank(h)[1] \in Nat /\ Rank(h)[2] \in Nat /\ Rank(h)[3] \in Nat /\ Rank(h)[4] = h /\ h \in Nat
  BY RankIs
<1>2. f # g => Outranks(f, g) \/ Outranks(g, f)
  BY <1>1, OutranksIs
<1>3. Outranks(f, g) /\ Outranks(g, h) => Outranks(f, h)
  BY <1>1, OutranksIs
<1> QED
  BY <1>2, <1>3

\* A tile has a best file, and it is in the tile.
LEMMA BestIs ==
  ASSUME corpus \in Worlds, NEW S \in SUBSET File, S # {}
  PROVE  Tile(S).rep \in S
<1>1. IsFiniteSet(S)
  BY GroupingAssumption, FS_Subset
<1>2. PICK P : P = {s \in SUBSET S : s = {} \/ \E f \in s : \A g \in s \ {f} : Outranks(f, g)}
  OBVIOUS
<1>3. ASSUME NEW s \in SUBSET S, \A t \in (SUBSET s) \ {s} : t \in P
      PROVE  s \in P
  <2>1. CASE s = {}
    BY <1>2, <2>1
  <2>2. CASE s # {}
    <3>1. PICK x \in s : TRUE
      BY <2>2
    <3>2. PICK t : t = s \ {x}
      OBVIOUS
    <3>3. t \in P
      <4>1. t \in (SUBSET s) \ {s}
        BY <3>1, <3>2
      <4> QED
        BY <1>3, <4>1
    <3>4. CASE t = {}
      <4>1. \A g \in s \ {x} : Outranks(x, g)
        BY <3>2, <3>4
      <4> QED
        BY <1>2, <3>1, <4>1
    <3>5. CASE t # {}
      <4>1. PICK b \in t : \A g \in t \ {b} : Outranks(b, g)
        BY <1>2, <3>3, <3>5
      <4>2. b \in s /\ b # x /\ b \in File /\ x \in File /\ s \subseteq File
        BY <3>1, <3>2, <4>1
      <4>3. CASE Outranks(b, x)
        <5>1. \A g \in s \ {b} : Outranks(b, g)
          BY <3>2, <4>1, <4>3
        <5> QED
          BY <1>2, <4>2, <5>1
      <4>4. CASE Outranks(x, b)
        <5>1. ASSUME NEW g \in s \ {x}
              PROVE  Outranks(x, g)
          <6>1. g \in t /\ g \in File
            BY <3>2, <4>2
          <6>2. CASE g = b
            BY <4>4, <6>2
          <6>3. CASE g # b
            <7>1. Outranks(b, g)
              BY <4>1, <6>1, <6>3
            <7> QED
              BY <4>2, <4>4, <6>1, <7>1, OutranksOrders
          <6> QED
            BY <6>2, <6>3
        <5> QED
          BY <1>2, <3>1, <5>1
      <4> QED
        BY <4>2, <4>3, <4>4, OutranksOrders
    <3> QED
      BY <3>4, <3>5
  <2> QED
    BY <2>1, <2>2
<1>4. SUBSET S \subseteq P
  <2>1. Climbs(S, P)
    BY <1>3 DEF Climbs
  <2> QED
    BY <1>1, <2>1, BySubsets
<1>5. \E f \in S : \A g \in S \ {f} : Outranks(f, g)
  BY <1>2, <1>4
<1> QED
  BY <1>5 DEF Tile

\* A tile is the same while nothing is learnt of its files.
LEMMA TileStays ==
  ASSUME NEW S, corpus' = corpus,
         \A f \in S : NamesOf(f)' = NamesOf(f) /\ taken'[f] = taken[f]
  PROVE  Tile(S)' = Tile(S)
<1>1. \A f \in S : Rank(f)' = Rank(f)
  BY DEF Rank, Edited, HasExif
<1>2. \A f, g \in S : Outranks(f, g)' <=> Outranks(f, g)
  BY <1>1 DEF Outranks
<1>3. (CHOOSE f \in S : \A g \in S \ {f} : Outranks(f, g))' = CHOOSE f \in S : \A g \in S \ {f} : Outranks(f, g)
  BY <1>2, Zenon
<1>4. DatesOf(S)' = DatesOf(S)
  BY DEF DatesOf
<1> QED
  BY <1>3, <1>4 DEF Tile

-----------------------------------------------------------------------------
(* The evidence.                                                            *)

PairEdges(S) == {e \in S \X S : Paired(e[1], e[2])}
CloseEdges(S) == {e \in S \X S : Alike(e[1], e[2])}

LEMMA TogetherIsChained ==
  ASSUME NEW S, NEW f \in S, NEW g \in S
  PROVE  /\ Together(S, Paired, f, g) <=> Chained(S, PairEdges(S), f, g)
         /\ Together(S, Alike, f, g) <=> Chained(S, CloseEdges(S), f, g)
<1>1. \A C \in SUBSET S : (\A x \in C, y \in S : Paired(x, y) \/ Paired(y, x) => y \in C)
                            <=> \A e \in PairEdges(S) : e[1] \in C <=> e[2] \in C
  <2>1. ASSUME NEW C \in SUBSET S
        PROVE  (\A x \in C, y \in S : Paired(x, y) \/ Paired(y, x) => y \in C)
                 <=> \A e \in PairEdges(S) : e[1] \in C <=> e[2] \in C
    <3>1. \A x, y \in S : Paired(x, y) <=> <<x, y>> \in PairEdges(S)
      BY DEF PairEdges
    <3>2. ASSUME \A x \in C, y \in S : Paired(x, y) \/ Paired(y, x) => y \in C
          PROVE  \A e \in PairEdges(S) : e[1] \in C <=> e[2] \in C
      BY <3>2 DEF PairEdges
    <3>3. ASSUME \A e \in PairEdges(S) : e[1] \in C <=> e[2] \in C
          PROVE  \A x \in C, y \in S : Paired(x, y) \/ Paired(y, x) => y \in C
      <4>1. \A x, y \in S : <<x, y>> \in PairEdges(S) => (x \in C <=> y \in C)
        <5>1. ASSUME NEW x \in S, NEW y \in S, <<x, y>> \in PairEdges(S)
              PROVE  x \in C <=> y \in C
          <6>1. <<x, y>>[1] \in C <=> <<x, y>>[2] \in C
            BY <3>3, <5>1
          <6> QED
            BY <6>1
        <5> QED
          BY <5>1
      <4> QED
        BY <3>1, <4>1
    <3> QED
      BY <3>2, <3>3
  <2> QED
    BY <2>1
<1>2. \A C \in SUBSET S : (\A x \in C, y \in S : Alike(x, y) \/ Alike(y, x) => y \in C)
                            <=> \A e \in CloseEdges(S) : e[1] \in C <=> e[2] \in C
  <2>1. ASSUME NEW C \in SUBSET S
        PROVE  (\A x \in C, y \in S : Alike(x, y) \/ Alike(y, x) => y \in C)
                 <=> \A e \in CloseEdges(S) : e[1] \in C <=> e[2] \in C
    <3>1. \A x, y \in S : Alike(x, y) <=> <<x, y>> \in CloseEdges(S)
      BY DEF CloseEdges
    <3>2. ASSUME \A x \in C, y \in S : Alike(x, y) \/ Alike(y, x) => y \in C
          PROVE  \A e \in CloseEdges(S) : e[1] \in C <=> e[2] \in C
      BY <3>2 DEF CloseEdges
    <3>3. ASSUME \A e \in CloseEdges(S) : e[1] \in C <=> e[2] \in C
          PROVE  \A x \in C, y \in S : Alike(x, y) \/ Alike(y, x) => y \in C
      <4>1. \A x, y \in S : <<x, y>> \in CloseEdges(S) => (x \in C <=> y \in C)
        <5>1. ASSUME NEW x \in S, NEW y \in S, <<x, y>> \in CloseEdges(S)
              PROVE  x \in C <=> y \in C
          <6>1. <<x, y>>[1] \in C <=> <<x, y>>[2] \in C
            BY <3>3, <5>1
          <6> QED
            BY <6>1
        <5> QED
          BY <5>1
      <4> QED
        BY <3>1, <4>1
    <3> QED
      BY <3>2, <3>3
  <2> QED
    BY <2>1
<1>3. Together(S, Paired, f, g) <=> Chained(S, PairEdges(S), f, g)
  BY <1>1 DEF Together, Chained
<1>4. Together(S, Alike, f, g) <=> Chained(S, CloseEdges(S), f, g)
  BY <1>2 DEF Together, Chained
<1> QED
  BY <1>3, <1>4

LEMMA PairedIs ==
  ASSUME NEW f, NEW g
  PROVE  Paired(f, g) <=> /\ KeysOf(f) \cap KeysOf(g) # {} /\ Cls(f) = "raw" /\ Cls(g) = "jpeg"
                          /\ Corroborates(f, g)
BY DEF Paired, BucketEdges

LEMMA RowsAre ==
  ASSUME NEW S
  PROVE  /\ \A e \in PairRows(S) : e = <<e[1], e[2]>> /\ e[2] \in S /\ e[1] \in KeysOf(e[2])
         /\ \A f \in S : \A k \in KeysOf(f) : <<k, f>> \in PairRows(S)
BY DEF PairRows

\* The edges of the buckets that files of N are in.
LEMMA EdgesAre ==
  ASSUME NEW T, NEW near \in SUBSET T
  PROVE  /\ BucketsEdges(Touched(near, PairRows(T))) \subseteq PairEdges(T)
         /\ \A e \in PairEdges(T) : e[1] \in near \/ e[2] \in near => e \in BucketsEdges(Touched(near, PairRows(T)))
<1>1. PICK keys : keys = Touched(near, PairRows(T))
  OBVIOUS
<1>2. \A e \in keys : e = <<e[1], e[2]>> /\ e[2] \in T /\ e[1] \in KeysOf(e[2])
  BY <1>1, RowsAre DEF Touched
<1>3. ASSUME NEW n \in near, NEW k \in KeysOf(n), NEW f \in T, k \in KeysOf(f)
      PROVE  <<k, f>> \in keys
  <2>1. <<k, n>> \in PairRows(T) /\ <<k, f>> \in PairRows(T)
    BY <1>3, RowsAre
  <2> QED
    BY <1>1, <2>1 DEF Touched
<1>4. ASSUME NEW e \in BucketsEdges(keys)
      PROVE  e \in PairEdges(T)
  <2>1. PICK k : e \in BucketEdges({d[2] : d \in {d \in keys : d[1] = k}})
    BY DEF BucketsEdges
  <2>2. PICK B : B = {d[2] : d \in {d \in keys : d[1] = k}}
    OBVIOUS
  <2>3. \A f \in B : f \in T /\ k \in KeysOf(f)
    BY <1>2, <2>2
  <2>4. e \in B \X B /\ Cls(e[1]) = "raw" /\ Cls(e[2]) = "jpeg" /\ Corroborates(e[1], e[2])
    BY <2>1, <2>2 DEF BucketEdges
  <2>5. Paired(e[1], e[2])
    BY <2>3, <2>4, PairedIs
  <2> QED
    BY <2>3, <2>4, <2>5 DEF PairEdges
<1>5. ASSUME NEW e \in PairEdges(T), e[1] \in near \/ e[2] \in near
      PROVE  e \in BucketsEdges(keys)
  <2>1. e \in T \X T /\ Paired(e[1], e[2])
    BY DEF PairEdges
  <2>2. PICK k : k \in KeysOf(e[1]) /\ k \in KeysOf(e[2])
    BY <2>1, PairedIs
  <2>3. <<k, e[1]>> \in keys /\ <<k, e[2]>> \in keys
    BY <1>3, <1>5, <2>1, <2>2
  <2>4. PICK B : B = {d[2] : d \in {d \in keys : d[1] = k}}
    OBVIOUS
  <2>5. e[1] \in B /\ e[2] \in B
    BY <2>3, <2>4
  <2>6. e \in BucketEdges(B)
    BY <2>1, <2>5, PairedIs DEF BucketEdges
  <2>7. k \in {d[1] : d \in keys}
    BY <2>3
  <2> QED
    BY <2>4, <2>6, <2>7 DEF BucketsEdges
<1> QED
  BY <1>1, <1>4, <1>5

LEMMA FourAre ==
  ASSUME NEW a, NEW b, NEW c, NEW d, a # b, a # c, a # d, b # c, b # d, c # d
  PROVE  Cardinality({a, b, c, d}) = 4
<1>1. IsFiniteSet({a, b}) /\ Cardinality({a, b}) = 2
  BY TwoAre
<1>2. IsFiniteSet({a, b} \union {c}) /\ Cardinality({a, b} \union {c}) = 3
  <2>1. c \notin {a, b}
    OBVIOUS
  <2>2. IsFiniteSet({a, b} \union {c}) /\ Cardinality({a, b} \union {c}) = Cardinality({a, b}) + 1
    BY <1>1, <2>1, FS_AddElement
  <2> QED
    BY <1>1, <2>2
<1>3. PICK S : S = {a, b} \union {c}
  OBVIOUS
<1>4. Cardinality(S \union {d}) = 4
  <2>1. d \notin S /\ IsFiniteSet(S) /\ Cardinality(S) = 3
    BY <1>2, <1>3
  <2>2. Cardinality(S \union {d}) = Cardinality(S) + 1
    BY <2>1, FS_AddElement
  <2> QED
    BY <2>1, <2>2
<1>5. {a, b, c, d} = S \union {d}
  BY <1>3
<1> QED
  BY <1>4, <1>5

\* Three bits cannot reach into four bands: two hashes so close share one
\* (group.py: NEAR_BANDS).
LEMMA CloseShareABand ==
  ASSUME corpus \in Worlds, NEW f \in File, NEW g \in File, Alike(f, g)
  PROVE  Bands(f) \cap Bands(g) # {} /\ Alike(g, f)
<1>1. PICK D : D = (Bits(f) \ Bits(g)) \union (Bits(g) \ Bits(f))
  OBVIOUS
<1>2. IsFiniteSet(D) /\ Cardinality(D) <= 3
  <2>1. IsFiniteSet(Bits(f)) /\ IsFiniteSet(Bits(g))
    BY GroupingAssumption DEF Bits
  <2>2. IsFiniteSet(Bits(f) \union Bits(g)) /\ D \subseteq Bits(f) \union Bits(g)
    BY <1>1, <2>1, FS_Union
  <2>3. IsFiniteSet(D)
    BY <2>2, FS_Subset
  <2> QED
    BY <1>1, <2>3 DEF Alike, NEAR_MAX_DISTANCE
<1>3. PICK of : of = [b \in 0..3 |-> (b * NEAR_BAND_BITS)..(b * NEAR_BAND_BITS + 15)]
  OBVIOUS
<1>4. of[0] = 0..15 /\ of[1] = 16..31 /\ of[2] = 32..47 /\ of[3] = 48..63
  BY <1>3 DEF NEAR_BAND_BITS
<1>5. \A b \in 0..3 : <<b, Bits(f) \cap of[b]>> \in Bands(f) /\ <<b, Bits(g) \cap of[b]>> \in Bands(g)
  BY <1>3 DEF Bands, NEAR_BANDS
<1>6. ASSUME Bands(f) \cap Bands(g) = {}
      PROVE  FALSE
  <2>1. ASSUME NEW b \in 0..3
        PROVE  D \cap of[b] # {}
    <3>1. Bits(f) \cap of[b] # Bits(g) \cap of[b]
      BY <1>5, <1>6
    <3> QED
      BY <1>1, <3>1
  <2>2. PICK d0 : d0 \in D /\ d0 \in 0..15
    BY <1>4, <2>1
  <2>3. PICK d1 : d1 \in D /\ d1 \in 16..31
    BY <1>4, <2>1
  <2>4. PICK d2 : d2 \in D /\ d2 \in 32..47
    BY <1>4, <2>1
  <2>5. PICK d3 : d3 \in D /\ d3 \in 48..63
    BY <1>4, <2>1
  <2>6. Cardinality({d0, d1, d2, d3}) = 4
    <3>1. d0 # d1 /\ d0 # d2 /\ d0 # d3 /\ d1 # d2 /\ d1 # d3 /\ d2 # d3
      BY <2>2, <2>3, <2>4, <2>5
    <3> QED
      BY <3>1, FourAre
  <2>7. {d0, d1, d2, d3} \subseteq D
    BY <2>2, <2>3, <2>4, <2>5
  <2>8. Cardinality({d0, d1, d2, d3}) <= Cardinality(D)
    BY <1>2, <2>7, FS_Subset
  <2>9. Cardinality(D) \in Nat
    BY <1>2, FS_CardinalityType
  <2> QED
    BY <1>2, <2>6, <2>8, <2>9
<1>7. D = (Bits(g) \ Bits(f)) \union (Bits(f) \ Bits(g))
  BY <1>1
<1> QED
  BY <1>2, <1>6, <1>7 DEF Alike, NEAR_MAX_DISTANCE

-----------------------------------------------------------------------------
(* The groups after a rebuild and after an extend.                          *)

\* Groups folded into groups are the groups of the whole, if both are groups
\* of it and every edge of it is in one of them.
LEMMA AbsorbedAre ==
  ASSUME NEW root, NEW of, NEW least, NEW Q, NEW s, Absorbed(root, of, least, Q, s),
         NEW T, DOMAIN of \subseteq T, DOMAIN root \subseteq T, NEW E \in SUBSET (T \X T),
         Range(root) \subseteq Q,
         \A x, y \in DOMAIN root : root[x] = root[y] => Chained(T, E, x, y),
         \A x, y \in DOMAIN of : of[x] = of[y] => Chained(T, E, x, y),
         \A e \in E : \/ e[1] = e[2]
                      \/ e[1] \in DOMAIN of /\ e[2] \in DOMAIN of /\ of[e[1]] = of[e[2]]
                      \/ e[1] \in DOMAIN root /\ e[2] \in DOMAIN root /\ root[e[1]] = root[e[2]]
  PROVE  \A f, g \in T : f # g =>
            (Chained(T, E, f, g) <=> f \in DOMAIN s.of /\ g \in DOMAIN s.of /\ s.of[f] = s.of[g])
<1>1. PICK D : D = DOMAIN s.of
  OBVIOUS
<1>2. DOMAIN of \subseteq D /\ D \subseteq T /\ D \subseteq DOMAIN of \union DOMAIN root
  BY <1>1 DEF Absorbed
<1>3. ASSUME NEW f \in D, NEW g \in D, s.of[f] = s.of[g]
      PROVE  Chained(T, E, f, g)
  <2>1. PICK U : U = DOMAIN of \union DOMAIN root
    OBVIOUS
  <2>2. Chained(U, Ties(root, of), f, g)
    BY <1>1, <1>3, <2>1 DEF Absorbed
  <2>3. ASSUME NEW C \in SUBSET T, f \in C, \A e \in E : e[1] \in C <=> e[2] \in C
        PROVE  g \in C
    <3>1. ASSUME NEW d \in Ties(root, of)
          PROVE  d[1] \in U /\ d[2] \in U /\ (d[1] \in C <=> d[2] \in C)
      <4>1. d[1] \in U /\ d[2] \in U
        BY <2>1 DEF Ties
      <4>2. Chained(T, E, d[1], d[2]) /\ Chained(T, E, d[2], d[1])
        BY DEF Ties
      <4> QED
        BY <2>3, <4>1, <4>2 DEF Chained
    <3>2. f \in U /\ g \in U
      BY <1>2, <2>1
    <3> QED
      BY <2>2, <2>3, <3>1, <3>2, ChainsClose
  <2> QED
    BY <2>3 DEF Chained
<1>4. ASSUME NEW e \in E, e[1] # e[2]
      PROVE  e[1] \in D /\ e[2] \in D /\ s.of[e[1]] = s.of[e[2]]
  <2>1. CASE e[1] \in DOMAIN of /\ e[2] \in DOMAIN of /\ of[e[1]] = of[e[2]]
    BY <1>2, <2>1 DEF Absorbed
  <2>2. CASE e[1] \in DOMAIN root /\ e[2] \in DOMAIN root /\ root[e[1]] = root[e[2]]
    <3>1. root[e[1]] \in Q
      BY <2>2 DEF Range
    <3> QED
      BY <1>1, <1>4, <2>2, <3>1 DEF Absorbed
  <2> QED
    BY <1>4, <2>1, <2>2
<1>5. ASSUME NEW f \in T, NEW g \in T, f # g, Chained(T, E, f, g)
      PROVE  f \in D /\ g \in D /\ s.of[f] = s.of[g]
  <2>1. PICK C : C = {z \in T : z = f \/ (f \in D /\ z \in D /\ s.of[z] = s.of[f])}
    OBVIOUS
  <2>2. ASSUME NEW e \in E
        PROVE  e[1] \in C <=> e[2] \in C
    <3>1. CASE e[1] = e[2]
      BY <3>1
    <3>2. CASE e[1] # e[2]
      <4>1. e[1] \in D /\ e[2] \in D /\ s.of[e[1]] = s.of[e[2]]
        BY <1>4, <3>2
      <4> QED
        BY <1>2, <2>1, <4>1
    <3> QED
      BY <3>1, <3>2
  <2>3. C \in SUBSET T /\ f \in C
    BY <2>1
  <2>4. g \in C
    BY <1>5, <2>2, <2>3 DEF Chained
  <2> QED
    BY <1>5, <2>1, <2>4
<1> QED
  BY <1>1, <1>3, <1>5

\* Numbered components are the groups of the edges.
LEMMA NumberedAre ==
  ASSUME NEW S \in SUBSET Nat, IsFiniteSet(S), NEW E \in SUBSET (S \X S), NEW least \in {1, 2},
         NEW of, of = Numbered(Components(S, E), least)
  PROVE  /\ of \in [DOMAIN of -> Nat \ {0}] /\ DOMAIN of \subseteq S
         /\ least = 1 => DOMAIN of = S /\ \A f, g \in S : of[f] = of[g] <=> Chained(S, E, f, g)
         /\ \A f, g \in S : f # g => (Chained(S, E, f, g) <=> f \in DOMAIN of /\ g \in DOMAIN of /\ of[f] = of[g])
<1>1. PICK root : root = Components(S, E)
  OBVIOUS
<1>2. Roots(S, E, root) /\ root \in [S -> S]
  BY <1>1, ComponentsAre DEF Roots
<1>3. /\ of \in [DOMAIN of -> Nat \ {0}]
      /\ DOMAIN of \subseteq S
      /\ \A x, y \in S : root[x] = root[y] /\ (x # y \/ least = 1) => x \in DOMAIN of
      /\ \A x, y \in DOMAIN of : of[x] = of[y] <=> root[x] = root[y]
  BY <1>1, <1>2, NumberedIs
<1>4. \A x, y \in S : root[x] = root[y] <=> Chained(S, E, x, y)
  BY <1>2, RootsAreChains
<1> QED
  BY <1>3, <1>4

\* More edges chain more.
LEMMA ChainedMore ==
  ASSUME NEW S, NEW T, S \subseteq T, NEW E \in SUBSET (S \X S), NEW F, E \subseteq F,
         NEW x \in S, NEW y \in S, Chained(S, E, x, y)
  PROVE  Chained(T, F, x, y)
<1> SUFFICES ASSUME NEW C \in SUBSET T, x \in C, \A e \in F : e[1] \in C <=> e[2] \in C
             PROVE  y \in C
  BY DEF Chained
<1>1. \A e \in E : e[1] \in S /\ e[2] \in S /\ (e[1] \in C <=> e[2] \in C)
  OBVIOUS
<1> QED
  BY <1>1, ChainsClose

-----------------------------------------------------------------------------
(* The tables.                                                              *)

\* The groups are those of the evidence.
GroupsAre(of, photos, dup) ==
    /\ \A f, g \in DOMAIN of : of[f] = of[g] <=> Chained(DOMAIN of, PairEdges(DOMAIN of), f, g)
    /\ photos = Tiles(of)
    /\ \A f, g \in Hashed(DOMAIN of) : f # g =>
         (Chained(Hashed(DOMAIN of), CloseEdges(Hashed(DOMAIN of)), f, g)
            <=> f \in DOMAIN dup /\ g \in DOMAIN dup /\ dup[f] = dup[g])

TablesAre(of, photos, keys, bands, dup, clean) ==
    /\ of \in [DOMAIN of -> Nat \ {0}] /\ DOMAIN of \subseteq File
    /\ photos = [i \in Range(of) |-> photos[i]]
    /\ \A i \in Range(of) : photos[i].rep \in DOMAIN of /\ of[photos[i].rep] = i
    /\ \A e \in keys : e = <<e[1], e[2]>> /\ e[2] \in DOMAIN of
    /\ {e \in keys : e[2] \in clean} = PairRows(clean)
    /\ clean \subseteq Kept /\ clean \subseteq DOMAIN of
    /\ bands = BandRows(DOMAIN of)
    /\ dup \in [DOMAIN dup -> Nat \ {0}] /\ DOMAIN dup \subseteq Hashed(DOMAIN of)
    /\ DOMAIN of \subseteq clean => GroupsAre(of, photos, dup)

GroupingInv ==
    /\ corpus \in Worlds /\ published \subseteq File
    /\ TablesAre(member, photo, pairKey, nearBand, nearDup, sound)

LEMMA EvidenceStays ==
  ASSUME NEW S, corpus' = corpus
  PROVE  /\ Hashed(S)' = Hashed(S) /\ BandRows(S)' = BandRows(S) /\ CloseEdges(S)' = CloseEdges(S)
         /\ (\A f \in S : NamesOf(f)' = NamesOf(f) /\ taken'[f] = taken[f])
              => PairEdges(S)' = PairEdges(S) /\ PairRows(S)' = PairRows(S)
<1>1. \A f : Bits(f)' = Bits(f) /\ Bands(f)' = Bands(f) /\ Cls(f)' = Cls(f)
  BY DEF Bits, Bands, Cls
<1>2. Hashed(S)' = Hashed(S)
  BY DEF Hashed
<1>3. BandRows(S)' = BandRows(S)
  BY <1>1, <1>2 DEF BandRows
<1>4. CloseEdges(S)' = CloseEdges(S)
  BY <1>1 DEF CloseEdges, Alike
<1>5. ASSUME \A f \in S : NamesOf(f)' = NamesOf(f) /\ taken'[f] = taken[f]
      PROVE  PairEdges(S)' = PairEdges(S) /\ PairRows(S)' = PairRows(S)
  <2>1. \A f \in S : KeysOf(f)' = KeysOf(f)
    BY <1>1, <1>5 DEF KeysOf
  <2>2. \A f, g \in S : Corroborates(f, g)' <=> Corroborates(f, g)
    BY <1>5 DEF Corroborates, HasExif
  <2>3. \A f, g \in S : Paired(f, g)' <=> Paired(f, g)
    <3>1. ASSUME NEW f \in S, NEW g \in S
          PROVE  Paired(f, g)' <=> Paired(f, g)
      <4>1. Paired(f, g)' <=> (/\ KeysOf(f) \cap KeysOf(g) # {} /\ Cls(f) = "raw" /\ Cls(g) = "jpeg"
                               /\ Corroborates(f, g))'
        BY DEF Paired, BucketEdges
      <4> QED
        BY <1>1, <2>1, <2>2, <4>1, PairedIs
    <3> QED
      BY <3>1
  <2>4. PairEdges(S)' = PairEdges(S)
    BY <2>3 DEF PairEdges
  <2> QED
    BY <2>1, <2>4 DEF PairRows
<1> QED
  BY <1>2, <1>3, <1>4, <1>5

LEMMA GroupsStay ==
  ASSUME NEW of, NEW photos, NEW dup, GroupsAre(of, photos, dup), corpus' = corpus,
         \A f \in DOMAIN of : NamesOf(f)' = NamesOf(f) /\ taken'[f] = taken[f]
  PROVE  GroupsAre(of, photos, dup)'
<1>1. PICK M : M = DOMAIN of
  OBVIOUS
<1>2. PairEdges(M)' = PairEdges(M) /\ Hashed(M)' = Hashed(M)
  BY <1>1, EvidenceStays
<1>3. PICK H : H = Hashed(M)
  OBVIOUS
<1>4. CloseEdges(H)' = CloseEdges(H)
  BY EvidenceStays
<1>5. Tiles(of)' = Tiles(of)
  <2>1. ASSUME NEW i
        PROVE  Tile({f \in DOMAIN of : of[f] = i})' = Tile({f \in DOMAIN of : of[f] = i})
    <3>1. PICK S : S = {f \in DOMAIN of : of[f] = i}
      OBVIOUS
    <3>2. Tile(S)' = Tile(S)
      BY <3>1, TileStays
    <3> QED
      BY <3>1, <3>2
  <2> QED
    BY <2>1 DEF Tiles
<1>6. (\A f, g \in M : of[f] = of[g] <=> Chained(M, PairEdges(M), f, g))'
  <2>1. \A f, g \in M : of[f] = of[g] <=> Chained(M, PairEdges(M), f, g)
    BY <1>1 DEF GroupsAre
  <2> QED
    BY <1>2, <2>1
<1>7. (\A f, g \in Hashed(M) : f # g =>
         (Chained(Hashed(M), CloseEdges(Hashed(M)), f, g)
            <=> f \in DOMAIN dup /\ g \in DOMAIN dup /\ dup[f] = dup[g]))'
  <2>1. \A f, g \in H : f # g =>
         (Chained(H, CloseEdges(H), f, g)
            <=> f \in DOMAIN dup /\ g \in DOMAIN dup /\ dup[f] = dup[g])
    BY <1>1, <1>3 DEF GroupsAre
  <2>2. Hashed(M)' = H /\ CloseEdges(Hashed(M))' = CloseEdges(H)
    BY <1>2, <1>3, <1>4
  <2> QED
    BY <2>1, <2>2
<1>8. photos = Tiles(of)'
  BY <1>5 DEF GroupsAre
<1> QED
  BY <1>1, <1>6, <1>7, <1>8 DEF GroupsAre

\* The tables keep what they are about while nothing is learnt of the clean.
LEMMA TablesStay ==
  ASSUME NEW of, NEW photos, NEW keys, NEW bands, NEW dup, NEW clean,
         TablesAre(of, photos, keys, bands, dup, clean),
         NEW less \in SUBSET clean, less \subseteq Kept', corpus' = corpus,
         \A f \in less : NamesOf(f)' = NamesOf(f) /\ taken'[f] = taken[f]
  PROVE  TablesAre(of, photos, keys, bands, dup, less)'
<1>1. PICK M : M = DOMAIN of
  OBVIOUS
<1>2. Hashed(M)' = Hashed(M) /\ BandRows(M)' = BandRows(M)
  BY EvidenceStays
<1>3. PairRows(less)' = PairRows(less)
  BY EvidenceStays
<1>4. {e \in keys : e[2] \in less} = PairRows(less)
  <2>1. {e \in keys : e[2] \in clean} = PairRows(clean)
    BY DEF TablesAre
  <2> QED
    BY <2>1 DEF PairRows
<1>5. ASSUME M \subseteq less
      PROVE  GroupsAre(of, photos, dup)'
  <2>1. GroupsAre(of, photos, dup)
    BY <1>1, <1>5 DEF TablesAre
  <2>2. \A f \in DOMAIN of : NamesOf(f)' = NamesOf(f) /\ taken'[f] = taken[f]
    BY <1>1, <1>5
  <2> QED
    BY <2>1, <2>2, GroupsStay
<1>6. /\ of \in [M -> Nat \ {0}] /\ M \subseteq File
      /\ photos = [i \in Range(of) |-> photos[i]]
      /\ \A i \in Range(of) : photos[i].rep \in M /\ of[photos[i].rep] = i
      /\ \A e \in keys : e = <<e[1], e[2]>> /\ e[2] \in M
  BY <1>1 DEF TablesAre
<1>7. /\ less \subseteq Kept' /\ less \subseteq M
      /\ bands = BandRows(M)'
      /\ dup \in [DOMAIN dup -> Nat \ {0}] /\ DOMAIN dup \subseteq Hashed(M)'
  BY <1>1, <1>2 DEF TablesAre
<1>8. {e \in keys : e[2] \in less} = PairRows(less)'
  BY <1>3, <1>4
<1> QED
  BY <1>1, <1>5, <1>6, <1>7, <1>8 DEF TablesAre

\* The near-duplicate edges that are looked for are those there are.
LEMMA NearIsClose ==
  ASSUME corpus \in Worlds, NEW S \in SUBSET File
  PROVE  NearEdges(S) = CloseEdges(S)
<1>1. \A f, g \in S : Alike(f, g) => Bands(f) \cap Bands(g) # {}
  BY CloseShareABand
<1> QED
  BY <1>1 DEF NearEdges, CloseEdges

\* Tiles have a file each, and a file in it that stands for it.
LEMMA TilesStand ==
  ASSUME corpus \in Worlds, NEW of, DOMAIN of \subseteq File, NEW i \in Range(of)
  PROVE  Tiles(of)[i].rep \in DOMAIN of /\ of[Tiles(of)[i].rep] = i
<1>1. PICK S : S = {f \in DOMAIN of : of[f] = i}
  OBVIOUS
<1>2. S # {} /\ S \in SUBSET File
  BY <1>1 DEF Range
<1>3. Tile(S).rep \in S
  BY <1>2, BestIs
<1>4. Tiles(of)[i] = Tile(S)
  BY <1>1 DEF Tiles
<1> QED
  BY <1>1, <1>3, <1>4

LEMMA FilesAre ==
  ASSUME NEW S \in SUBSET File
  PROVE  S \in SUBSET Nat /\ IsFiniteSet(S)
BY GroupingAssumption, FS_Subset

LEMMA RebuildIs ==
  ASSUME GroupingInv, Rebuild
  PROVE  TablesAre(member', photo', pairKey', nearBand', nearDup', sound')
<1>1. PICK K : K = Kept
  OBVIOUS
<1>2. PICK of : of = member'
  OBVIOUS
<1>3. PICK H : H = Hashed(K)
  OBVIOUS
<1>4. PICK dup : dup = nearDup'
  OBVIOUS
<1>5. K \in SUBSET File /\ H \in SUBSET File
  BY <1>1, <1>3 DEF GroupingInv, Kept, Hashed
<1>6. K \in SUBSET Nat /\ IsFiniteSet(K) /\ H \in SUBSET Nat /\ IsFiniteSet(H)
  BY <1>5, FilesAre
<1>7. BucketsEdges(PairRows(K)) = PairEdges(K)
  <2>1. Touched(K, PairRows(K)) = PairRows(K)
    BY RowsAre DEF Touched
  <2>2. BucketsEdges(PairRows(K)) \subseteq PairEdges(K)
    BY <2>1, EdgesAre
  <2>3. PairEdges(K) \subseteq BucketsEdges(PairRows(K))
    <3>1. \A e \in PairEdges(K) : e[1] \in K
      BY DEF PairEdges
    <3> QED
      BY <2>1, <3>1, EdgesAre
  <2> QED
    BY <2>2, <2>3
<1>8. of = Numbered(Components(K, PairEdges(K)), 1)
  BY <1>1, <1>2, <1>7 DEF Rebuild
<1>9. /\ of \in [DOMAIN of -> Nat \ {0}] /\ DOMAIN of = K
      /\ \A f, g \in K : of[f] = of[g] <=> Chained(K, PairEdges(K), f, g)
  <2>1. PairEdges(K) \in SUBSET (K \X K)
    BY DEF PairEdges
  <2> QED
    BY <1>6, <1>8, <2>1, NumberedAre
<1>10. dup = Numbered(Components(H, CloseEdges(H)), 2)
  BY <1>1, <1>3, <1>4, <1>5, NearIsClose DEF Rebuild, GroupingInv
<1>11. /\ dup \in [DOMAIN dup -> Nat \ {0}] /\ DOMAIN dup \subseteq H
       /\ \A f, g \in H : f # g =>
            (Chained(H, CloseEdges(H), f, g) <=> f \in DOMAIN dup /\ g \in DOMAIN dup /\ dup[f] = dup[g])
  <2>1. CloseEdges(H) \in SUBSET (H \X H)
    BY DEF CloseEdges
  <2> QED
    BY <1>6, <1>10, <2>1, NumberedAre
<1>12. PICK photos : photos = photo'
  OBVIOUS
<1>13. photos = Tiles(of)
  BY <1>2, <1>12 DEF Rebuild
<1>14. photos = [i \in Range(of) |-> photos[i]]
  BY <1>13 DEF Tiles
<1>15. \A i \in Range(of) : photos[i].rep \in DOMAIN of /\ of[photos[i].rep] = i
  BY <1>5, <1>9, <1>13, TilesStand DEF GroupingInv
<1>16. pairKey' = PairRows(K) /\ nearBand' = BandRows(K) /\ sound' = K
  BY <1>1 DEF Rebuild
<1>17. \A e \in PairRows(K) : e = <<e[1], e[2]>> /\ e[2] \in DOMAIN of
  BY <1>9, RowsAre
<1>18. {e \in PairRows(K) : e[2] \in K} = PairRows(K)
  BY RowsAre
<1>19. GroupsAre(of, photos, dup)
  BY <1>3, <1>9, <1>11, <1>13 DEF GroupsAre
<1>20. TablesAre(of, photos, PairRows(K), BandRows(K), dup, K)
  BY <1>1, <1>3, <1>5, <1>9, <1>11, <1>14, <1>15, <1>17, <1>18, <1>19 DEF TablesAre
<1> QED
  BY <1>2, <1>4, <1>12, <1>16, <1>20

\* What an extend does to the tiles.
Merges(of, to) ==
    \A f, g \in DOMAIN of :
       /\ f \in DOMAIN to /\ to[f] <= of[f]
       /\ of[f] = of[g] => to[f] = to[g]

LEMMA ExtendIs ==
  ASSUME GroupingInv, NEW batch \in SUBSET File, Extend(batch)
  PROVE  /\ TablesAre(member', photo', pairKey', nearBand', nearDup', sound')
         /\ Merges(member, member')
<1>1. PICK M, of, photos, dup : M = DOMAIN member /\ of = member' /\ photos = photo' /\ dup = nearDup'
  OBVIOUS
<1>2. PICK new : new = (batch \cap Kept) \ M
  OBVIOUS
<1>3. PICK T : T = M \union new
  OBVIOUS
<1>4. PICK index : index = pairKey \union PairRows(new)
  OBVIOUS
<1>5. PICK reached : reached = {e \in Touched(new, index) : e[2] \in Kept}
  OBVIOUS
<1>6. PICK edges : edges = BucketsEdges(reached)
  OBVIOUS
<1>7. PICK X : X = new \union UNION {{e[1], e[2]} : e \in edges}
  OBVIOUS
<1>8. PICK root : root = Components(X, edges)
  OBVIOUS
<1>9. PICK hashed : hashed = Hashed(new)
  OBVIOUS
<1>10. PICK bands : bands = nearBand \union BandRows(new)
  OBVIOUS
<1>11. PICK close : close = {e \in hashed \X Kept :
                       e[1] # e[2] /\ (\E b \in Bands(e[1]) : <<b, e[2]>> \in bands) /\ Alike(e[1], e[2])}
  OBVIOUS
<1>12. PICK Y : Y = hashed \union {e[2] : e \in close}
  OBVIOUS
<1>13. PICK alike : alike = Components(Y, close)
  OBVIOUS
<1>14. /\ of = Absorb(root, member, 1)
       /\ photos = [i \in Range(of) |-> IF i \in {of[f] : f \in DOMAIN root} THEN Tiles(of)[i] ELSE photo[i]]
       /\ pairKey' = index /\ nearBand' = bands
       /\ dup = Absorb(alike, nearDup, 2)
       /\ sound' = sound \union new
  BY <1>1, <1>2, <1>4, <1>5, <1>6, <1>7, <1>8, <1>9, <1>10, <1>11, <1>12, <1>13 DEF Extend
<1>15. /\ member \in [M -> Nat \ {0}] /\ M \subseteq File
       /\ photo = [i \in Range(member) |-> photo[i]]
       /\ \A i \in Range(member) : photo[i].rep \in M /\ member[photo[i].rep] = i
       /\ \A e \in pairKey : e = <<e[1], e[2]>> /\ e[2] \in M
       /\ {e \in pairKey : e[2] \in sound} = PairRows(sound)
       /\ sound \subseteq Kept /\ sound \subseteq M
       /\ nearBand = BandRows(M)
       /\ nearDup \in [DOMAIN nearDup -> Nat \ {0}] /\ DOMAIN nearDup \subseteq Hashed(M)
       /\ M \subseteq sound => GroupsAre(member, photo, nearDup)
  BY <1>1 DEF GroupingInv, TablesAre
<1>16. T \in SUBSET File /\ new \in SUBSET File /\ new \cap M = {} /\ new \subseteq Kept
  BY <1>2, <1>3, <1>15
<1>17. \A e \in index : e = <<e[1], e[2]>> /\ e[2] \in T
  BY <1>3, <1>4, <1>15, RowsAre
<1>18. edges \subseteq T \X T /\ edges \subseteq X \X X
  <2>1. ASSUME NEW e \in edges
        PROVE  e \in T \X T
    <3>1. PICK k : e \in BucketEdges({d[2] : d \in {d \in reached : d[1] = k}})
      BY <1>6 DEF BucketsEdges
    <3>2. PICK B : B = {d[2] : d \in {d \in reached : d[1] = k}}
      OBVIOUS
    <3>3. B \subseteq T
      BY <1>5, <1>17, <3>2 DEF Touched
    <3>4. e \in B \X B
      BY <3>1, <3>2 DEF BucketEdges
    <3> QED
      BY <3>3, <3>4
  <2>2. ASSUME NEW e \in edges
        PROVE  e \in X \X X
    <3>1. e[1] \in X /\ e[2] \in X
      BY <1>7
    <3> QED
      BY <2>1, <3>1
  <2> QED
    BY <2>1, <2>2
<1>19. X \subseteq T /\ new \subseteq X /\ X \in SUBSET Nat /\ IsFiniteSet(X)
  <2>1. X \subseteq T
    BY <1>3, <1>7, <1>18
  <2>2. X \in SUBSET File
    BY <1>16, <2>1
  <2> QED
    BY <1>7, <2>1, <2>2, FilesAre
<1>20. Roots(X, edges, root) /\ root \in [X -> X]
  BY <1>8, <1>18, <1>19, ComponentsAre DEF Roots
<1>21. PICK s : Absorbed(root, member, 1, Range(root), s) /\ of = s.of
  <2>1. DOMAIN root = X /\ Range(root) \in SUBSET Nat /\ root \in [DOMAIN root -> Range(root)]
    BY <1>19, <1>20 DEF Range
  <2>2. member \in [DOMAIN member -> Nat \ {0}] /\ IsFiniteSet(DOMAIN member)
    BY <1>1, <1>15, FilesAre
  <2>3. \E s : Absorbed(root, member, 1, Range(root), s) /\ Absorb(root, member, 1) = s.of
    BY <1>19, <2>1, <2>2, AbsorbIs
  <2> QED
    BY <1>14, <2>3
<1>22. /\ of \in [DOMAIN of -> Nat \ {0}] /\ M \subseteq DOMAIN of /\ DOMAIN of \subseteq T
       /\ \A f, g \in M : of[f] <= member[f] /\ (member[f] = member[g] => of[f] = of[g])
       /\ \A f \in DOMAIN of : \/ f \in M /\ of[f] = member[f]
                               \/ \E a \in X \cap DOMAIN of : of[f] = of[a]
       /\ \A f, g \in X : root[f] = root[g] => f \in DOMAIN of /\ g \in DOMAIN of /\ of[f] = of[g]
  <2>1. DOMAIN root = X
    BY <1>20
  <2>2. s.next \in Nat /\ of \in [DOMAIN of -> 1..(s.next - 1)]
    BY <1>21 DEF Absorbed
  <2>3. M \subseteq DOMAIN of /\ DOMAIN of \subseteq T
    BY <1>1, <1>3, <1>19, <1>21, <2>1 DEF Absorbed
  <2>4. \A f, g \in M : of[f] <= member[f] /\ (member[f] = member[g] => of[f] = of[g])
    BY <1>1, <1>21 DEF Absorbed
  <2>5. \A f \in DOMAIN of : \/ f \in M /\ of[f] = member[f]
                             \/ \E a \in X \cap DOMAIN of : of[f] = of[a]
    BY <1>1, <1>21, <2>1 DEF Absorbed
  <2>6. ASSUME NEW f \in X, NEW g \in X, root[f] = root[g]
        PROVE  f \in DOMAIN of /\ g \in DOMAIN of /\ of[f] = of[g]
    <3>1. root[f] \in Range(root)
      BY <2>1 DEF Range
    <3> QED
      BY <1>21, <2>1, <2>6, <3>1 DEF Absorbed
  <2> QED
    BY <2>2, <2>3, <2>4, <2>5, <2>6
<1>23. DOMAIN of = T
  BY <1>3, <1>19, <1>22
<1>24. \A i \in Range(of) : i \notin {of[f] : f \in X} =>
         {f \in T : of[f] = i} = {f \in M : member[f] = i} /\ i \in Range(member)
  <2>1. ASSUME NEW i \in Range(of), i \notin {of[f] : f \in X}
        PROVE  {f \in T : of[f] = i} = {f \in M : member[f] = i} /\ i \in Range(member)
    <3>1. PICK g \in T : of[g] = i
      BY <1>23 DEF Range
    <3>2. \A f \in T : of[f] = i => f \in M /\ member[f] = i
      BY <1>22, <1>23, <2>1
    <3>3. \A f \in M : member[f] = i => f \in T /\ of[f] = i
      BY <1>3, <1>22, <3>1, <3>2
    <3> QED
      BY <1>1, <3>1, <3>2, <3>3 DEF Range
  <2> QED
    BY <2>1
<1>25. \A i \in Range(of) : photos[i] = IF i \in {of[f] : f \in X} THEN Tiles(of)[i] ELSE photo[i]
  BY <1>14, <1>20
<1>26. photos = [i \in Range(of) |-> photos[i]]
  BY <1>14
<1>27. ASSUME NEW i \in Range(of)
       PROVE  photos[i].rep \in DOMAIN of /\ of[photos[i].rep] = i
  <2>1. CASE i \in {of[f] : f \in X}
    <3>1. photos[i] = Tiles(of)[i]
      BY <1>25, <2>1
    <3> QED
      BY <1>16, <1>23, <3>1, TilesStand DEF GroupingInv
  <2>2. CASE i \notin {of[f] : f \in X}
    <3>1. photos[i] = photo[i]
      BY <1>25, <2>2
    <3>2. i \in Range(member) /\ {f \in T : of[f] = i} = {f \in M : member[f] = i}
      BY <1>24, <2>2
    <3>3. photo[i].rep \in M /\ member[photo[i].rep] = i
      BY <1>15, <3>2
    <3> QED
      BY <1>23, <3>1, <3>2, <3>3
  <2> QED
    BY <2>1, <2>2
<1>28. {e \in index : e[2] \in sound \union new} = PairRows(sound \union new)
  <2>1. {e \in pairKey : e[2] \in sound \union new} = {e \in pairKey : e[2] \in sound}
    BY <1>15, <1>16
  <2>2. PairRows(sound \union new) = PairRows(sound) \union PairRows(new)
    BY DEF PairRows
  <2>3. {e \in PairRows(new) : e[2] \in sound \union new} = PairRows(new)
    BY RowsAre
  <2> QED
    BY <1>4, <1>15, <2>1, <2>2, <2>3
<1>29. bands = BandRows(T)
  BY <1>3, <1>10, <1>15 DEF BandRows, Hashed
<1>30. PICK H : H = Hashed(T)
  OBVIOUS
<1>31. H \in SUBSET File /\ hashed \subseteq H /\ Hashed(M) \subseteq H /\ H \ hashed = Hashed(M) \ hashed
  BY <1>3, <1>9, <1>16, <1>30 DEF Hashed
<1>32. Y \subseteq H /\ Y \in SUBSET Nat /\ IsFiniteSet(Y) /\ close \subseteq Y \X Y
  <2>1. ASSUME NEW e \in close
        PROVE  e[1] \in hashed /\ e[2] \in H /\ e = <<e[1], e[2]>>
    <3>1. PICK b : <<b, e[2]>> \in BandRows(T)
      BY <1>11, <1>29
    <3>2. e[2] \in Hashed(T)
      BY <3>1 DEF BandRows
    <3> QED
      BY <1>11, <1>30, <3>2
  <2>2. Y \subseteq H
    BY <1>12, <1>31, <2>1
  <2>3. close \subseteq Y \X Y
    BY <1>12, <2>1
  <2>4. Y \in SUBSET File
    BY <1>31, <2>2
  <2> QED
    BY <2>2, <2>3, <2>4, FilesAre
<1>33. Roots(Y, close, alike) /\ alike \in [Y -> Y]
  BY <1>13, <1>32, ComponentsAre DEF Roots
<1>34. PICK t : Absorbed(alike, nearDup, 2, Range(alike), t) /\ dup = t.of
  <2>1. DOMAIN alike = Y /\ Range(alike) \in SUBSET Nat /\ alike \in [DOMAIN alike -> Range(alike)]
    BY <1>32, <1>33 DEF Range
  <2>2. DOMAIN nearDup \in SUBSET File
    BY <1>15, <1>31
  <2>3. IsFiniteSet(DOMAIN nearDup)
    BY <2>2, FilesAre
  <2>4. \E s2 : Absorbed(alike, nearDup, 2, Range(alike), s2) /\ Absorb(alike, nearDup, 2) = s2.of
    BY <1>15, <1>32, <2>1, <2>3, AbsorbIs
  <2> QED
    BY <1>14, <2>4
<1>35. dup \in [DOMAIN dup -> Nat \ {0}] /\ DOMAIN dup \subseteq H
  <2>1. t.next \in Nat /\ dup \in [DOMAIN dup -> 1..(t.next - 1)]
    BY <1>34 DEF Absorbed
  <2>2. DOMAIN dup \subseteq DOMAIN nearDup \union DOMAIN alike
    BY <1>34 DEF Absorbed
  <2> QED
    BY <1>15, <1>31, <1>32, <1>33, <2>1, <2>2
<1>36. ASSUME T \subseteq sound \union new
       PROVE  GroupsAre(of, photos, dup)
  <2>1. M = sound /\ M \subseteq Kept /\ T \subseteq Kept
    BY <1>3, <1>15, <1>16, <1>36
  <2>2. /\ \A f, g \in M : member[f] = member[g] <=> Chained(M, PairEdges(M), f, g)
        /\ photo = Tiles(member)
        /\ \A f, g \in Hashed(M) : f # g =>
             (Chained(Hashed(M), CloseEdges(Hashed(M)), f, g)
                <=> f \in DOMAIN nearDup /\ g \in DOMAIN nearDup /\ nearDup[f] = nearDup[g])
    <3>1. GroupsAre(member, photo, nearDup)
      BY <1>15, <2>1
    <3> QED
      BY <1>1, <3>1 DEF GroupsAre
  <2>3. reached = Touched(new, PairRows(T))
    <3>1. pairKey = PairRows(M)
      BY <1>15, <2>1
    <3>2. index = PairRows(T)
      BY <1>3, <1>4, <3>1 DEF PairRows
    <3>3. \A e \in Touched(new, index) : e[2] \in Kept
      BY <1>17, <2>1 DEF Touched
    <3> QED
      BY <1>5, <3>2, <3>3
  <2>4. edges \subseteq PairEdges(T) /\ \A e \in PairEdges(T) : e[1] \in new \/ e[2] \in new => e \in edges
    <3>1. new \in SUBSET T
      BY <1>3
    <3> QED
      BY <1>6, <2>3, <3>1, EdgesAre
  <2>5. PICK E : E = PairEdges(T)
    OBVIOUS
  <2>6. E \in SUBSET (T \X T) /\ PairEdges(M) \in SUBSET (M \X M) /\ PairEdges(M) \subseteq E /\ M \subseteq T
    BY <1>3, <2>5 DEF PairEdges
  <2>7. \A x, y \in X : root[x] = root[y] => Chained(T, E, x, y)
    <3>1. ASSUME NEW x \in X, NEW y \in X, root[x] = root[y]
          PROVE  Chained(T, E, x, y)
      <4>1. Chained(X, edges, x, y)
        BY <1>20, <3>1 DEF Roots
      <4> QED
        BY <1>18, <1>19, <2>4, <2>5, <4>1, ChainedMore
    <3> QED
      BY <3>1
  <2>8. \A x, y \in M : member[x] = member[y] => Chained(T, E, x, y)
    <3>1. ASSUME NEW x \in M, NEW y \in M, member[x] = member[y]
          PROVE  Chained(T, E, x, y)
      <4>1. Chained(M, PairEdges(M), x, y)
        BY <2>2, <3>1
      <4> QED
        BY <2>6, <4>1, ChainedMore
    <3> QED
      BY <3>1
  <2>9. ASSUME NEW e \in E
        PROVE  \/ e[1] \in M /\ e[2] \in M /\ member[e[1]] = member[e[2]]
               \/ e[1] \in X /\ e[2] \in X /\ root[e[1]] = root[e[2]]
    <3>1. CASE e[1] \in new \/ e[2] \in new
      <4>1. e \in edges
        BY <2>4, <2>5, <3>1
      <4> QED
        BY <1>18, <1>20, <4>1 DEF Roots
    <3>2. CASE e[1] \notin new /\ e[2] \notin new
      <4>1. e[1] \in M /\ e[2] \in M /\ e = <<e[1], e[2]>>
        BY <1>3, <2>6, <3>2
      <4>2. e \in PairEdges(M)
        BY <2>5, <4>1 DEF PairEdges
      <4>3. Chained(M, PairEdges(M), e[1], e[2])
        BY <2>6, <4>1, <4>2, ChainedUp
      <4> QED
        BY <2>2, <4>1, <4>3
    <3> QED
      BY <3>1, <3>2
  <2>10. \A f, g \in T : f # g => (Chained(T, E, f, g) <=> of[f] = of[g])
    <3>1. DOMAIN root = X /\ X \subseteq T /\ DOMAIN member \subseteq T
      BY <1>1, <1>19, <1>20, <2>6
    <3>2. \A x, y \in DOMAIN member : member[x] = member[y] => Chained(T, E, x, y)
      BY <1>1, <2>8
    <3>3. \A e \in E :
             \/ e[1] = e[2]
             \/ e[1] \in DOMAIN member /\ e[2] \in DOMAIN member /\ member[e[1]] = member[e[2]]
             \/ e[1] \in DOMAIN root /\ e[2] \in DOMAIN root /\ root[e[1]] = root[e[2]]
      BY <1>1, <2>9, <3>1
    <3>4. \A x, y \in DOMAIN root : root[x] = root[y] => Chained(T, E, x, y)
      BY <2>7, <3>1
    <3>5. E \in SUBSET (T \X T) /\ Absorbed(root, member, 1, Range(root), s)
      BY <1>21, <2>6
    <3>6. \A f, g \in T : f # g =>
            (Chained(T, E, f, g) <=> f \in DOMAIN s.of /\ g \in DOMAIN s.of /\ s.of[f] = s.of[g])
      BY <3>1, <3>2, <3>3, <3>4, <3>5, AbsorbedAre
    <3> QED
      BY <1>21, <1>23, <3>6
  <2>11. \A f, g \in T : of[f] = of[g] <=> Chained(T, E, f, g)
    <3>1. \A f \in T : Chained(T, E, f, f)
      BY DEF Chained
    <3> QED
      BY <2>10, <3>1
  <2>12. photos = Tiles(of)
    <3>1. ASSUME NEW i \in Range(of)
          PROVE  photos[i] = Tile({f \in T : of[f] = i})
      <4>1. CASE i \in {of[f] : f \in X}
        BY <1>23, <1>25, <4>1 DEF Tiles
      <4>2. CASE i \notin {of[f] : f \in X}
        <5>1. photos[i] = photo[i]
          BY <1>25, <4>2
        <5>2. i \in Range(member) /\ {f \in T : of[f] = i} = {f \in M : member[f] = i}
          BY <1>24, <4>2
        <5>3. photo[i] = Tile({f \in M : member[f] = i})
          BY <1>1, <2>2, <5>2 DEF Tiles
        <5> QED
          BY <5>1, <5>2, <5>3
      <4> QED
        BY <4>1, <4>2
    <3> QED
      BY <1>23, <1>26, <3>1 DEF Tiles
  <2>13. PICK F : F = CloseEdges(H)
    OBVIOUS
  <2>14. F \in SUBSET (H \X H) /\ close \subseteq F
    <3>1. F \in SUBSET (H \X H)
      BY <2>13 DEF CloseEdges
    <3>2. \A e \in close : e \in H \X H /\ Alike(e[1], e[2])
      BY <1>11, <1>32
    <3> QED
      BY <2>13, <3>1, <3>2 DEF CloseEdges
  <2>15. PICK near : near = Hashed(M)
    OBVIOUS
  <2>16. CloseEdges(near) \in SUBSET (near \X near) /\ CloseEdges(near) \subseteq F /\ near \subseteq H
    BY <1>31, <2>13, <2>15 DEF CloseEdges
  <2>17. \A x, y \in Y : alike[x] = alike[y] => Chained(H, F, x, y)
    <3>1. ASSUME NEW x \in Y, NEW y \in Y, alike[x] = alike[y]
          PROVE  Chained(H, F, x, y)
      <4>1. Chained(Y, close, x, y)
        BY <1>33, <3>1 DEF Roots
      <4> QED
        BY <1>32, <2>14, <4>1, ChainedMore
    <3> QED
      BY <3>1
  <2>18. \A x, y \in DOMAIN nearDup : nearDup[x] = nearDup[y] => Chained(H, F, x, y)
    <3>1. ASSUME NEW x \in DOMAIN nearDup, NEW y \in DOMAIN nearDup, nearDup[x] = nearDup[y]
          PROVE  Chained(H, F, x, y)
      <4>1. x \in near /\ y \in near
        BY <1>15, <2>15
      <4>2. CASE x # y
        <5>1. Chained(near, CloseEdges(near), x, y)
          BY <2>2, <2>15, <3>1, <4>1, <4>2
        <5> QED
          BY <2>16, <4>1, <5>1, ChainedMore
      <4>3. CASE x = y
        BY <4>3 DEF Chained
      <4> QED
        BY <4>2, <4>3
    <3> QED
      BY <3>1
  <2>19. ASSUME NEW e \in F
         PROVE  \/ e[1] = e[2]
                \/ e[1] \in DOMAIN nearDup /\ e[2] \in DOMAIN nearDup /\ nearDup[e[1]] = nearDup[e[2]]
                \/ e[1] \in Y /\ e[2] \in Y /\ alike[e[1]] = alike[e[2]]
    <3>1. e[1] \in H /\ e[2] \in H /\ e = <<e[1], e[2]>> /\ Alike(e[1], e[2])
      BY <2>13 DEF CloseEdges
    <3>2. ASSUME NEW x \in hashed, NEW y \in H, x # y, Alike(x, y)
          PROVE  x \in Y /\ y \in Y /\ alike[x] = alike[y]
      <4>1. PICK b : b \in Bands(x) /\ b \in Bands(y)
        BY <1>31, <3>2, CloseShareABand DEF GroupingInv
      <4>2. <<b, y>> \in BandRows(T)
        BY <1>30, <4>1 DEF BandRows
      <4>3. y \in Kept
        BY <1>30, <2>1 DEF Hashed
      <4>4. <<x, y>> \in hashed \X Kept /\ <<x, y>>[1] = x /\ <<x, y>>[2] = y
        BY <4>3
      <4>5. <<x, y>> \in close
        BY <1>11, <1>29, <3>2, <4>1, <4>2, <4>4
      <4>6. alike[<<x, y>>[1]] = alike[<<x, y>>[2]]
        BY <1>33, <4>5 DEF Roots
      <4> QED
        BY <1>32, <4>5, <4>6
    <3>3. CASE e[1] = e[2]
      BY <3>3
    <3>4. CASE e[1] # e[2] /\ e[1] \in hashed
      BY <3>1, <3>2, <3>4
    <3>5. CASE e[1] # e[2] /\ e[2] \in hashed
      <4>1. Alike(e[2], e[1])
        BY <1>31, <3>1, CloseShareABand DEF GroupingInv
      <4> QED
        BY <3>1, <3>2, <3>5, <4>1
    <3>6. CASE e[1] # e[2] /\ e[1] \notin hashed /\ e[2] \notin hashed
      <4>1. e[1] \in near /\ e[2] \in near
        BY <1>31, <2>15, <3>1, <3>6
      <4>2. <<e[1], e[2]>> \in CloseEdges(near)
        BY <3>1, <4>1 DEF CloseEdges
      <4>3. Chained(near, CloseEdges(near), e[1], e[2])
        BY <2>16, <4>1, <4>2, ChainedUp
      <4> QED
        BY <2>2, <2>15, <3>6, <4>1, <4>3
    <3> QED
      BY <3>3, <3>4, <3>5, <3>6
  <2>20. \A f, g \in H : f # g => (Chained(H, F, f, g) <=> f \in DOMAIN dup /\ g \in DOMAIN dup /\ dup[f] = dup[g])
    <3>1. DOMAIN alike = Y /\ DOMAIN nearDup \subseteq H
      BY <1>15, <1>31, <1>33
    <3>2. \A f, g \in H : f # g =>
            (Chained(H, F, f, g) <=> f \in DOMAIN t.of /\ g \in DOMAIN t.of /\ t.of[f] = t.of[g])
      BY <1>32, <1>34, <2>14, <2>17, <2>18, <2>19, <3>1, AbsorbedAre
    <3> QED
      BY <1>34, <3>2
  <2> QED
    BY <1>23, <1>30, <2>5, <2>11, <2>12, <2>13, <2>20 DEF GroupsAre
<1>37. TablesAre(of, photos, index, bands, dup, sound \union new)
  <2>1. /\ of \in [DOMAIN of -> Nat \ {0}] /\ DOMAIN of \subseteq File
        /\ photos = [i \in Range(of) |-> photos[i]]
        /\ \A i \in Range(of) : photos[i].rep \in DOMAIN of /\ of[photos[i].rep] = i
        /\ \A e \in index : e = <<e[1], e[2]>> /\ e[2] \in DOMAIN of
    BY <1>16, <1>17, <1>22, <1>23, <1>26, <1>27
  <2>2. /\ sound \union new \subseteq Kept /\ sound \union new \subseteq DOMAIN of
        /\ bands = BandRows(DOMAIN of)
        /\ dup \in [DOMAIN dup -> Nat \ {0}] /\ DOMAIN dup \subseteq Hashed(DOMAIN of)
    BY <1>3, <1>15, <1>16, <1>23, <1>29, <1>30, <1>35
  <2>3. DOMAIN of \subseteq sound \union new => GroupsAre(of, photos, dup)
    BY <1>23, <1>36
  <2> QED
    BY <1>28, <2>1, <2>2, <2>3 DEF TablesAre
<1>38. Merges(member, of)
  BY <1>1, <1>22 DEF Merges
<1> QED
  BY <1>1, <1>14, <1>37, <1>38

-----------------------------------------------------------------------------
(* The theorems.                                                            *)

LEMMA GroupingStarts == GroupingInit => GroupingInv
<1> SUFFICES ASSUME GroupingInit PROVE GroupingInv
  OBVIOUS
<1>1. corpus \in Worlds /\ published \subseteq File
  BY GroupingAssumption DEF GroupingInit
<1>2. /\ photo = << >> /\ member = << >> /\ nearDup = << >>
      /\ pairKey = {} /\ nearBand = {} /\ sound = {}
  BY DEF GroupingInit
<1>3. DOMAIN member = {} /\ Range(member) = {} /\ DOMAIN nearDup = {}
  BY <1>2 DEF Range
<1>4. PairRows({}) = {} /\ BandRows({}) = {} /\ Hashed({}) = {}
  BY DEF PairRows, BandRows, Hashed
<1>5. Tiles(member) = [i \in {} |-> i] /\ photo = [i \in {} |-> i]
  BY <1>2, <1>3 DEF Tiles
<1>6. member \in [DOMAIN member -> Nat \ {0}] /\ nearDup \in [DOMAIN nearDup -> Nat \ {0}]
  BY <1>2, <1>3
<1>7. photo = [i \in Range(member) |-> photo[i]]
  BY <1>3, <1>5
<1>8. GroupsAre(member, photo, nearDup)
  BY <1>3, <1>4, <1>5 DEF GroupsAre
<1>9. TablesAre(member, photo, pairKey, nearBand, nearDup, sound)
  BY <1>2, <1>3, <1>4, <1>6, <1>7, <1>8 DEF TablesAre
<1> QED
  BY <1>1, <1>9 DEF GroupingInv

\* A step that builds nothing and learns nothing of the clean.
LEMMA CalmStep ==
  ASSUME GroupingInv, UNCHANGED <<tables, corpus>>,
         sound' \subseteq sound, sound' \subseteq Kept', published' \subseteq File,
         \A f \in sound' : NamesOf(f)' = NamesOf(f) /\ taken'[f] = taken[f]
  PROVE  GroupingInv'
<1>1. PICK less : less = sound'
  OBVIOUS
<1>2. TablesAre(member, photo, pairKey, nearBand, nearDup, sound)
  BY DEF GroupingInv
<1>3. PICK of, photos, keys, bands, dup : <<of, photos, keys, bands, dup>> = <<member, photo, pairKey, nearBand, nearDup>>
  OBVIOUS
<1>4. PICK clean : clean = sound
  OBVIOUS
<1>5. TablesAre(of, photos, keys, bands, dup, clean)
  BY <1>2, <1>3, <1>4
<1>6. TablesAre(of, photos, keys, bands, dup, less)'
  BY <1>1, <1>4, <1>5, TablesStay
<1>7. member' = of /\ photo' = photos /\ pairKey' = keys /\ nearBand' = bands /\ nearDup' = dup
  BY <1>3 DEF tables
<1>8. TablesAre(member, photo, pairKey, nearBand, nearDup, sound)'
  BY <1>1, <1>6, <1>7
<1> QED
  BY <1>8 DEF GroupingInv

\* A step that builds, and learns nothing.
LEMMA BuildStep ==
  ASSUME GroupingInv, UNCHANGED <<inputs, corpus>>,
         TablesAre(member', photo', pairKey', nearBand', nearDup', sound')
  PROVE  GroupingInv'
<1>1. PICK of, photos, keys, bands, dup, clean :
        of = member' /\ photos = photo' /\ keys = pairKey' /\ bands = nearBand' /\ dup = nearDup' /\ clean = sound'
  OBVIOUS
<1>2. TablesAre(of, photos, keys, bands, dup, clean)
  BY <1>1
<1>3. Kept' = Kept /\ \A f \in clean : NamesOf(f)' = NamesOf(f) /\ taken'[f] = taken[f]
  BY DEF inputs, Kept, NamesOf
<1>4. clean \subseteq Kept
  BY <1>2 DEF TablesAre
<1>5. TablesAre(of, photos, keys, bands, dup, clean)'
  BY <1>2, <1>3, <1>4, TablesStay
<1>6. TablesAre(member, photo, pairKey, nearBand, nearDup, sound)'
  BY <1>1, <1>5
<1> QED
  BY <1>6 DEF GroupingInv, inputs

LEMMA GroupingSteps == GroupingInv /\ [GroupingNext]_groupingVars => GroupingInv'
<1> SUFFICES ASSUME GroupingInv, [GroupingNext]_groupingVars PROVE GroupingInv'
  OBVIOUS
<1>1. sound \subseteq Kept /\ published \subseteq File
  BY DEF GroupingInv, TablesAre
<1>2. ASSUME NEW f \in File, Publish(f)
      PROVE  GroupingInv'
  <2>1. /\ UNCHANGED <<tables, corpus, condemned, origins, taken>> /\ sound' = sound
        /\ published' = published \union {f}
    BY <1>2 DEF Publish, Edit
  <2>2. sound' \subseteq Kept' /\ published' \subseteq File
    BY <1>1, <2>1 DEF Kept
  <2>3. \A g \in sound' : NamesOf(g)' = NamesOf(g) /\ taken'[g] = taken[g]
    BY <2>1 DEF NamesOf
  <2> QED
    BY <2>1, <2>2, <2>3, CalmStep
<1>3. ASSUME NEW f \in File, Condemn(f)
      PROVE  GroupingInv'
  <2>1. /\ UNCHANGED <<tables, corpus, published, origins, taken>> /\ sound' = sound \ {f}
        /\ condemned' = condemned \union {f}
    BY <1>3 DEF Condemn, Edit
  <2>2. sound' \subseteq sound /\ sound' \subseteq Kept' /\ published' \subseteq File
    BY <1>1, <2>1 DEF Kept
  <2>3. \A g \in sound' : NamesOf(g)' = NamesOf(g) /\ taken'[g] = taken[g]
    BY <2>1 DEF NamesOf
  <2> QED
    BY <2>1, <2>2, <2>3, CalmStep
<1>4. ASSUME NEW f \in File, Clear(f)
      PROVE  GroupingInv'
  <2>1. /\ UNCHANGED <<tables, corpus, published, origins, taken>> /\ sound' = sound
        /\ condemned' = condemned \ {f}
    BY <1>4 DEF Clear, Edit
  <2>2. sound' \subseteq Kept' /\ published' \subseteq File
    BY <1>1, <2>1 DEF Kept
  <2>3. \A g \in sound' : NamesOf(g)' = NamesOf(g) /\ taken'[g] = taken[g]
    BY <2>1 DEF NamesOf
  <2> QED
    BY <2>1, <2>2, <2>3, CalmStep
<1>5. ASSUME NEW o \in Path, Find(o)
      PROVE  GroupingInv'
  <2>1. /\ UNCHANGED <<tables, corpus, published, condemned, taken>>
        /\ sound' = sound \ {corpus.path[o].file} /\ origins' = origins \union {o}
    BY <1>5 DEF Find, Edit
  <2>2. sound' \subseteq sound /\ sound' \subseteq Kept' /\ published' \subseteq File
    BY <1>1, <2>1 DEF Kept
  <2>3. \A g \in sound' : NamesOf(g)' = NamesOf(g) /\ taken'[g] = taken[g]
    BY <2>1 DEF NamesOf
  <2> QED
    BY <2>1, <2>2, <2>3, CalmStep
<1>6. CASE ResolveDates
  <2>1. /\ UNCHANGED <<tables, corpus, published, condemned, origins>>
        /\ sound' = {f \in sound : taken'[f] = taken[f]}
    BY <1>6 DEF ResolveDates
  <2>2. sound' \subseteq sound /\ sound' \subseteq Kept' /\ published' \subseteq File
    BY <1>1, <2>1 DEF Kept
  <2>3. \A g \in sound' : NamesOf(g)' = NamesOf(g) /\ taken'[g] = taken[g]
    BY <2>1 DEF NamesOf
  <2> QED
    BY <2>1, <2>2, <2>3, CalmStep
<1>7. CASE Rebuild
  <2>1. UNCHANGED <<inputs, corpus>>
    BY <1>7 DEF Rebuild
  <2> QED
    BY <1>7, <2>1, RebuildIs, BuildStep
<1>8. ASSUME NEW batch \in SUBSET File, Extend(batch)
      PROVE  GroupingInv'
  <2>1. UNCHANGED <<inputs, corpus>>
    BY <1>8 DEF Extend
  <2> QED
    BY <1>8, <2>1, ExtendIs, BuildStep
<1>9. CASE UNCHANGED groupingVars
  <2>1. UNCHANGED <<tables, corpus, published, condemned, origins, taken>> /\ sound' = sound
    BY <1>9 DEF groupingVars, inputs
  <2>2. sound' \subseteq Kept' /\ published' \subseteq File
    BY <1>1, <2>1 DEF Kept
  <2>3. \A g \in sound' : NamesOf(g)' = NamesOf(g) /\ taken'[g] = taken[g]
    BY <2>1 DEF NamesOf
  <2> QED
    BY <2>1, <2>2, <2>3, CalmStep
<1> QED
  BY <1>2, <1>3, <1>4, <1>5, <1>6, <1>7, <1>8, <1>9 DEF GroupingNext

LEMMA GroupsRight == GroupingInv => GroupsAreTheEvidence
<1> SUFFICES ASSUME GroupingInv, Settled PROVE TilesAreThePairs /\ NearAreTheClose
  BY DEF GroupsAreTheEvidence, TilesAreThePairs, NearAreTheClose
<1>1. GroupsAre(member, photo, nearDup)
  BY DEF GroupingInv, TablesAre, Settled
<1>2. ASSUME NEW f \in DOMAIN member, NEW g \in DOMAIN member
      PROVE  member[f] = member[g] <=> Together(DOMAIN member, Paired, f, g)
  BY <1>1, TogetherIsChained DEF GroupsAre
<1>3. PICK H : H = Hashed(DOMAIN member)
  OBVIOUS
<1>4. ASSUME NEW f \in H, NEW g \in H, f # g
      PROVE  Together(H, Alike, f, g) <=> {f, g} \subseteq DOMAIN nearDup /\ nearDup[f] = nearDup[g]
  <2>1. Together(H, Alike, f, g) <=> Chained(H, CloseEdges(H), f, g)
    BY TogetherIsChained
  <2>2. Chained(H, CloseEdges(H), f, g) <=> f \in DOMAIN nearDup /\ g \in DOMAIN nearDup /\ nearDup[f] = nearDup[g]
    BY <1>1, <1>3, <1>4 DEF GroupsAre
  <2> QED
    BY <2>1, <2>2
<1>5. photo = Tiles(member)
  BY <1>1 DEF GroupsAre
<1>6. TilesAreThePairs
  BY <1>2, <1>5 DEF TilesAreThePairs
<1>7. NearAreTheClose
  BY <1>3, <1>4 DEF NearAreTheClose
<1> QED
  BY <1>6, <1>7

\* What the five tables have to do with each other and with the evidence, and
\* what a date was read from, through any extends, rebuilds and edits
\* (group.py:594, capture_time.py:27).
THEOREM GroupingInvariant == GroupingSpec => [](GroupingInv /\ DatesInv)
  BY GroupingStarts, GroupingSteps, DatesInit, DatesNext, PTL DEF GroupingSpec

\* While nothing was learnt or decided about a tiled file since it got its
\* tile, tiles and near-duplicate groups are those of the evidence, after
\* however many extends of whatever batches (group.py:594).
THEOREM GroupsHold == GroupingSpec => []GroupsAreTheEvidence
  BY GroupingStarts, GroupingSteps, GroupsRight, PTL DEF GroupingSpec

\* Nothing but a rebuild takes a file out of its tile or parts two files, and a
\* tile has members, its representative among them (group.py:653).
THEOREM TilesOnlyMerge == GroupingSpec => ExtendOnlyMerges
<1>1. GroupingInv /\ GroupingInv' /\ [GroupingNext]_groupingVars =>
        [Rebuild \/ /\ \A f, g \in DOMAIN member :
                         /\ f \in DOMAIN member' /\ member'[f] <= member[f]
                         /\ member[f] = member[g] => member'[f] = member'[g]
                    /\ DOMAIN photo' = Range(member')
                    /\ \A i \in DOMAIN photo' : photo'[i].rep \in DOMAIN member' /\ member'[photo'[i].rep] = i]_groupingVars
  <2> SUFFICES ASSUME GroupingInv, GroupingInv', GroupingNext, ~Rebuild
               PROVE  /\ \A f, g \in DOMAIN member :
                           /\ f \in DOMAIN member' /\ member'[f] <= member[f]
                           /\ member[f] = member[g] => member'[f] = member'[g]
                      /\ DOMAIN photo' = Range(member')
                      /\ \A i \in DOMAIN photo' : photo'[i].rep \in DOMAIN member' /\ member'[photo'[i].rep] = i
    OBVIOUS
  <2>1. DOMAIN photo' = Range(member')
    <3>1. photo' = [i \in Range(member') |-> photo'[i]]
      BY DEF GroupingInv, TablesAre
    <3> QED
      BY <3>1
  <2>2. \A i \in Range(member') : photo'[i].rep \in DOMAIN member' /\ member'[photo'[i].rep] = i
    BY DEF GroupingInv, TablesAre
  <2>3. ASSUME member' = member
        PROVE  Merges(member, member')
    <3>1. \A f \in DOMAIN member : member[f] \in Nat
      BY DEF GroupingInv, TablesAre
    <3> QED
      BY <2>3, <3>1 DEF Merges
  <2>4. ASSUME NEW batch \in SUBSET File, Extend(batch)
        PROVE  Merges(member, member')
    BY <2>4, ExtendIs
  <2>5. member' = member \/ \E batch \in SUBSET File : Extend(batch)
    BY DEF GroupingNext, Publish, Condemn, Clear, Find, ResolveDates, tables
  <2>6. Merges(member, member')
    BY <2>3, <2>4, <2>5
  <2> QED
    BY <2>1, <2>2, <2>6 DEF Merges
<1> QED
  BY <1>1, GroupingStarts, GroupingSteps, PTL DEF GroupingSpec, ExtendOnlyMerges

-----------------------------------------------------------------------------
(* Stacking.                                                                *)


\* The fence is monotone: a tile that arrives joins runs and splits none.
LEMMA FenceGrows ==
  ASSUME NEW S, NEW T, S \subseteq T, NEW e, NEW l, SameRun(S, e, l)
  PROVE  SameRun(T, e, l)
BY DEF SameRun

\* Taking a batch off a worklist leaves a part of it.
LEMMA BatchTaken ==
  ASSUME TypeOK, NEW p \in Passes, NEW k \in Frames, Done(p, k)
  PROVE  /\ todo' \in [Passes -> [Frames -> SUBSET Frames]]
         /\ \A q \in Passes, f \in Frames : todo'[q][f] \subseteq todo[q][f]
BY DEF TypeOK, Done

\* Starting a pass plans a part of its work, and nothing of another's.
LEMMA WorkPlanned ==
  ASSUME TypeOK, NEW p \in Passes, NEW k \in Frames, NEW work \in [Frames -> SUBSET Frames],
         Start(p, work, k)
  PROVE  /\ todo' \in [Passes -> [Frames -> SUBSET Frames]]
         /\ \A q \in Passes \ {p} : todo'[q] = todo[q]
         /\ \A f \in Frames : todo'[p][f] \subseteq work[f]
BY DEF TypeOK, Start

LEMMA Stillness == ASSUME Inductive, UNCHANGED vars PROVE Inductive'
<1>1. UNCHANGED <<tiles, substrate, screen, vector, pair, matched, stack, todo, at, seen, upsets, lapsed, late>>
  BY DEF vars, world, rows, job, history
<1>2. TypeOK' /\ WorkOK' BY <1>1 DEF Inductive, TypeOK, WorkOK
<1>3. VerdictsOK' /\ StacksHaveEvidence' /\ (seen \subseteq matched)'
  BY <1>1 DEF Inductive, VerdictsOK, Verdict, StacksHaveEvidence
<1>4. FenceOK' /\ MatchesOK'
  BY <1>1 DEF Inductive, FenceOK, MatchesOK, Planned, SameRun, Near, OnDisk
<1> QED BY <1>2, <1>3, <1>4 DEF Inductive

LEMMA InitInductive == Init => Inductive
<1> SUFFICES ASSUME Init PROVE Inductive OBVIOUS
<1>1. /\ \A p \in Passes, f \in Frames : todo[p][f] = {}
      /\ todo \in [Passes -> [Frames -> SUBSET Frames]]
  BY DEF Init, Nothing
<1>2. TypeOK
  <2>1. substrate \in [Frames -> {"none", "corrupt", "good"}] /\ pair \in [Pairs -> Verdicts \cup {"none"}]
    BY DEF Init
  <2>2. stack \in [Frames -> 0 .. N] /\ upsets \in 0 .. MaxUpsets BY StackingAssumption DEF Init
  <2>3. tiles \in SUBSET Frames BY StackingAssumption DEF Init
  <2> QED BY <1>1, <2>1, <2>2, <2>3 DEF Init, TypeOK
<1>3. WorkOK BY <1>1 DEF WorkOK, Passes
<1>4. VerdictsOK /\ FenceOK /\ MatchesOK
  BY <1>1 DEF Init, VerdictsOK, FenceOK, MatchesOK, Planned, Passes, Pairs
<1>5. StacksHaveEvidence /\ seen \subseteq matched BY DEF Init, StacksHaveEvidence
<1> QED BY <1>2, <1>3, <1>4, <1>5 DEF Inductive

-----------------------------------------------------------------------------
(* The passes.                                                             *)

LEMMA StartEmbedKeeps == ASSUME Inductive, NEW k \in Frames, StartEmbed(k) PROVE Inductive'
<1> DEFINE work == [f \in Frames |-> IF f \in (tiles \cap Photos \cap OnDisk) \ vector THEN {f} ELSE {}]
<1>0. Start("embed", work, k) BY DEF StartEmbed
<1>1. /\ todo' \in [Passes -> [Frames -> SUBSET Frames]]
      /\ \A q \in Passes \ {"embed"} : todo'[q] = todo[q]
      /\ \A f \in Frames : todo'["embed"][f] \subseteq work[f]
  <2>1. work \in [Frames -> SUBSET Frames] OBVIOUS
  <2> QED BY <1>0, <2>1, WorkPlanned DEF Inductive, Passes
<1>2. UNCHANGED <<tiles, substrate, screen, vector, pair, matched, stack, at, seen, upsets, lapsed, late>>
  BY DEF StartEmbed, world, rows, history
<1>3. TypeOK' BY <1>1, <1>2 DEF Inductive, TypeOK
<1>4. WorkOK' BY <1>1, <1>2 DEF Inductive, WorkOK, Passes
<1>5. VerdictsOK' /\ StacksHaveEvidence' /\ (seen \subseteq matched)'
  BY <1>2 DEF Inductive, VerdictsOK, Verdict, StacksHaveEvidence
<1>6. FenceOK' /\ MatchesOK'
  BY <1>1, <1>2 DEF Inductive, FenceOK, MatchesOK, Planned, SameRun, Near, OnDisk, Passes
<1> QED BY <1>3, <1>4, <1>5, <1>6 DEF Inductive

LEMMA EmbedBatchKeeps == ASSUME Inductive, NEW k \in Frames, EmbedBatch(k) PROVE Inductive'
<1>1. /\ todo' \in [Passes -> [Frames -> SUBSET Frames]]
      /\ \A q \in Passes, f \in Frames : todo'[q][f] \subseteq todo[q][f]
  BY BatchTaken DEF EmbedBatch, Inductive, Passes
<1>2. UNCHANGED <<tiles, substrate, screen, pair, matched, stack, at, seen, upsets, lapsed, late>>
  BY DEF EmbedBatch, world, history
<1>3. vector \subseteq vector' /\ vector' \in SUBSET Photos
  <2>1. \A f \in Batch("embed", k) : f \in Photos
    BY StackingAssumption DEF Inductive, WorkOK, Batch, Frames
  <2> QED BY <2>1 DEF EmbedBatch, Inductive, TypeOK
<1>4. TypeOK' BY <1>1, <1>2, <1>3 DEF Inductive, TypeOK
<1>5. WorkOK' BY <1>1 DEF Inductive, WorkOK, Passes
<1>6. VerdictsOK' /\ StacksHaveEvidence' /\ (seen \subseteq matched)'
  BY <1>2 DEF Inductive, VerdictsOK, Verdict, StacksHaveEvidence
<1>7. FenceOK' /\ MatchesOK'
  BY <1>1, <1>2, <1>3 DEF Inductive, FenceOK, MatchesOK, Planned, SameRun, Near, OnDisk, Passes, Pairs
<1> QED BY <1>4, <1>5, <1>6, <1>7 DEF Inductive

LEMMA StartScreenKeeps == ASSUME Inductive, NEW k \in Frames, StartScreen(k) PROVE Inductive'
<1> DEFINE work == [e \in Frames |-> ScreenWork(e)]
<1>0. Start("screen", work, k) BY DEF StartScreen
<1>1. /\ todo' \in [Passes -> [Frames -> SUBSET Frames]]
      /\ \A q \in Passes \ {"screen"} : todo'[q] = todo[q]
      /\ \A f \in Frames : todo'["screen"][f] \subseteq Owed(f)
  <2>1. \A e \in Frames : ScreenWork(e) \subseteq Owed(e) BY DEF ScreenWork
  <2>2. work \in [Frames -> SUBSET Frames] BY <2>1 DEF Inductive, TypeOK, Owed
  <2> QED BY <1>0, <2>1, <2>2, WorkPlanned DEF Inductive, Passes
<1>2. /\ UNCHANGED <<tiles, substrate, screen, vector, pair, matched, stack, seen, upsets, lapsed, late>>
      /\ at' = screen
  BY DEF StartScreen, world, rows, history
<1>3. TypeOK' BY <1>1, <1>2 DEF Inductive, TypeOK
<1>4. WorkOK' BY <1>1, <1>2 DEF Inductive, WorkOK, Passes, Owed
<1>5. VerdictsOK' BY <1>2 DEF StartScreen, Rethresholded, VerdictsOK, Verdict
<1>6. FenceOK'
  BY <1>1, <1>2 DEF Inductive, FenceOK, Planned, SameRun, Near, Passes, Pairs, Owed
<1>7. MatchesOK' BY <1>1, <1>2 DEF Inductive, MatchesOK, Planned, OnDisk, Passes
<1>8. StacksHaveEvidence' /\ (seen \subseteq matched)' BY <1>2 DEF Inductive, StacksHaveEvidence
<1> QED BY <1>3, <1>4, <1>5, <1>6, <1>7, <1>8 DEF Inductive

LEMMA ScreenBatchKeeps == ASSUME Inductive, NEW k \in Frames, ScreenBatch(k) PROVE Inductive'
<1>1. /\ todo' \in [Passes -> [Frames -> SUBSET Frames]]
      /\ \A q \in Passes, f \in Frames : todo'[q][f] \subseteq todo[q][f]
  BY BatchTaken DEF ScreenBatch, Inductive, Passes
<1>2. UNCHANGED <<tiles, substrate, screen, vector, matched, stack, at, seen, upsets, lapsed, late>>
  BY DEF ScreenBatch, world, history
<1>3. \A p \in Pairs : \/ pair'[p] = pair[p]
                       \/ Planned("screen", p) /\ pair'[p] = Verdict(p, at)
  BY DEF ScreenBatch, Planned
<1>4. TypeOK'
  <2>1. pair' \in [Pairs -> Verdicts \cup {"none"}]
    BY DEF ScreenBatch, Inductive, TypeOK, Verdict, Verdicts
  <2> QED BY <1>1, <1>2, <2>1 DEF Inductive, TypeOK
<1>5. WorkOK' BY <1>1 DEF Inductive, WorkOK, Passes
<1>6. VerdictsOK' BY <1>2, <1>3 DEF Inductive, VerdictsOK, Verdict
<1>7. FenceOK'
  BY <1>1, <1>2, <1>3 DEF Inductive, FenceOK, Planned, SameRun, Near, Passes, Pairs
<1>8. MatchesOK'
  \* A pair that has a verdict gets the same one again.
  <2>1. \A p \in Pairs : pair[p] = "survivor" => pair'[p] = "survivor"
    BY <1>3 DEF Inductive, VerdictsOK
  <2> QED BY <1>1, <1>2, <2>1 DEF Inductive, MatchesOK, Planned, OnDisk, Passes, Pairs
<1>9. StacksHaveEvidence' /\ (seen \subseteq matched)' BY <1>2 DEF Inductive, StacksHaveEvidence
<1> QED BY <1>4, <1>5, <1>6, <1>7, <1>8, <1>9 DEF Inductive

LEMMA StartCheckKeeps == ASSUME Inductive, NEW k \in Frames, StartCheck(k) PROVE Inductive'
<1> DEFINE work == [e \in Frames |-> CheckWork(e)]
<1>0. Start("check", work, k) BY DEF StartCheck
<1>1. /\ todo' \in [Passes -> [Frames -> SUBSET Frames]]
      /\ \A q \in Passes \ {"check"} : todo'[q] = todo[q]
      /\ \A f \in Frames : todo'["check"][f] \subseteq Checkable(f)
  <2>1. \A e \in Frames : CheckWork(e) \subseteq Checkable(e) BY DEF CheckWork
  <2>2. work \in [Frames -> SUBSET Frames] BY <2>1 DEF Checkable, OnDisk
  <2> QED BY <1>0, <2>1, <2>2, WorkPlanned DEF Inductive, Passes
<1>2. UNCHANGED <<tiles, substrate, screen, vector, pair, matched, stack, at, seen, upsets, lapsed, late>>
  BY DEF StartCheck, world, rows, history
<1>3. TypeOK' BY <1>1, <1>2 DEF Inductive, TypeOK
<1>4. WorkOK' BY <1>1, <1>2 DEF Inductive, WorkOK, Passes, Checkable, Pairs
<1>5. VerdictsOK' /\ StacksHaveEvidence' /\ (seen \subseteq matched)'
  BY <1>2 DEF Inductive, VerdictsOK, Verdict, StacksHaveEvidence
<1>6. FenceOK' BY <1>1, <1>2 DEF Inductive, FenceOK, Planned, SameRun, Near, Passes
<1>7. MatchesOK'
  <2>1. \A p \in Pairs : p = <<p[1], p[2]>> /\ p[1] \in Frames BY DEF Pairs
  <2>2. \A p \in Pairs : Planned("check", p)' => pair[p] = "survivor" /\ {p[1], p[2]} \subseteq OnDisk
    BY <1>1, <2>1 DEF Planned, Checkable
  <2> QED BY <1>2, <2>2 DEF Inductive, MatchesOK, OnDisk
<1> QED BY <1>3, <1>4, <1>5, <1>6, <1>7 DEF Inductive

LEMMA CheckChunkKeeps == ASSUME Inductive, NEW k \in Frames, CheckChunk(k) PROVE Inductive'
<1>1. /\ todo' \in [Passes -> [Frames -> SUBSET Frames]]
      /\ \A q \in Passes, f \in Frames : todo'[q][f] \subseteq todo[q][f]
  BY BatchTaken DEF CheckChunk, Inductive, Passes
<1>2. UNCHANGED <<tiles, substrate, screen, vector, pair, stack, at, seen, upsets, lapsed>>
  BY DEF CheckChunk, world
<1>3. /\ matched \subseteq matched' /\ matched' \in SUBSET Pairs /\ late' \in SUBSET Pairs
      /\ \A p \in matched' : p \in matched \/ Planned("check", p)
  BY DEF CheckChunk, Inductive, TypeOK, Planned
<1>4. TypeOK' BY <1>1, <1>2, <1>3 DEF Inductive, TypeOK
<1>5. WorkOK' BY <1>1 DEF Inductive, WorkOK, Passes
<1>6. VerdictsOK' /\ StacksHaveEvidence' /\ (seen \subseteq matched)'
  BY <1>2, <1>3 DEF Inductive, VerdictsOK, Verdict, StacksHaveEvidence
<1>7. FenceOK' BY <1>1, <1>2 DEF Inductive, FenceOK, Planned, SameRun, Near, Passes, Pairs
<1>8. MatchesOK' BY <1>1, <1>2, <1>3 DEF Inductive, MatchesOK, Planned, OnDisk, Passes, Pairs
<1> QED BY <1>4, <1>5, <1>6, <1>7, <1>8 DEF Inductive

LEMMA StartPlaceKeeps == ASSUME Inductive, NEW k \in Frames, StartPlace(k) PROVE Inductive'
<1> DEFINE work == [f \in Frames |-> PlaceWork(f)]
<1>0. Start("place", work, k) BY DEF StartPlace
<1>1. /\ todo' \in [Passes -> [Frames -> SUBSET Frames]]
      /\ \A q \in Passes \ {"place"} : todo'[q] = todo[q]
  <2>1. work \in [Frames -> SUBSET Frames] BY DEF PlaceWork, Run, Inductive, TypeOK
  <2> QED BY <1>0, <2>1, WorkPlanned DEF Inductive, Passes
<1>2. /\ UNCHANGED <<tiles, substrate, screen, vector, pair, matched, stack, at, upsets, lapsed, late>>
      /\ seen' = matched
  BY DEF StartPlace, world, rows, history
<1>3. TypeOK' BY <1>1, <1>2 DEF Inductive, TypeOK
<1>4. WorkOK' BY <1>1 DEF Inductive, WorkOK, Passes
<1>5. VerdictsOK' /\ StacksHaveEvidence' /\ (seen \subseteq matched)'
  BY <1>2 DEF Inductive, VerdictsOK, Verdict, StacksHaveEvidence
<1>6. FenceOK' /\ MatchesOK'
  BY <1>1, <1>2 DEF Inductive, FenceOK, MatchesOK, Planned, SameRun, Near, OnDisk, Passes
<1> QED BY <1>3, <1>4, <1>5, <1>6 DEF Inductive

\* What a cut puts into an earlier frame's stack agrees with an earlier frame.
LEMMA CutHasEvidence ==
  ASSUME NEW run \in SUBSET Frames, NEW points \in SUBSET Pairs, NEW s \in [run -> run],
         IsCut(run, points, s), NEW f \in run, s[f] # f
  PROVE  \E m \in Frames : m < f /\ <<m, f>> \in points \cap Agree
<1> DEFINE photos == run \cap Photos
           holding == {m \in photos : m < f /\ s[m] = s[Before(photos, f)]}
           agreed == {m \in holding : <<m, f>> \in points \cap Agree}
<1>1. Cardinality(agreed) * 2 > Cardinality(holding) BY DEF IsCut, Majority
<1>2. IsFiniteSet(holding) /\ IsFiniteSet(Frames)
  <2>1. IsFiniteSet(Frames) BY StackingAssumption, FS_Interval DEF Frames
  <2> QED BY <2>1, FS_Subset
<1>3. agreed # {}
  <2> SUFFICES ASSUME agreed = {} PROVE FALSE OBVIOUS
  <2>1. Cardinality(agreed) = 0 BY FS_EmptySet
  <2>2. Cardinality(holding) \in Nat BY <1>2, FS_CardinalityType
  <2> HIDE DEF agreed, holding
  <2> QED BY <1>1, <2>1, <2>2
<1> QED BY <1>3

LEMMA PlaceRunKeeps == ASSUME Inductive, NEW k \in Frames, PlaceRun(k) PROVE Inductive'
<1> DEFINE run == todo["place"][k]
<1>1. /\ todo' \in [Passes -> [Frames -> SUBSET Frames]]
      /\ \A q \in Passes, f \in Frames : todo'[q][f] \subseteq todo[q][f]
  BY BatchTaken DEF PlaceRun, Inductive, Passes
<1>2. /\ UNCHANGED <<tiles, substrate, screen, vector, pair, matched, at, seen, upsets, lapsed>>
      /\ late' \subseteq late
  BY DEF PlaceRun, world
<1>3. run \in SUBSET Frames BY DEF Inductive, TypeOK, Passes
<1>4. PICK s \in [run -> run] : /\ IsCut(run, seen, s)
                                /\ stack' = [f \in Frames |-> IF f \in run THEN s[f] ELSE stack[f]]
  BY DEF PlaceRun
<1>5. TypeOK'
  <2>1. stack' \in [Frames -> 0 .. N]
    BY <1>3, <1>4, StackingAssumption DEF Inductive, TypeOK, Frames
  <2> QED BY <1>1, <1>2, <2>1 DEF Inductive, TypeOK
<1>6. WorkOK' BY <1>1 DEF Inductive, WorkOK, Passes
<1>7. VerdictsOK' /\ (seen \subseteq matched)' BY <1>2 DEF Inductive, VerdictsOK, Verdict
<1>8. FenceOK' /\ MatchesOK'
  BY <1>1, <1>2 DEF Inductive, FenceOK, MatchesOK, Planned, SameRun, Near, OnDisk, Passes, Pairs
<1>9. StacksHaveEvidence'
  <2> SUFFICES ASSUME NEW f \in Frames, stack'[f] \notin {0, f}
               PROVE  \E m \in Frames : m < f /\ <<m, f>> \in matched \cap Agree
    BY <1>2 DEF StacksHaveEvidence
  <2>1. CASE f \in run
    <3>1. s[f] # f BY <1>4, <2>1
    <3>2. \E m \in Frames : m < f /\ <<m, f>> \in seen \cap Agree
      BY <1>3, <1>4, <2>1, <3>1, CutHasEvidence DEF Inductive, TypeOK
    <3> QED BY <3>2 DEF Inductive
  <2>2. CASE f \notin run BY <1>4, <2>2 DEF Inductive, StacksHaveEvidence
  <2> QED BY <2>1, <2>2
<1> QED BY <1>5, <1>6, <1>7, <1>8, <1>9 DEF Inductive

-----------------------------------------------------------------------------
(* The world outside.                                                      *)

LEMMA RegroupKeeps == ASSUME Inductive, NEW S \in SUBSET Frames, Regroup(S) PROVE Inductive'
<1>1. /\ UNCHANGED <<substrate, screen, vector, pair, matched, stack, todo, at, seen, late>>
      /\ tiles' = S /\ upsets' \in 0 .. MaxUpsets
      /\ lapsed' \in SUBSET {"pairs", "matches", "stacks"}
  BY StackingAssumption DEF Regroup, Upset, rows, job, Inductive, TypeOK
<1>2. TypeOK' /\ WorkOK' BY <1>1 DEF Inductive, TypeOK, WorkOK
<1>3. VerdictsOK' /\ StacksHaveEvidence' /\ (seen \subseteq matched)'
  BY <1>1 DEF Inductive, VerdictsOK, Verdict, StacksHaveEvidence
<1>4. FenceOK'
  <2> SUFFICES ASSUME "pairs" \notin lapsed', NEW p \in Pairs, pair[p] # "none" \/ Planned("screen", p)
               PROVE  {p[1], p[2]} \subseteq S \cap vector /\ SameRun(S, p[1], p[2])
    BY <1>1 DEF FenceOK, Planned, SameRun, Near
  <2>1. tiles \subseteq S /\ "pairs" \notin lapsed BY DEF Regroup
  <2>2. {p[1], p[2]} \subseteq tiles \cap vector /\ SameRun(tiles, p[1], p[2])
    BY <2>1 DEF Inductive, FenceOK
  <2> QED BY <2>1, <2>2, FenceGrows
<1>5. MatchesOK' BY <1>1 DEF Regroup, Inductive, MatchesOK, Planned, OnDisk
<1> QED BY <1>2, <1>3, <1>4, <1>5 DEF Inductive

LEMMA DeriveKeeps ==
  ASSUME Inductive, NEW f \in Photos, NEW d \in {"corrupt", "good"}, Derive(f, d)
  PROVE  Inductive'
<1>1. /\ UNCHANGED <<tiles, screen, vector, pair, matched, stack, todo, at, seen, lapsed, late>>
      /\ upsets' \in 0 .. MaxUpsets
  BY StackingAssumption DEF Derive, Upset, rows, job, history, Inductive, TypeOK
<1>2. substrate' \in [Frames -> {"none", "corrupt", "good"}] /\ OnDisk \subseteq OnDisk'
  BY DEF Derive, Inductive, TypeOK, OnDisk
<1>3. TypeOK' /\ WorkOK' BY <1>1, <1>2 DEF Inductive, TypeOK, WorkOK
<1>4. VerdictsOK' /\ StacksHaveEvidence' /\ (seen \subseteq matched)'
  BY <1>1 DEF Inductive, VerdictsOK, Verdict, StacksHaveEvidence
<1>5. FenceOK' BY <1>1 DEF Inductive, FenceOK, Planned, SameRun, Near
<1>6. MatchesOK' BY <1>1, <1>2 DEF Inductive, MatchesOK, Planned
<1> QED BY <1>3, <1>4, <1>5, <1>6 DEF Inductive

LEMMA RethresholdKeeps == ASSUME Inductive, NEW t \in Screens, Rethreshold(t) PROVE Inductive'
<1>1. /\ UNCHANGED <<tiles, substrate, vector, pair, matched, stack, todo, at, seen, lapsed, late>>
      /\ screen' \in Screens /\ upsets' \in 0 .. MaxUpsets
  BY StackingAssumption DEF Rethreshold, Upset, rows, job, history, Inductive, TypeOK
<1>2. TypeOK' /\ WorkOK' BY <1>1 DEF Inductive, TypeOK, WorkOK
<1>3. VerdictsOK' /\ StacksHaveEvidence' /\ (seen \subseteq matched)'
  BY <1>1 DEF Inductive, VerdictsOK, Verdict, StacksHaveEvidence
<1>4. FenceOK' /\ MatchesOK'
  BY <1>1 DEF Inductive, FenceOK, MatchesOK, Planned, SameRun, Near, OnDisk
<1> QED BY <1>2, <1>3, <1>4 DEF Inductive

LEMMA KillKeeps == ASSUME Inductive, NEW p \in Passes, Kill(p) PROVE Inductive'
<1>1. /\ UNCHANGED <<tiles, substrate, screen, vector, pair, matched, stack, at, seen, lapsed, late>>
      /\ upsets' \in 0 .. MaxUpsets
  BY StackingAssumption DEF Kill, Upset, world, rows, history, Inductive, TypeOK
<1>2. /\ todo' \in [Passes -> [Frames -> SUBSET Frames]]
      /\ \A q \in Passes, f \in Frames : todo'[q][f] \subseteq todo[q][f]
  BY DEF Kill, Nothing, Inductive, TypeOK
<1>3. TypeOK' BY <1>1, <1>2 DEF Inductive, TypeOK
<1>4. WorkOK' BY <1>2 DEF Inductive, WorkOK, Passes
<1>5. VerdictsOK' /\ StacksHaveEvidence' /\ (seen \subseteq matched)'
  BY <1>1 DEF Inductive, VerdictsOK, Verdict, StacksHaveEvidence
<1>6. FenceOK' /\ MatchesOK'
  BY <1>1, <1>2 DEF Inductive, FenceOK, MatchesOK, Planned, SameRun, Near, OnDisk, Passes, Pairs
<1> QED BY <1>3, <1>4, <1>5, <1>6 DEF Inductive

LEMMA DeletePairsKeeps == ASSUME Inductive, DeletePairs PROVE Inductive'
<1>1. /\ UNCHANGED <<tiles, substrate, screen, vector, matched, stack, todo, at, seen, upsets, late>>
      /\ pair' = [p \in Pairs |-> "none"]
      /\ lapsed' = (lapsed \ {"pairs"}) \cup {"matches"}
      /\ todo["screen"] = Nothing
  BY DEF DeletePairs, world, job, Idle
<1>2. TypeOK' /\ WorkOK' BY <1>1 DEF Inductive, TypeOK, WorkOK
<1>3. VerdictsOK' /\ StacksHaveEvidence' /\ (seen \subseteq matched)'
  BY <1>1 DEF Inductive, VerdictsOK, StacksHaveEvidence
<1>4. FenceOK' BY <1>1 DEF FenceOK, Planned, Nothing, Pairs
<1>5. MatchesOK' BY <1>1 DEF MatchesOK
<1> QED BY <1>2, <1>3, <1>4, <1>5 DEF Inductive

LEMMA DeleteStacksKeeps == ASSUME Inductive, DeleteStacks PROVE Inductive'
<1>1. /\ UNCHANGED <<tiles, substrate, screen, vector, pair, matched, todo, at, seen, late>>
      /\ stack' = [f \in Frames |-> 0] /\ upsets' \in 0 .. MaxUpsets
      /\ lapsed' = lapsed \ {"stacks"}
  BY StackingAssumption DEF DeleteStacks, Upset, world, job, Inductive, TypeOK
<1>2. TypeOK' /\ WorkOK' BY <1>1, StackingAssumption DEF Inductive, TypeOK, WorkOK
<1>3. VerdictsOK' /\ StacksHaveEvidence' /\ (seen \subseteq matched)'
  BY <1>1 DEF Inductive, VerdictsOK, Verdict, StacksHaveEvidence
<1>4. FenceOK' /\ MatchesOK'
  BY <1>1 DEF Inductive, FenceOK, MatchesOK, Planned, SameRun, Near, OnDisk
<1> QED BY <1>2, <1>3, <1>4 DEF Inductive

-----------------------------------------------------------------------------
(* The theorems.                                                           *)

\* The inductive invariant holds in every reachable state: worklists in
\* flight and stored rows keep their promises through all four passes.
THEOREM InductiveHolds == Spec => []Inductive
<1>1. Inductive /\ [Next]_vars => Inductive'
  <2> SUFFICES ASSUME Inductive, [Next]_vars PROVE Inductive' OBVIOUS
  <2>1. CASE \E k \in Frames : Pass(k)
    BY <2>1, StartEmbedKeeps, EmbedBatchKeeps, StartScreenKeeps, ScreenBatchKeeps, StartCheckKeeps,
       CheckChunkKeeps, StartPlaceKeeps, PlaceRunKeeps DEF Pass
  <2>2. CASE Outside
    BY <2>2, RegroupKeeps, DeriveKeeps, RethresholdKeeps, KillKeeps, DeletePairsKeeps, DeleteStacksKeeps
       DEF Outside
  <2>3. CASE UNCHANGED vars BY <2>3, Stillness
  <2> QED BY <2>1, <2>2, <2>3 DEF Next
<1> QED BY InitInductive, <1>1, PTL DEF Spec

\* The variables keep their types.
THEOREM TypeCorrect == Spec => []TypeOK
BY InductiveHolds, PTL DEF Inductive

\* While no tile left, what is stored is fenced.
THEOREM PairsStayFenced == Spec => []PairsAreFenced
<1>1. Inductive => PairsAreFenced BY DEF Inductive, FenceOK, PairsAreFenced
<1> QED BY <1>1, InductiveHolds, PTL

\* One table, one screen.
THEOREM ScreensDoNotMix == Spec => []OneScreen
<1>1. Inductive => OneScreen BY DEF Inductive, TypeOK, VerdictsOK, OneScreen
<1> QED BY <1>1, InductiveHolds, PTL

\* Both: the table is what one pass with one screen would have written.
THEOREM TableIsOnePass == Spec => []PairsAreOnePass
<1>1. PairsAreFenced /\ OneScreen => PairsAreOnePass BY DEF PairsAreOnePass
<1> QED BY <1>1, PairsStayFenced, ScreensDoNotMix, PTL

\* No stack is invented out of a pair nobody looked at.
THEOREM StacksRestOnMatches == Spec => []StacksHaveEvidence
BY InductiveHolds, PTL DEF Inductive

\* A part of a finite set with as many elements is all of it.
LEMMA TallyTells ==
  ASSUME NEW done, NEW owed, IsFiniteSet(owed), done \subseteq owed, ~Short(done, owed)
  PROVE  owed \subseteq done
<1>1. IsFiniteSet(done) /\ Cardinality(done) <= Cardinality(owed) BY FS_Subset
<1>2. Cardinality(done) \in Nat /\ Cardinality(owed) \in Nat BY <1>1, FS_CardinalityType
<1>3. Cardinality(done) = Cardinality(owed) BY <1>1, <1>2 DEF Short
<1> QED BY <1>3, FS_Subset

\* While no tile left and no pair was deleted, the tallies tell.
THEOREM TalliesAreHonest == Spec => []TallyIsHonest
<1>1. Inductive => TallyIsHonest
  <2> SUFFICES ASSUME Inductive PROVE TallyIsHonest OBVIOUS
  <2>0. IsFiniteSet(Frames) BY StackingAssumption, FS_Interval DEF Frames
  <2>1. ASSUME "pairs" \notin lapsed, NEW e \in Frames, ScreenWork(e) = {}
        PROVE  Owed(e) \subseteq Screened(e)
    <3>1. Screened(e) \subseteq Owed(e)
      BY <2>1 DEF Inductive, FenceOK, Screened, Owed, Pairs
    <3>2. IsFiniteSet(Owed(e)) BY <2>0, FS_Subset DEF Owed, Inductive, TypeOK
    <3>3. CASE Short(Screened(e), Owed(e)) BY <2>1, <3>3 DEF ScreenWork
    <3>4. CASE ~Short(Screened(e), Owed(e)) BY <3>1, <3>2, <3>4, TallyTells
    <3> QED BY <3>3, <3>4
  <2>2. ASSUME "matches" \notin lapsed, NEW e \in Frames, CheckWork(e) = {}
        PROVE  Checkable(e) \subseteq Matched(e)
    <3>1. Matched(e) \subseteq Checkable(e)
      BY <2>2 DEF Inductive, TypeOK, MatchesOK, Matched, Checkable, Pairs
    <3>2. IsFiniteSet(Checkable(e)) BY <2>0, FS_Subset DEF Checkable, OnDisk
    <3>3. CASE Short(Matched(e), Checkable(e)) BY <2>2, <3>3 DEF CheckWork
    <3>4. CASE ~Short(Matched(e), Checkable(e)) BY <3>1, <3>2, <3>4, TallyTells
    <3> QED BY <3>3, <3>4
  <2> QED BY <2>1, <2>2 DEF TallyIsHonest, DoneMeansOwed
<1> QED BY <1>1, InductiveHolds, PTL

\* A worklist holds no frame that has everything: nothing is done twice.
THEOREM ResumesDoWork == Spec => []ResumeMeansWork
<1>1. Inductive => ResumeMeansWork
  <2> SUFFICES ASSUME Inductive, NEW e \in Frames
               PROVE  /\ ScreenWork(e) # {} => ~(Owed(e) \subseteq Screened(e))
                      /\ CheckWork(e) # {} => ~(Checkable(e) \subseteq Matched(e))
    BY DEF ResumeMeansWork
  <2>0. IsFiniteSet(Frames) BY StackingAssumption, FS_Interval DEF Frames
  <2>1. ASSUME NEW done \in SUBSET Frames, NEW owed, owed \subseteq done PROVE ~Short(done, owed)
    <3>1. IsFiniteSet(done) BY <2>0, FS_Subset
    <3>2. IsFiniteSet(owed) /\ Cardinality(owed) <= Cardinality(done) BY <2>1, <3>1, FS_Subset
    <3> QED BY <3>1, <3>2, FS_CardinalityType DEF Short
  <2>2. Screened(e) \in SUBSET Frames /\ Matched(e) \in SUBSET Frames BY DEF Screened, Matched
  <2> QED BY <2>1, <2>2 DEF ScreenWork, CheckWork
<1> QED BY <1>1, InductiveHolds, PTL

\* Passes resume where they were, over one fence and with one screen, through
\* every kill, limit and arrival.
THEOREM PassesAlwaysResume == Spec => []PassesResume
<1>1. TallyIsHonest /\ PairsAreOnePass => PassesResume BY DEF PassesResume
<1> QED BY <1>1, TalliesAreHonest, TableIsOnePass, PTL

-----------------------------------------------------------------------------
(* Runs.                                                                    *)

\* Two frames are in one run when no cut parts them, whichever comes first.
LEMMA RunIs ==
  ASSUME NEW S \in SUBSET Frames, NEW f \in Frames
  PROVE  Run(S, f) = {g \in S : SameRun(S, f, g) /\ SameRun(S, g, f)}
<1>1. \A a, b \in Frames : a >= b => SameRun(S, a, b)
  BY DEF SameRun, Frames
<1>2. \A g \in S : g \in Frames /\ f \in Nat /\ g \in Nat
  BY DEF Frames
<1> QED
  BY <1>1, <1>2 DEF Run

LEMMA FenceGoesOn ==
  ASSUME NEW S, NEW a \in Frames, NEW b \in Frames, NEW d \in Frames, SameRun(S, a, b), SameRun(S, b, d)
  PROVE  SameRun(S, a, d)
<1> SUFFICES ASSUME NEW c \in a .. (d - 1)
             PROVE  \E x, y \in S : x <= c /\ c < y /\ Near(x, y)
  BY DEF SameRun
<1>1. c \in a .. (b - 1) \/ c \in b .. (d - 1)
  BY DEF Frames
<1> QED
  BY <1>1 DEF SameRun

\* A frame names the run of every frame in it.
LEMMA RunOfAny ==
  ASSUME NEW S \in SUBSET Frames, NEW f \in S, NEW g \in Run(S, f)
  PROVE  f \in Run(S, f) /\ f \in Run(S, g) /\ Run(S, g) = Run(S, f)
<1>1. g \in S /\ SameRun(S, f, g) /\ SameRun(S, g, f)
  BY RunIs
<1>2. SameRun(S, f, f)
  BY DEF SameRun, Frames
<1>3. f \in Run(S, f) /\ f \in Run(S, g)
  BY <1>1, <1>2, RunIs
<1>4. ASSUME NEW h \in S
      PROVE  h \in Run(S, g) <=> h \in Run(S, f)
  BY <1>1, RunIs, FenceGoesOn
<1>5. Run(S, g) \subseteq S /\ Run(S, f) \subseteq S
  BY <1>1, RunIs
<1> QED
  BY <1>3, <1>4, <1>5

\* The two frames that bridge a cut of a run are of the run.
LEMMA BridgesAreInside ==
  ASSUME NEW S \in SUBSET Frames, NEW e \in S, NEW l \in S, SameRun(S, e, l),
         NEW c \in e .. (l - 1), NEW x \in S, NEW y \in S, x <= c, c < y, Near(x, y)
  PROVE  x \in Run(S, e) /\ y \in Run(S, e)
<1> USE DEF Frames
<1>1. SameRun(S, x, y) /\ SameRun(S, y, x)
  BY DEF SameRun
<1>2. SameRun(S, x, e) /\ SameRun(S, e, x)
  <2>1. CASE x >= e
    <3>1. \A k \in e .. (x - 1) : k \in e .. (l - 1)
      OBVIOUS
    <3>2. SameRun(S, e, x)
      BY <3>1 DEF SameRun
    <3>3. \A k \in x .. (e - 1) : FALSE
      BY <2>1
    <3>4. SameRun(S, x, e)
      BY <3>3 DEF SameRun
    <3> QED
      BY <3>2, <3>4
  <2>2. CASE x < e
    <3>1. \A k \in x .. (e - 1) : x <= k /\ k < y
      OBVIOUS
    <3>2. SameRun(S, x, e)
      BY <3>1 DEF SameRun
    <3>3. \A k \in e .. (x - 1) : FALSE
      BY <2>2
    <3>4. SameRun(S, e, x)
      BY <3>3 DEF SameRun
    <3> QED
      BY <3>2, <3>4
  <2> QED
    BY <2>1, <2>2
<1>3. x \in Run(S, e)
  BY <1>2, RunIs
<1>4. y \in Run(S, x)
  BY <1>1, RunIs
<1> QED
  BY <1>3, <1>4, RunOfAny

\* A run is one of the tiles as they were, when none of its frames came later.
LEMMA RunWithin ==
  ASSUME NEW S \in SUBSET Frames, NEW T \in SUBSET S, NEW f \in T, Run(S, f) \subseteq T
  PROVE  Run(S, f) = Run(T, f)
<1>1. ASSUME NEW e \in Run(S, f), NEW l \in Run(S, f), SameRun(S, e, l)
      PROVE  SameRun(T, e, l)
  <2> SUFFICES ASSUME NEW c \in e .. (l - 1)
               PROVE  \E x, y \in T : x <= c /\ c < y /\ Near(x, y)
    BY DEF SameRun
  <2>1. PICK x \in S, y \in S : x <= c /\ c < y /\ Near(x, y)
    BY <1>1 DEF SameRun
  <2>2. e \in S /\ l \in S /\ Run(S, e) = Run(S, f)
    BY RunIs, RunOfAny
  <2>3. x \in Run(S, e) /\ y \in Run(S, e)
    BY <1>1, <2>1, <2>2, BridgesAreInside
  <2> QED
    BY <2>1, <2>2, <2>3
<1>2. f \in S /\ f \in Run(S, f)
  <2>1. SameRun(S, f, f)
    BY DEF SameRun, Frames
  <2> QED
    BY <2>1, RunIs
<1>3. ASSUME NEW g \in Run(S, f)
      PROVE  g \in Run(T, f)
  <2>1. SameRun(S, f, g) /\ SameRun(S, g, f) /\ g \in T
    BY <1>2, RunIs
  <2>2. SameRun(T, f, g) /\ SameRun(T, g, f)
    BY <1>1, <1>2, <2>1
  <2> QED
    BY <2>1, <2>2, RunIs
<1>4. ASSUME NEW g \in Run(T, f)
      PROVE  g \in Run(S, f)
  <2>1. SameRun(T, f, g) /\ SameRun(T, g, f) /\ g \in T
    BY RunIs
  <2> QED
    BY <1>2, <2>1, FenceGrows, RunIs
<1> QED
  BY <1>3, <1>4

-----------------------------------------------------------------------------
(* What is drawn.                                                           *)

LEMMA BeforeIs ==
  ASSUME NEW S \in SUBSET Frames, NEW f \in Frames, NEW m \in S, m < f
  PROVE  Before(S, f) \in S /\ Before(S, f) < f /\ \A x \in S : x < f => x <= Before(S, f)
<1>1. PICK B : B = {x \in S : x < f}
  OBVIOUS
<1>2. B \in SUBSET Nat /\ B # {} /\ IsFiniteSet(B)
  <2>1. IsFiniteSet(Frames)
    BY StackingAssumption, FS_Interval DEF Frames
  <2>2. B \subseteq Frames /\ B # {}
    BY <1>1
  <2>3. Frames \subseteq Nat
    BY DEF Frames
  <2>4. IsFiniteSet(B)
    BY <2>1, <2>2, FS_Subset
  <2> QED
    BY <2>2, <2>3, <2>4
<1>3. Max(B) \in B /\ \A y \in B : y <= Max(B)
  BY <1>2, MaxIs
<1>4. \E k \in B : \A x \in S : x < f => x <= k
  BY <1>1, <1>3
<1>5. Before(S, f) \in B /\ \A x \in S : x < f => x <= Before(S, f)
  BY <1>1, <1>4 DEF Before
<1> QED
  BY <1>1, <1>5

\* A cut is one of the stacks and of the Matches within its run.
LEMMA CutReadsItsRun ==
  ASSUME NEW run \in SUBSET Frames, NEW points, NEW s, NEW known, NEW t,
         \A f \in run : s[f] = t[f], \A m, f \in run : <<m, f>> \in points <=> <<m, f>> \in known,
         IsCut(run, points, s)
  PROVE  IsCut(run, known, t)
<1> SUFFICES ASSUME NEW f \in run, NEW photos, photos = run \cap Photos
             PROVE  t[f] = IF f \in photos /\ (\E m \in photos : m < f)
                              /\ Majority({m \in photos : m < f /\ t[m] = t[Before(photos, f)]}, f, known)
                           THEN t[Before(photos, f)] ELSE f
  BY DEF IsCut
<1>1. s[f] = IF f \in photos /\ (\E m \in photos : m < f)
                /\ Majority({m \in photos : m < f /\ s[m] = s[Before(photos, f)]}, f, points)
             THEN s[Before(photos, f)] ELSE f
  BY DEF IsCut
<1>2. CASE ~(f \in photos /\ \E m \in photos : m < f)
  BY <1>1, <1>2
<1>3. CASE f \in photos /\ \E m \in photos : m < f
  <2>1. PICK b : b = Before(photos, f)
    OBVIOUS
  <2>2. b \in photos /\ b \in run
    BY <1>3, <2>1, BeforeIs
  <2>3. PICK H : H = {m \in photos : m < f /\ s[m] = s[b]}
    OBVIOUS
  <2>4. H = {m \in photos : m < f /\ t[m] = t[b]}
    BY <2>2, <2>3
  <2>5. {m \in H : <<m, f>> \in points \cap Agree} = {m \in H : <<m, f>> \in known \cap Agree}
    BY <2>3
  <2>6. Majority(H, f, points) <=> Majority(H, f, known)
    BY <2>5 DEF Majority
  <2>7. s[f] = IF Majority(H, f, points) THEN s[b] ELSE f
    BY <1>1, <1>3, <2>1, <2>3
  <2>8. t[f] = IF Majority(H, f, known) THEN t[b] ELSE f
    BY <2>2, <2>6, <2>7
  <2> QED
    BY <1>3, <2>1, <2>4, <2>8
<1> QED
  BY <1>2, <1>3

\* The tiles when the placing process was started were T: what is left of its
\* worklist are whole runs of T, each with a frame to place, and of what came
\* later nothing is placed.
PlannedFrom(T) ==
  \A k \in Frames : todo["place"][k] # {} =>
    /\ k \in T /\ todo["place"][k] = Run(T, k) /\ \A g \in Run(T, k) : k <= g
    /\ \A t \in tiles \ T : stack[t] = 0
    /\ \E g \in Run(T, k) : stack[g] = 0
PlanOK ==
  "stacks" \notin lapsed =>
    /\ \A f \in Frames : stack[f] # 0 => f \in tiles
    /\ \E T \in SUBSET tiles : PlannedFrom(T)
\* A Match that is not late was read by the last placing process.
ReadOK == matched \ late \subseteq seen
DrawnInv == Inductive /\ PlanOK /\ ReadOK /\ StacksAreDrawn

\* The run of f, when it is placed and nothing of it is late, is drawn.
DrawnAt(f) ==
  (\A g \in Run(tiles, f) : stack[g] # 0) /\ late \cap (Run(tiles, f) \X Run(tiles, f)) = {}
    => IsCut(Run(tiles, f), matched, stack)

LEMMA DrawnEverywhere == StacksAreDrawn <=> ("stacks" \notin lapsed => \A f \in tiles : DrawnAt(f))
BY DEF StacksAreDrawn, DrawnAt

LEMMA DrawnEverywhereNext == StacksAreDrawn' <=> ("stacks" \notin lapsed' => \A f \in tiles' : DrawnAt(f)')
BY DEF StacksAreDrawn, DrawnAt

\* Where nothing of a run moved, what is drawn of it stays.
LEMMA DrawnStays ==
  ASSUME DrawnInv, UNCHANGED <<tiles, matched, stack, late>>, "stacks" \in lapsed => "stacks" \in lapsed'
  PROVE  StacksAreDrawn'
<1>1. ASSUME NEW f \in tiles, DrawnAt(f)
      PROVE  DrawnAt(f)'
  <2>1. PICK S, points, s, l : S = tiles /\ points = matched /\ s = stack /\ l = late
    OBVIOUS
  <2>2. S = tiles' /\ points = matched' /\ s = stack' /\ l = late'
    BY <2>1
  <2>3. PICK run : run = Run(S, f)
    OBVIOUS
  <2>4. (\A g \in run : s[g] # 0) /\ l \cap (run \X run) = {} => IsCut(run, points, s)
    BY <1>1, <2>1, <2>3 DEF DrawnAt
  <2> QED
    BY <2>2, <2>3, <2>4 DEF DrawnAt
<1> QED
  BY <1>1, DrawnEverywhere, DrawnEverywhereNext DEF DrawnInv

LEMMA OthersKeepStacks ==
  ASSUME DrawnInv, UNCHANGED <<tiles, matched, stack, seen, late>>, todo'["place"] = todo["place"],
         "stacks" \in lapsed => "stacks" \in lapsed'
  PROVE  PlanOK' /\ ReadOK' /\ StacksAreDrawn'
<1>1. ASSUME NEW T, PlannedFrom(T)
      PROVE  PlannedFrom(T)'
  BY <1>1 DEF PlannedFrom, Run, SameRun, Near
<1>2. PlanOK' /\ ReadOK'
  BY <1>1 DEF DrawnInv, PlanOK, ReadOK
<1> QED
  BY <1>2, DrawnStays

LEMMA KillKeepsStacks == ASSUME DrawnInv, NEW p \in Passes, Kill(p) PROVE PlanOK' /\ ReadOK' /\ StacksAreDrawn'
<1>1. UNCHANGED <<tiles, matched, stack, seen, late, lapsed>> /\ todo' = [todo EXCEPT ![p] = Nothing]
  BY DEF Kill, world, rows, history
<1>2. CASE p # "place"
  BY <1>1, <1>2, OthersKeepStacks DEF DrawnInv, Inductive, TypeOK
<1>3. CASE p = "place"
  <2>1. \A k \in Frames : todo'["place"][k] = {}
    BY <1>1, <1>3 DEF DrawnInv, Inductive, TypeOK, Nothing
  <2>2. PlannedFrom(tiles)'
    BY <2>1 DEF PlannedFrom
  <2>3. PlanOK' /\ ReadOK'
    BY <1>1, <2>1 DEF DrawnInv, PlanOK, PlannedFrom, ReadOK
  <2> QED
    BY <1>1, <2>3, DrawnStays
<1> QED
  BY <1>2, <1>3

\* A Match that comes is late, and what was drawn stays drawn without it.
LEMMA CheckKeepsStacks ==
  ASSUME DrawnInv, NEW k \in Frames, CheckChunk(k)
  PROVE  PlanOK' /\ ReadOK' /\ StacksAreDrawn'
<1>1. /\ UNCHANGED <<tiles, stack, seen, lapsed>> /\ todo'["place"] = todo["place"]
      /\ matched \subseteq matched' /\ late' = late \cup (matched' \ matched)
  <2>1. UNCHANGED <<tiles, stack, seen, lapsed>> /\ Done("check", k)
    BY DEF CheckChunk, world
  <2>2. todo'["place"] = todo["place"]
    BY <2>1 DEF Done, DrawnInv, Inductive, TypeOK
  <2>3. matched \subseteq matched' /\ late' = late \cup (matched' \ matched)
    BY DEF CheckChunk
  <2> QED
    BY <2>1, <2>2, <2>3
<1>2. ASSUME NEW T, PlannedFrom(T)
      PROVE  PlannedFrom(T)'
  BY <1>1, <1>2 DEF PlannedFrom, Run, SameRun, Near
<1>3. PlanOK' /\ ReadOK'
  BY <1>1, <1>2 DEF DrawnInv, PlanOK, ReadOK
<1>4. ASSUME NEW f \in tiles, DrawnAt(f)
      PROVE  DrawnAt(f)'
  <2>0. tiles \in SUBSET Frames
    BY DEF DrawnInv, Inductive, TypeOK
  <2>1. PICK run : run = Run(tiles, f) /\ run \in SUBSET Frames
    <3>1. Run(tiles, f) \subseteq tiles
      BY DEF Run
    <3> QED
      BY <2>0, <3>1
  <2>2. Run(tiles', f) = run
    BY <1>1, <2>1
  <2>3. ASSUME \A g \in run : stack'[g] # 0, late' \cap (run \X run) = {}
        PROVE  IsCut(run, matched', stack')
    <3>1. IsCut(run, matched, stack)
      BY <1>1, <1>4, <2>1, <2>3 DEF DrawnAt
    <3>2. \A m, g \in run : <<m, g>> \in matched <=> <<m, g>> \in matched'
      BY <1>1, <2>3
    <3> QED
      BY <1>1, <2>1, <3>1, <3>2, CutReadsItsRun
  <2> QED
    BY <2>2, <2>3 DEF DrawnAt
<1> QED
  BY <1>1, <1>3, <1>4, DrawnEverywhere, DrawnEverywhereNext DEF DrawnInv

LEMMA StartKeepsStacks ==
  ASSUME DrawnInv, NEW k \in Frames, StartPlace(k)
  PROVE  PlanOK' /\ ReadOK' /\ StacksAreDrawn'
<1>1. /\ UNCHANGED <<tiles, matched, stack, late, lapsed>> /\ seen' = matched
      /\ \A f \in Frames : todo'["place"][f] \in {{}, PlaceWork(f)}
  BY DEF StartPlace, Start, world, rows, history, DrawnInv, Inductive, TypeOK, Passes
<1>2. tiles \in SUBSET Frames
  BY DEF DrawnInv, Inductive, TypeOK
<1>3. ASSUME NEW f \in Frames, todo'["place"][f] # {}
      PROVE  /\ f \in tiles /\ todo'["place"][f] = Run(tiles, f) /\ \A g \in Run(tiles, f) : f <= g
             /\ \E g \in Run(tiles, f) : stack[g] = 0
  BY <1>1, <1>3 DEF PlaceWork
<1>4. PlannedFrom(tiles)'
  BY <1>1, <1>3 DEF PlannedFrom
<1>5. PlanOK' /\ ReadOK'
  <2>1. tiles' \in SUBSET tiles'
    OBVIOUS
  <2> QED
    BY <1>1, <1>4, <2>1 DEF DrawnInv, PlanOK, ReadOK
<1> QED
  BY <1>1, <1>5, DrawnStays

\* Tiles that come are not placed: a run that is all placed is the one it was.
LEMMA RegroupKeepsStacks ==
  ASSUME DrawnInv, NEW S \in SUBSET Frames, Regroup(S)
  PROVE  PlanOK' /\ ReadOK' /\ StacksAreDrawn'
<1>1. /\ UNCHANGED <<matched, stack, todo, seen, late>> /\ tiles' = S
      /\ "stacks" \notin lapsed' => "stacks" \notin lapsed /\ tiles \subseteq S
  BY DEF Regroup, rows, job
<1>2. ASSUME "stacks" \notin lapsed', NEW T \in SUBSET tiles, PlannedFrom(T)
      PROVE  PlannedFrom(T)'
  <2>1. \A t \in S \ tiles : stack[t] = 0
    BY <1>1, <1>2 DEF DrawnInv, PlanOK
  <2>2. todo' = todo /\ stack' = stack /\ tiles' = S
    BY <1>1
  <2>3. ASSUME NEW k \in Frames, todo["place"][k] # {}, NEW t \in S \ T
        PROVE  stack[t] = 0
    BY <1>2, <2>1, <2>3 DEF PlannedFrom
  <2>4. \A k \in Frames : Run(T, k)' = Run(T, k)
    BY DEF Run, SameRun, Near
  <2> QED
    BY <1>2, <2>2, <2>3, <2>4 DEF PlannedFrom
<1>3. PlanOK' /\ ReadOK'
  <2>1. ReadOK'
    BY <1>1 DEF DrawnInv, ReadOK
  <2>2. ASSUME "stacks" \notin lapsed'
        PROVE  (\A f \in Frames : stack'[f] # 0 => f \in tiles') /\ \E T \in SUBSET tiles' : PlannedFrom(T)'
    <3>1. PICK T \in SUBSET tiles : PlannedFrom(T)
      BY <1>1, <2>2 DEF DrawnInv, PlanOK
    <3>2. PlannedFrom(T)' /\ T \in SUBSET tiles'
      BY <1>1, <1>2, <2>2, <3>1
    <3> QED
      BY <1>1, <2>2, <3>2 DEF DrawnInv, PlanOK
  <2> QED
    BY <2>1, <2>2 DEF PlanOK
<1>4. ASSUME "stacks" \notin lapsed', NEW f \in S
      PROVE  DrawnAt(f)'
  <2>1. PICK run : run = Run(S, f) /\ run \in SUBSET S
    BY DEF Run
  <2>2. ASSUME \A g \in run : stack[g] # 0, late \cap (run \X run) = {}
        PROVE  IsCut(run, matched, stack)
    <3>1. run \subseteq tiles /\ f \in run
      <4>1. f \in run
        <5>1. SameRun(S, f, f)
          BY DEF SameRun, Frames
        <5> QED
          BY <2>1, <5>1, RunIs
      <4> QED
        BY <1>1, <1>4, <2>1, <2>2, <4>1 DEF DrawnInv, PlanOK
    <3>2. run = Run(tiles, f) /\ f \in tiles
      BY <1>1, <1>4, <2>1, <3>1, RunWithin
    <3>3. DrawnAt(f)
      BY <1>1, <1>4, <3>2, DrawnEverywhere, DrawnEverywhereNext DEF DrawnInv
    <3> QED
      BY <2>2, <3>2, <3>3 DEF DrawnAt
  <2>3. Run(tiles', f) = run
    BY <1>1, <2>1
  <2> QED
    BY <1>1, <2>2, <2>3 DEF DrawnAt
<1> QED
  BY <1>1, <1>3, <1>4, DrawnEverywhere, DrawnEverywhereNext

LEMMA DeleteKeepsStacks == ASSUME DrawnInv, DeleteStacks PROVE PlanOK' /\ ReadOK' /\ StacksAreDrawn'
<1>1. UNCHANGED <<tiles, matched, todo, seen, late>> /\ stack' = [f \in Frames |-> 0] /\ Idle("place")
  BY DEF DeleteStacks, world, job
<1>2. PlannedFrom({})'
  BY <1>1 DEF PlannedFrom, Idle, Nothing
<1>3. PlanOK' /\ ReadOK'
  <2>1. {} \in SUBSET tiles'
    OBVIOUS
  <2> QED
    BY <1>1, <1>2, <2>1 DEF DrawnInv, PlanOK, ReadOK
<1>4. ASSUME NEW f \in tiles'
      PROVE  DrawnAt(f)'
  <2>1. f \in Frames /\ tiles' \in SUBSET Frames
    BY <1>1, <1>4 DEF DrawnInv, Inductive, TypeOK
  <2>2. SameRun(tiles', f, f)
    BY <2>1 DEF SameRun, Frames
  <2>3. f \in Run(tiles', f)
    BY <1>4, <2>1, <2>2, RunIs
  <2> QED
    BY <1>1, <2>1, <2>3 DEF DrawnAt
<1> QED
  BY <1>3, <1>4, DrawnEverywhere, DrawnEverywhereNext

\* A placed run is the whole run its frames are in now, or it has a frame that is
\* not placed; and every Match within it that is not late the process has read.
LEMMA PlaceRunKeepsStacks ==
  ASSUME DrawnInv, NEW k \in Frames, PlaceRun(k)
  PROVE  PlanOK' /\ ReadOK' /\ StacksAreDrawn'
<1>1. /\ UNCHANGED <<tiles, matched, seen, lapsed>> /\ Batch("place", k) = {k} /\ Done("place", k)
      /\ late' = late \ {p \in seen : {p[1], p[2]} \cap todo["place"][k] # {}}
  BY DEF PlaceRun, world
<1>2. tiles \in SUBSET Frames /\ seen \subseteq matched
  BY DEF DrawnInv, Inductive, TypeOK
<1>3. PICK P : P = todo["place"][k]
  OBVIOUS
<1>4. P \in SUBSET Frames /\ P # {}
  BY <1>1, <1>3 DEF Batch, DrawnInv, Inductive, TypeOK, Passes
<1>5. \A j \in Frames : todo'["place"][j] = IF j <= k THEN {} ELSE todo["place"][j]
  BY <1>1 DEF Done, DrawnInv, Inductive, TypeOK, Passes
<1>6. PICK s \in [P -> P] : /\ IsCut(P, seen, s)
                            /\ stack' = [f \in Frames |-> IF f \in P THEN s[f] ELSE stack[f]]
  BY <1>3 DEF PlaceRun
<1>7. ReadOK'
  <2>1. matched \ late \subseteq seen
    BY DEF DrawnInv, ReadOK
  <2> QED
    BY <1>1, <2>1 DEF ReadOK
<1>8. ASSUME NEW T \in SUBSET tiles, PlannedFrom(T)
      PROVE  k \in T /\ P = Run(T, k) /\ (\A g \in P : k <= g) /\ \A t \in tiles \ T : stack[t] = 0
  BY <1>3, <1>4, <1>8 DEF PlannedFrom
<1>9. PlanOK'
  <2> SUFFICES ASSUME "stacks" \notin lapsed
               PROVE  /\ \A f \in Frames : stack'[f] # 0 => f \in tiles'
                      /\ \E T \in SUBSET tiles' : PlannedFrom(T)'
    BY <1>1 DEF PlanOK
  <2>1. PICK T \in SUBSET tiles : PlannedFrom(T)
    BY DEF DrawnInv, PlanOK
  <2>2. k \in T /\ P = Run(T, k) /\ (\A g \in P : k <= g) /\ \A t \in tiles \ T : stack[t] = 0
    BY <1>8, <2>1
  <2>3. T \in SUBSET Frames /\ P \subseteq T
    BY <1>2, <2>2 DEF Run
  <2>4. \A f \in Frames : stack'[f] # 0 => f \in tiles
    BY <1>6, <2>1, <2>3 DEF DrawnInv, PlanOK
  <2>5. ASSUME NEW j \in Frames, todo'["place"][j] # {}
        PROVE  /\ j \in T /\ todo'["place"][j] = Run(T, j) /\ \A g \in Run(T, j) : j <= g
               /\ \A t \in tiles \ T : stack'[t] = 0
               /\ \E g \in Run(T, j) : stack'[g] = 0
    <3>1. k < j /\ todo'["place"][j] = todo["place"][j]
      BY <1>5, <2>5 DEF Frames
    <3>2. /\ j \in T /\ todo["place"][j] = Run(T, j) /\ \A g \in Run(T, j) : j <= g
          /\ \E g \in Run(T, j) : stack[g] = 0
      BY <2>1, <2>5, <3>1 DEF PlannedFrom
    <3>3. PICK g \in Run(T, j) : stack[g] = 0
      BY <3>2
    <3>4. g \notin P
      <4> SUFFICES ASSUME g \in P PROVE FALSE
        OBVIOUS
      <4>1. Run(T, g) = Run(T, j) /\ Run(T, g) = P /\ k \in P
        BY <2>2, <2>3, <3>2, RunOfAny
      <4>2. j <= k
        BY <3>2, <4>1
      <4> QED
        BY <3>1, <4>2 DEF Frames
    <3>5. g \in Frames
      BY <2>3, <3>3 DEF Run
    <3>6. stack'[g] = 0
      BY <1>6, <3>3, <3>4, <3>5
    <3>7. \A t \in tiles \ T : stack'[t] = 0
      BY <1>2, <1>6, <2>2, <2>3
    <3> QED
      BY <3>1, <3>2, <3>3, <3>6, <3>7
  <2>6. PlannedFrom(T)'
    BY <1>1, <2>5 DEF PlannedFrom
  <2> QED
    BY <1>1, <2>4, <2>6
<1>10. ASSUME "stacks" \notin lapsed, NEW f \in tiles
       PROVE  DrawnAt(f)'
  <2>1. PICK run : run = Run(tiles, f)
    OBVIOUS
  <2>2. run \subseteq tiles
    BY <2>1 DEF Run
  <2>3. ASSUME \A g \in run : stack'[g] # 0, late' \cap (run \X run) = {}
        PROVE  IsCut(run, matched, stack')
    <3>1. CASE run \cap P = {}
      <4>1. \A g \in run : stack'[g] = stack[g]
        BY <1>2, <1>6, <2>2, <3>1
      <4>2. late \cap (run \X run) = {}
        BY <1>1, <1>3, <2>3, <3>1
      <4>3. IsCut(run, matched, stack)
        BY <1>10, <2>1, <2>3, <4>1, <4>2, DrawnEverywhere DEF DrawnInv, DrawnAt
      <4> QED
        BY <1>2, <2>2, <4>1, <4>3, CutReadsItsRun
    <3>2. CASE run \cap P # {}
      <4>1. PICK T \in SUBSET tiles : PlannedFrom(T)
        BY <1>10 DEF DrawnInv, PlanOK
      <4>2. k \in T /\ P = Run(T, k) /\ \A t \in tiles \ T : stack[t] = 0
        BY <1>8, <4>1
      <4>3. T \in SUBSET Frames /\ P \subseteq T
        BY <1>2, <4>2 DEF Run
      <4>4. PICK g \in run : g \in P
        BY <3>2
      <4>5. Run(tiles, g) = run /\ Run(T, g) = P /\ g \in T
        BY <1>2, <2>1, <4>2, <4>3, <4>4, RunOfAny
      <4>6. run \subseteq T
        BY <1>2, <1>6, <2>2, <2>3, <4>2, <4>3
      <4>7. run = P
        BY <1>2, <4>5, <4>6, RunWithin
      <4>8. \A m, h \in P : <<m, h>> \in seen <=> <<m, h>> \in matched
        BY <1>1, <1>2, <2>3, <4>7 DEF DrawnInv, ReadOK
      <4>9. \A h \in P : s[h] = stack'[h]
        BY <1>4, <1>6
      <4> QED
        BY <1>4, <1>6, <4>7, <4>8, <4>9, CutReadsItsRun
    <3> QED
      BY <3>1, <3>2
  <2>4. Run(tiles', f) = run
    BY <1>1, <2>1
  <2> QED
    BY <1>1, <2>3, <2>4 DEF DrawnAt
<1> QED
  BY <1>1, <1>7, <1>9, <1>10, DrawnEverywhereNext

LEMMA DrawnStarts == Init => DrawnInv
<1> SUFFICES ASSUME Init PROVE DrawnInv
  OBVIOUS
<1>1. Inductive
  BY InitInductive
<1>2. todo = [p \in Passes |-> Nothing] /\ stack = [f \in Frames |-> 0] /\ matched = {} /\ tiles \in SUBSET Frames
  BY StackingAssumption DEF Init
<1>3. PlannedFrom({})
  BY <1>2 DEF PlannedFrom, Nothing, Passes
<1>4. PlanOK /\ ReadOK
  <2>1. {} \in SUBSET tiles
    OBVIOUS
  <2> QED
    BY <1>2, <1>3, <2>1 DEF PlanOK, ReadOK
<1>5. ASSUME NEW f \in tiles
      PROVE  DrawnAt(f)
  <2>1. SameRun(tiles, f, f)
    BY <1>2 DEF SameRun, Frames
  <2>2. f \in Run(tiles, f)
    BY <1>2, <2>1, RunIs
  <2> QED
    BY <1>2, <2>2 DEF DrawnAt
<1> QED
  BY <1>1, <1>4, <1>5, DrawnEverywhere DEF DrawnInv

LEMMA DrawnSteps == DrawnInv /\ Inductive' /\ [Next]_vars => DrawnInv'
<1> SUFFICES ASSUME DrawnInv, Inductive', [Next]_vars
             PROVE  PlanOK' /\ ReadOK' /\ StacksAreDrawn'
  BY DEF DrawnInv
<1>1. TypeOK
  BY DEF DrawnInv, Inductive
<1>2. CASE UNCHANGED vars
  BY <1>2, OthersKeepStacks DEF vars, world, rows, job, history
<1>3. ASSUME NEW k \in Frames, Pass(k)
      PROVE  PlanOK' /\ ReadOK' /\ StacksAreDrawn'
  <2>1. CASE StartEmbed(k) \/ EmbedBatch(k) \/ StartScreen(k) \/ ScreenBatch(k) \/ StartCheck(k)
    <3>1. UNCHANGED <<tiles, matched, stack, seen, lapsed, late>>
      BY <2>1 DEF StartEmbed, EmbedBatch, StartScreen, ScreenBatch, StartCheck, world, rows, history
    <3>2. \E p \in Passes \ {"place"} : \E new : todo' = [todo EXCEPT ![p] = new]
      <4>1. "embed" \in Passes \ {"place"} /\ "screen" \in Passes \ {"place"} /\ "check" \in Passes \ {"place"}
        BY DEF Passes
      <4>2. CASE StartEmbed(k) \/ EmbedBatch(k)
        <5>1. \E new : todo' = [todo EXCEPT !["embed"] = new]
          BY <4>2 DEF StartEmbed, EmbedBatch, Start, Done
        <5> QED
          BY <4>1, <5>1
      <4>3. CASE StartScreen(k) \/ ScreenBatch(k)
        <5>1. \E new : todo' = [todo EXCEPT !["screen"] = new]
          BY <4>3 DEF StartScreen, ScreenBatch, Start, Done
        <5> QED
          BY <4>1, <5>1
      <4>4. CASE StartCheck(k)
        <5>1. \E new : todo' = [todo EXCEPT !["check"] = new]
          BY <4>4 DEF StartCheck, Start
        <5> QED
          BY <4>1, <5>1
      <4> QED
        BY <2>1, <4>2, <4>3, <4>4
    <3>3. todo'["place"] = todo["place"]
      BY <1>1, <3>2 DEF TypeOK
    <3> QED
      BY <3>1, <3>3, OthersKeepStacks
  <2> QED
    BY <1>3, <2>1, CheckKeepsStacks, StartKeepsStacks, PlaceRunKeepsStacks DEF Pass
<1>4. ASSUME Outside
      PROVE  PlanOK' /\ ReadOK' /\ StacksAreDrawn'
  <2>1. CASE (\E f \in Photos, d \in {"corrupt", "good"} : Derive(f, d)) \/ (\E t \in Screens : Rethreshold(t)) \/ DeletePairs
    <3>1. UNCHANGED <<tiles, matched, stack, seen, todo, late>> /\ ("stacks" \in lapsed => "stacks" \in lapsed')
      BY <2>1 DEF Derive, Rethreshold, DeletePairs, world, rows, job, history
    <3> QED
      BY <3>1, OthersKeepStacks
  <2> QED
    BY <1>4, <2>1, KillKeepsStacks, RegroupKeepsStacks, DeleteKeepsStacks DEF Outside
<1> QED
  BY <1>2, <1>3, <1>4 DEF Next

\* On show is the one cut drawn from all the Matches there are, whenever and in
\* however many runs the frames were placed, while tiles and Matches kept coming.
THEOREM StacksStayDrawn == Spec => []StacksAreDrawn
<1>1. DrawnInv => StacksAreDrawn
  BY DEF DrawnInv
<1> QED
  BY <1>1, DrawnStarts, DrawnSteps, InductiveHolds, PTL DEF Spec

-----------------------------------------------------------------------------
(* The walks.                                                               *)

LEMMA InOrderIs ==
  ASSUME NEW S \in SUBSET Frames, NEW n, n = Cardinality(S), NEW s, s = InOrder(S)
  PROVE  /\ n \in Nat /\ s \in [1 .. n -> S] /\ \A i, j \in 1 .. n : i < j => s[i] < s[j]
         /\ \A f \in S : \E i \in 1 .. n : s[i] = f
<1>1. IsFiniteSet(S) /\ n \in Nat /\ S \subseteq Nat
  <2>1. IsFiniteSet(Frames) /\ Frames \subseteq Nat
    BY StackingAssumption, FS_Interval DEF Frames
  <2>2. IsFiniteSet(S)
    BY <2>1, FS_Subset
  <2> QED
    BY <2>1, <2>2, FS_CardinalityType
<1>2. PICK R : R = {p \in S \X S : p[1] < p[2]}
  OBVIOUS
<1>3. Orders(R, S)
  <2>1. \A x, y \in S : <<x, y>> \in R <=> x < y
    BY <1>2
  <2> QED
    BY <1>1, <2>1 DEF Orders
<1>4. PICK t \in [1 .. n -> S] : Rises(t, R)
  BY <1>1, <1>3, ListExists
<1>5. \A i, j \in 1 .. n : i < j => t[i] < t[j]
  <2>1. DOMAIN t = 1 .. n
    BY <1>4
  <2>2. \A i, j \in 1 .. n : i < j => <<t[i], t[j]>> \in R
    BY <1>4, <2>1 DEF Rises
  <2> QED
    BY <1>2, <2>2
<1>6. s \in [1 .. n -> S] /\ \A i, j \in 1 .. n : i < j => s[i] < s[j]
  BY <1>4, <1>5 DEF InOrder
<1>7. \A f \in S : \E i \in 1 .. n : s[i] = f
  <2>1. ASSUME NEW i \in 1 .. n, NEW j \in 1 .. n, i # j
        PROVE  s[i] # s[j]
    <3>1. s[i] \in Nat /\ s[j] \in Nat
      BY <1>1, <1>6
    <3>2. i < j \/ j < i
      BY <2>1
    <3> QED
      BY <1>6, <3>1, <3>2
  <2>2. s \in Injection(1 .. n, S)
    BY <1>6, <2>1 DEF Injection, IsInjective
  <2>3. Cardinality(1 .. n) = n
    BY <1>1, FS_Interval
  <2>4. s \in Surjection(1 .. n, S)
    BY <1>1, <2>2, <2>3, FS_Injection
  <2> QED
    BY <2>4 DEF Surjection
<1> QED
  BY <1>1, <1>6, <1>7

\* What a walk has when it has taken the frames of D: increasing parts one after
\* the other.
Parts(cut, D) ==
  /\ cut \in Seq(Seq(Frames))
  /\ \A i \in 1 .. Len(cut) : cut[i] # <<>>
  /\ \A i \in 1 .. Len(cut) : \A a, b \in 1 .. Len(cut[i]) : a < b => cut[i][a] < cut[i][b]
  /\ \A i, j \in 1 .. Len(cut) : i < j => \A x \in ToSet(cut[i]), y \in ToSet(cut[j]) : x < y
  /\ \A x \in D : \E i \in 1 .. Len(cut) : x \in ToSet(cut[i])
  /\ \A i \in 1 .. Len(cut) : ToSet(cut[i]) \subseteq D

\* Of what it holds and the frame, the walk makes the last part.
TakenFrom(cut, f, joins, new, k, held) ==
  /\ k = IF joins THEN Len(cut) ELSE Len(cut) + 1
  /\ held = IF joins THEN cut[Len(cut)] ELSE <<>>
  /\ held \in Seq(Frames)
  /\ k \in Nat \ {0} /\ new \in Seq(Seq(Frames)) /\ Len(new) = k
  /\ \A i \in 1 .. (k - 1) : i \in 1 .. Len(cut) /\ new[i] = cut[i]
  /\ new[k] = Append(held, f)
  /\ ToSet(new[k]) = ToSet(held) \cup {f}

LEMMA AppendedSet ==
  ASSUME NEW held \in Seq(Frames), NEW f \in Frames
  PROVE  ToSet(Append(held, f)) = ToSet(held) \cup {f}
<1>1. PICK n : n = Len(held)
  OBVIOUS
<1>2. PICK new : new = Append(held, f)
  OBVIOUS
<1>3. /\ n \in Nat /\ DOMAIN held = 1 .. n /\ DOMAIN new = 1 .. (n + 1)
      /\ (\A i \in 1 .. n : new[i] = held[i]) /\ new[n + 1] = f
  <2>1. n \in Nat /\ DOMAIN held = 1 .. n
    BY <1>1, LenProperties
  <2>2. new \in Seq(Frames) /\ Len(new) = n + 1 /\ (\A i \in 1 .. n : new[i] = held[i]) /\ new[n + 1] = f
    BY <1>1, <1>2, AppendProperties
  <2>3. DOMAIN new = 1 .. Len(new)
    BY <2>2, LenProperties
  <2> QED
    BY <2>1, <2>2, <2>3
<1>4. ASSUME NEW x
      PROVE  x \in ToSet(new) <=> x \in ToSet(held) \cup {f}
  <2>1. x \in ToSet(new) <=> \E i \in 1 .. (n + 1) : new[i] = x
    BY <1>3 DEF ToSet
  <2>2. x \in ToSet(held) <=> \E i \in 1 .. n : held[i] = x
    BY <1>3 DEF ToSet
  <2>3. \A i \in 1 .. (n + 1) : i \in 1 .. n \/ i = n + 1
    BY <1>3
  <2>4. n + 1 \in 1 .. (n + 1) /\ \A i \in 1 .. n : i \in 1 .. (n + 1)
    BY <1>3
  <2> QED
    BY <1>3, <2>1, <2>2, <2>3, <2>4
<1> QED
  BY <1>2, <1>4

LEMMA TakenIs ==
  ASSUME NEW cut \in Seq(Seq(Frames)), NEW f \in Frames, NEW goesOn, NEW new, new = Taken(cut, f, goesOn)
  PROVE  \E joins \in BOOLEAN : \E k, held :
           (joins <=> cut # <<>> /\ goesOn) /\ TakenFrom(cut, f, joins, new, k, held)
<1>1. PICK n : n = Len(cut) /\ n \in Nat
  BY LenProperties
<1>2. CASE cut # <<>> /\ goesOn
  <2>1. n \in 1 .. Len(cut)
    BY <1>1, <1>2, EmptySeq
  <2>2. PICK held : held = cut[n]
    OBVIOUS
  <2>3. held \in Seq(Frames)
    BY <2>1, <2>2, ElementOfSeq
  <2>4. PICK e : e = Append(held, f)
    OBVIOUS
  <2>5. e \in Seq(Frames)
    BY <2>3, <2>4, AppendProperties
  <2>6. new = [cut EXCEPT ![n] = e]
    BY <1>1, <1>2, <2>2, <2>4 DEF Taken
  <2>7. new \in Seq(Seq(Frames)) /\ Len(new) = n /\ \A j \in 1 .. n : new[j] = IF j = n THEN e ELSE cut[j]
    BY <1>1, <2>1, <2>5, <2>6, ExceptSeq
  <2>8. n \in Nat \ {0} /\ new[n] = e /\ \A i \in 1 .. (n - 1) : i \in 1 .. Len(cut) /\ new[i] = cut[i]
    BY <1>1, <2>1, <2>7
  <2>9. ToSet(new[n]) = ToSet(held) \cup {f}
    BY <2>3, <2>4, <2>8, AppendedSet
  <2>10. TakenFrom(cut, f, TRUE, new, n, held)
    BY <1>1, <2>2, <2>3, <2>4, <2>7, <2>8, <2>9 DEF TakenFrom
  <2> QED
    BY <1>2, <2>10
<1>3. CASE ~(cut # <<>> /\ goesOn)
  <2>1. <<f>> \in Seq(Frames) /\ <<>> \in Seq(Frames) /\ <<f>> = Append(<<>>, f)
    OBVIOUS
  <2>2. new = Append(cut, <<f>>)
    BY <1>3 DEF Taken
  <2>3. new \in Seq(Seq(Frames)) /\ Len(new) = n + 1 /\ (\A i \in 1 .. n : new[i] = cut[i]) /\ new[n + 1] = <<f>>
    BY <1>1, <2>1, <2>2, AppendProperties
  <2>4. ToSet(new[n + 1]) = ToSet(<<>>) \cup {f}
    BY <2>1, <2>3, AppendedSet
  <2>5. n + 1 \in Nat \ {0} /\ \A i \in 1 .. ((n + 1) - 1) : i \in 1 .. Len(cut) /\ new[i] = cut[i]
    BY <1>1, <2>3
  <2>6. TakenFrom(cut, f, FALSE, new, n + 1, <<>>)
    BY <1>1, <2>1, <2>3, <2>4, <2>5 DEF TakenFrom
  <2> QED
    BY <1>3, <2>6
<1> QED
  BY <1>2, <1>3

LEMMA PartsGrow ==
  ASSUME NEW D \in SUBSET Frames, NEW cut, Parts(cut, D), NEW f \in Frames, \A x \in D : x < f,
         NEW joins \in BOOLEAN, joins => cut # <<>>, NEW new, NEW k, NEW held, TakenFrom(cut, f, joins, new, k, held)
  PROVE  Parts(new, D \cup {f}) /\ ToSet(held) \subseteq D
<1>1. PICK n : n = Len(cut)
  OBVIOUS
<1>2. /\ cut \in Seq(Seq(Frames)) /\ n \in Nat
      /\ k = (IF joins THEN n ELSE n + 1) /\ held = (IF joins THEN cut[n] ELSE <<>>)
      /\ held \in Seq(Frames) /\ k \in Nat \ {0} /\ new \in Seq(Seq(Frames)) /\ Len(new) = k
      /\ \A i \in 1 .. (k - 1) : i \in 1 .. n /\ new[i] = cut[i]
      /\ new[k] = Append(held, f) /\ ToSet(new[k]) = ToSet(held) \cup {f}
  BY <1>1, LenProperties DEF Parts, TakenFrom
<1>3. \A i \in 1 .. k : i \in 1 .. (k - 1) \/ i = k
  BY <1>2
<1>4. \A i \in 1 .. n : i \in 1 .. (k - 1) \/ (joins /\ i = k /\ cut[i] = held)
  BY <1>2
<1>5. joins => n \in 1 .. n /\ n = k
  BY <1>1, <1>2, EmptySeq
<1>6. ToSet(held) \subseteq D
  <2>1. CASE joins
    BY <1>1, <1>2, <1>5, <2>1 DEF Parts
  <2>2. CASE ~joins
    <3>1. held = <<>>
      BY <1>2, <2>2
    <3>2. DOMAIN held = {}
      BY <3>1
    <3> QED
      BY <3>2 DEF ToSet
  <2> QED
    BY <2>1, <2>2
<1>7. PICK m, last : m = Len(held) /\ last = new[k]
  OBVIOUS
<1>8. /\ m \in Nat /\ DOMAIN held = 1 .. m
      /\ last # <<>> /\ Len(last) = m + 1 /\ (\A i \in 1 .. m : last[i] = held[i]) /\ last[m + 1] = f
  <2>1. m \in Nat /\ DOMAIN held = 1 .. m
    BY <1>2, <1>7, LenProperties
  <2>2. last # <<>> /\ Len(last) = m + 1 /\ (\A i \in 1 .. m : last[i] = held[i]) /\ last[m + 1] = f
    <3>1. last = Append(held, f) /\ held \in Seq(Frames)
      BY <1>2, <1>7
    <3> QED
      BY <1>7, <3>1, AppendProperties
  <2> QED
    BY <2>1, <2>2
<1>9. \A i \in 1 .. k : new[i] # <<>>
  BY <1>1, <1>2, <1>3, <1>7, <1>8 DEF Parts
<1>10. ASSUME NEW a \in 1 .. (m + 1), NEW b \in 1 .. (m + 1), a < b
       PROVE  last[a] < last[b]
  <2>1. a \in 1 .. m /\ last[a] = held[a] /\ held[a] \in ToSet(held)
    BY <1>8, <1>10 DEF ToSet
  <2>2. CASE b = m + 1
    BY <1>6, <1>8, <2>1, <2>2
  <2>3. CASE b # m + 1
    <3>1. b \in 1 .. m /\ last[b] = held[b]
      BY <1>8, <2>3
    <3>2. joins
      <4> SUFFICES ASSUME ~joins PROVE FALSE
        OBVIOUS
      <4>1. m = 0
        BY <1>2, <1>7
      <4> QED
        BY <3>1, <4>1
    <3>3. held = cut[n] /\ n \in 1 .. n
      BY <1>2, <1>5, <3>2
    <3>4. held[a] < held[b]
      BY <1>1, <1>7, <1>10, <2>1, <3>1, <3>3 DEF Parts
    <3> QED
      BY <2>1, <3>1, <3>4
  <2> QED
    BY <2>2, <2>3
<1>11. \A i \in 1 .. k : \A a, b \in 1 .. Len(new[i]) : a < b => new[i][a] < new[i][b]
  <2> TAKE i \in 1 .. k
  <2>1. CASE i = k
    BY <1>7, <1>8, <1>10, <2>1
  <2>2. CASE i \in 1 .. (k - 1)
    BY <1>1, <1>2, <2>2 DEF Parts
  <2> QED
    BY <1>3, <2>1, <2>2
<1>12. ASSUME NEW i \in 1 .. k, NEW j \in 1 .. k, i < j, NEW x \in ToSet(new[i]), NEW y \in ToSet(new[j])
       PROVE  x < y
  <2>1. i \in 1 .. (k - 1) /\ i \in 1 .. n /\ x \in ToSet(cut[i])
    BY <1>2, <1>12
  <2>2. CASE j \in 1 .. (k - 1)
    <3>1. j \in 1 .. n /\ y \in ToSet(cut[j])
      BY <1>2, <1>12, <2>2
    <3> QED
      BY <1>1, <1>12, <2>1, <3>1 DEF Parts
  <2>3. CASE j = k /\ y = f
    <3>1. x \in D
      BY <1>1, <2>1 DEF Parts
    <3> QED
      BY <2>3, <3>1
  <2>4. CASE j = k /\ y \in ToSet(held)
    <3>1. joins
      <4> SUFFICES ASSUME ~joins PROVE FALSE
        OBVIOUS
      <4>1. m = 0
        BY <1>2, <1>7
      <4>2. 1 .. m = {}
        BY <4>1
      <4>3. DOMAIN held = {}
        BY <1>8, <4>2
      <4> QED
        BY <2>4, <4>3 DEF ToSet
    <3>2. k \in 1 .. n /\ held = cut[k]
      BY <1>2, <1>5, <3>1
    <3> QED
      BY <1>1, <1>12, <2>1, <2>4, <3>2 DEF Parts
  <2> QED
    BY <1>2, <1>3, <1>12, <2>2, <2>3, <2>4
<1>13. ASSUME NEW x \in D \cup {f}
       PROVE  \E i \in 1 .. k : x \in ToSet(new[i])
  <2>0. k \in 1 .. k /\ \A i \in 1 .. (k - 1) : i \in 1 .. k
    BY <1>2
  <2>1. CASE x = f
    BY <1>2, <2>0, <2>1
  <2>2. CASE x \in D
    <3>1. PICK i \in 1 .. n : x \in ToSet(cut[i])
      BY <1>1, <2>2 DEF Parts
    <3>2. CASE i \in 1 .. (k - 1)
      BY <1>2, <2>0, <3>1, <3>2
    <3>3. CASE i = k /\ cut[i] = held
      BY <1>2, <2>0, <3>1, <3>3
    <3> QED
      BY <1>4, <3>2, <3>3
  <2> QED
    BY <1>13, <2>1, <2>2
<1>14. ASSUME NEW i \in 1 .. k
       PROVE  ToSet(new[i]) \subseteq D \cup {f}
  <2>1. CASE i = k
    BY <1>2, <1>6, <2>1
  <2>2. CASE i \in 1 .. (k - 1)
    BY <1>1, <1>2, <2>2 DEF Parts
  <2> QED
    BY <1>3, <2>1, <2>2
<1>15. Parts(new, D \cup {f})
  <2>1. new \in Seq(Seq(Frames)) /\ Len(new) = k
    BY <1>2
  <2> QED
    BY <1>9, <1>11, <1>12, <1>13, <1>14, <2>1 DEF Parts
<1> QED
  BY <1>6, <1>15

\* The steps of a walk over n frames in order, where goes has what goes on.
Cuts == Seq(Seq(Frames))
Lasts(n) == [q \in SUBSET (1 .. n) |-> Max(q)]
Puts(n, s, goes) == [p \in (1 .. n) \X Cuts |-> Taken(p[2], s[p[1]], <<p[2], s[p[1]]>> \in goes)]

LEMMA LastsIs ==
  ASSUME NEW n \in Nat, NEW q \in SUBSET (1 .. n), q # {}
  PROVE  Lasts(n)[q] = Max(q) /\ Max(q) \in q /\ \A i \in q : i <= Max(q)
<1>1. IsFiniteSet(1 .. n) /\ 1 .. n \subseteq Nat
  BY FS_Interval
<1>2. IsFiniteSet(q) /\ q \in SUBSET Nat
  BY <1>1, FS_Subset
<1> QED
  BY <1>2, MaxIs DEF Lasts

LEMMA WalkFolds ==
  ASSUME NEW n \in Nat, NEW s \in [1 .. n -> Frames], NEW goes
  PROVE  Folds(1 .. n, Lasts(n), Cuts, <<>>, Puts(n, s, goes))
<1>1. ASSUME NEW i \in 1 .. n, NEW cut \in Cuts
      PROVE  Taken(cut, s[i], <<cut, s[i]>> \in goes) \in Cuts
  <2>1. s[i] \in Frames
    OBVIOUS
  <2> QED
    BY <2>1, TakenIs DEF Cuts, TakenFrom
<1>2. Puts(n, s, goes) \in [(1 .. n) \X Cuts -> Cuts]
  BY <1>1 DEF Puts
<1>3. IsFiniteSet(1 .. n)
  BY FS_Interval
<1>4. <<>> \in Cuts
  BY DEF Cuts
<1>5. \A q \in SUBSET (1 .. n) : q # {} => Lasts(n)[q] \in q
  BY LastsIs
<1> QED
  BY <1>2, <1>3, <1>4, <1>5 DEF Folds

LEMMA WalkExists ==
  ASSUME NEW n \in Nat, NEW s \in [1 .. n -> Frames], NEW goes
  PROVE  \E g \in [SUBSET (1 .. n) -> Cuts] :
           \A q \in SUBSET (1 .. n) :
             IF q = {} THEN g[q] = <<>>
             ELSE /\ Max(q) \in 1 .. n /\ q \ {Max(q)} \in SUBSET (1 .. n)
                  /\ g[q] = Taken(g[q \ {Max(q)}], s[Max(q)], <<g[q \ {Max(q)}], s[Max(q)]>> \in goes)
<1>1. PICK g \in [SUBSET (1 .. n) -> Cuts] : FoldsTo(1 .. n, g, Lasts(n), <<>>, Puts(n, s, goes))
  BY WalkFolds, FoldExists
<1>2. ASSUME NEW q \in SUBSET (1 .. n), q # {}
      PROVE  /\ Max(q) \in 1 .. n /\ q \ {Max(q)} \in SUBSET (1 .. n)
             /\ g[q] = Taken(g[q \ {Max(q)}], s[Max(q)], <<g[q \ {Max(q)}], s[Max(q)]>> \in goes)
  <2>1. PICK i, r : i = Max(q) /\ r = q \ {i}
    OBVIOUS
  <2>2. Lasts(n)[q] = i /\ i \in 1 .. n /\ r \in SUBSET (1 .. n) /\ g[r] \in Cuts
    BY <1>2, <2>1, LastsIs
  <2>3. g[q] = Puts(n, s, goes)[<<i, g[r]>>]
    BY <1>1, <1>2, <2>1, <2>2 DEF FoldsTo
  <2>4. Puts(n, s, goes)[<<i, g[r]>>] = Taken(g[r], s[i], <<g[r], s[i]>> \in goes)
    BY <2>2 DEF Puts
  <2> QED
    BY <2>1, <2>2, <2>3, <2>4
<1>3. g[{}] = <<>>
  BY <1>1 DEF FoldsTo
<1> QED
  BY <1>2, <1>3

\* h follows a walk, and each of its steps keeps Q of what was taken and its cut.
Walks(n, s, goes, h) ==
  /\ h[{}] = <<>>
  /\ \A q \in SUBSET (1 .. n) : q # {} /\ h[q \ {Max(q)}] \in Cuts =>
       h[q] = Taken(h[q \ {Max(q)}], s[Max(q)], <<h[q \ {Max(q)}], s[Max(q)]>> \in goes)
WalkKeeps(S, goes, Q) ==
  /\ <<{}, <<>>>> \in Q
  /\ \A D \in SUBSET S, cut \in Cuts, f \in S :
       (\A x \in D : x < f) /\ <<D, cut>> \in Q => <<D \cup {f}, Taken(cut, f, <<cut, f>> \in goes)>> \in Q

\* What a walk keeps, frame by frame, it has when it is through.
LEMMA Walked ==
  ASSUME NEW S \in SUBSET Frames, NEW n, n = Cardinality(S), NEW s, s = InOrder(S), NEW goes,
         NEW h, Walks(n, s, goes, h), NEW Q, WalkKeeps(S, goes, Q)
  PROVE  <<S, h[1 .. n]>> \in Q /\ h[1 .. n] \in Cuts
<1>1. /\ n \in Nat /\ s \in [1 .. n -> S] /\ \A i, j \in 1 .. n : i < j => s[i] < s[j]
      /\ \A f \in S : \E i \in 1 .. n : s[i] = f
  BY InOrderIs
<1>2. s \in [1 .. n -> Frames]
  BY <1>1
<1>3. Folds(1 .. n, Lasts(n), Cuts, <<>>, Puts(n, s, goes))
  BY <1>1, <1>2, WalkFolds
<1>4. ASSUME NEW q \in SUBSET (1 .. n), q # {}, h[q \ {Lasts(n)[q]}] \in Cuts
      PROVE  h[q] = Puts(n, s, goes)[<<Lasts(n)[q], h[q \ {Lasts(n)[q]}]>>]
  <2>1. PICK i, r : i = Max(q) /\ r = q \ {i}
    OBVIOUS
  <2>2. Lasts(n)[q] = i /\ i \in 1 .. n
    BY <1>1, <1>4, <2>1, LastsIs
  <2>3. h[r] \in Cuts /\ h[q] = Taken(h[r], s[i], <<h[r], s[i]>> \in goes)
    BY <1>4, <2>1, <2>2 DEF Walks
  <2>4. Puts(n, s, goes)[<<i, h[r]>>] = Taken(h[r], s[i], <<h[r], s[i]>> \in goes)
    BY <2>2, <2>3 DEF Puts
  <2> QED
    BY <2>1, <2>2, <2>3, <2>4
<1>5. FoldsTo(1 .. n, h, Lasts(n), <<>>, Puts(n, s, goes)) /\ \A q \in SUBSET (1 .. n) : h[q] \in Cuts
  <2>1. PICK D, ch, V, base, op : D = 1 .. n /\ ch = Lasts(n) /\ V = Cuts /\ base = <<>> /\ op = Puts(n, s, goes)
    OBVIOUS
  <2>2. Folds(D, ch, V, base, op)
    BY <1>3, <2>1
  <2>3. h[{}] = base
    BY <2>1 DEF Walks
  <2>4. \A q \in SUBSET D : q # {} /\ h[q \ {ch[q]}] \in V => h[q] = op[<<ch[q], h[q \ {ch[q]}]>>]
    BY <1>4, <2>1
  <2>5. FoldsTo(D, h, ch, base, op) /\ \A q \in SUBSET D : h[q] \in V
    BY <2>2, <2>3, <2>4, FoldSolved
  <2> QED
    BY <2>1, <2>5
<1>6. PICK P : P = {p \in (SUBSET (1 .. n)) \X Cuts : <<{s[i] : i \in p[1]}, p[2]>> \in Q}
  OBVIOUS
<1>7. <<{}, <<>>>> \in P
  <2>1. {s[i] : i \in {}} = {} /\ <<>> \in Cuts /\ <<{}, <<>>>> \in Q
    BY DEF Cuts, WalkKeeps
  <2> QED
    BY <1>6, <2>1
<1>8. ASSUME NEW q \in SUBSET (1 .. n), NEW v \in Cuts, q # {}, <<q \ {Lasts(n)[q]}, v>> \in P
      PROVE  <<q, Puts(n, s, goes)[<<Lasts(n)[q], v>>]>> \in P
  <2>1. PICK i, r : i = Max(q) /\ r = q \ {i}
    OBVIOUS
  <2>2. Lasts(n)[q] = i /\ i \in q /\ i \in 1 .. n /\ \A j \in q : j <= i
    BY <1>1, <1>8, <2>1, LastsIs
  <2>3. PICK D, f : D = {s[j] : j \in r} /\ f = s[i]
    OBVIOUS
  <2>4. D \in SUBSET S /\ f \in S /\ \A x \in D : x < f
    <3>1. \A j \in r : j \in 1 .. n /\ j < i
      BY <2>1, <2>2
    <3>2. \A j \in r : s[j] \in S /\ s[j] < s[i]
      BY <1>1, <2>2, <3>1
    <3>3. f \in S
      BY <1>1, <2>2, <2>3
    <3> QED
      BY <2>3, <3>2, <3>3
  <2>5. <<D, v>> \in Q
    BY <1>6, <1>8, <2>1, <2>2, <2>3
  <2>6. PICK w : w = Taken(v, f, <<v, f>> \in goes)
    OBVIOUS
  <2>7. <<D \cup {f}, w>> \in Q
    BY <2>4, <2>5, <2>6 DEF WalkKeeps
  <2>8. D \cup {f} = {s[j] : j \in q}
    BY <2>1, <2>2, <2>3
  <2>9. Puts(n, s, goes)[<<i, v>>] = w
    BY <2>2, <2>3, <2>6 DEF Puts
  <2>10. w \in Cuts
    BY <2>4, <2>6, TakenIs DEF Cuts, TakenFrom
  <2> QED
    BY <1>6, <2>2, <2>7, <2>8, <2>9, <2>10
<1>9. Keeps(1 .. n, Lasts(n), Cuts, <<>>, Puts(n, s, goes), P)
  BY <1>7, <1>8 DEF Keeps
<1>10. <<1 .. n, h[1 .. n]>> \in P
  BY <1>3, <1>5, <1>9, FoldKeeps
<1>11. {s[i] : i \in 1 .. n} = S
  BY <1>1
<1> QED
  BY <1>5, <1>6, <1>10, <1>11

LEMMA LastIs ==
  ASSUME NEW D \in SUBSET Frames, NEW cut, Parts(cut, D), cut # <<>>, NEW n, n = Len(cut), NEW l, l = Last(Last(cut))
  PROVE  /\ n \in 1 .. n /\ Last(cut) = cut[n]
         /\ l \in ToSet(cut[n]) /\ l \in D /\ \A x \in D : x <= l
<1>1. n \in 1 .. n /\ n \in Nat /\ Last(cut) = cut[n] /\ cut[n] \in Seq(Frames) /\ cut[n] # <<>>
  <2>1. cut \in Seq(Seq(Frames))
    BY DEF Parts
  <2>2. n \in 1 .. n /\ n \in Nat
    BY <2>1, EmptySeq
  <2> QED
    BY <2>1, <2>2, ElementOfSeq DEF Parts, Last
<1>2. PICK last, m : last = cut[n] /\ m = Len(last)
  OBVIOUS
<1>3. m \in 1 .. m /\ m \in Nat /\ DOMAIN last = 1 .. m /\ l = last[m]
  <2>1. last \in Seq(Frames) /\ last # <<>> /\ l = Last(last)
    BY <1>1, <1>2
  <2>2. m \in Nat \ {0}
    BY <1>2, <2>1, EmptySeq
  <2> QED
    BY <1>2, <2>1, <2>2, LenProperties DEF Last
<1>4. l \in ToSet(last) /\ l \in D
  <2>1. l \in ToSet(last)
    BY <1>3 DEF ToSet
  <2> QED
    BY <1>1, <1>2, <2>1 DEF Parts
<1>5. ASSUME NEW x \in D
      PROVE  x <= l
  <2>0. x \in Nat /\ l \in Nat
    BY <1>4 DEF Frames
  <2>1. PICK i \in 1 .. n : x \in ToSet(cut[i])
    BY DEF Parts
  <2>2. CASE i < n
    <3>1. x < l
      BY <1>1, <1>2, <1>4, <2>1, <2>2 DEF Parts
    <3> QED
      BY <2>0, <3>1
  <2>3. CASE i = n
    <3>1. PICK a \in 1 .. m : x = last[a]
      BY <1>2, <1>3, <2>1, <2>3 DEF ToSet
    <3>2. CASE a = m
      BY <1>3, <2>0, <3>1, <3>2
    <3>3. CASE a < m
      <4>1. last[a] < last[m]
        BY <1>1, <1>2, <1>3, <3>3 DEF Parts
      <4> QED
        BY <1>3, <2>0, <3>1, <4>1
    <3> QED
      BY <1>3, <3>2, <3>3
  <2> QED
    BY <1>1, <2>2, <2>3
<1> QED
  BY <1>1, <1>2, <1>4, <1>5

\* Between two frames of one camera are only frames of it, in the order of time.
LEMMA OfOneCamera ==
  ASSUME NEW e \in Frames, NEW l \in Frames, e < l, Camera[e] = Camera[l], NEW k \in e .. l
  PROVE  /\ Camera[k] = Camera[e] /\ Secs[e] <= Secs[k] /\ Secs[k] <= Secs[l]
         /\ Secs[e] \in Nat /\ Secs[k] \in Nat /\ Secs[l] \in Nat
<1>1. <<e, l>> \in Pairs
  BY DEF Pairs
<1>2. Camera[k] = Camera[e] /\ Secs[k] \in Secs[e] .. Secs[l]
  <2>1. PICK p : p = <<e, l>>
    OBVIOUS
  <2>2. p \in Pairs /\ p[1] = e /\ p[2] = l
    BY <1>1, <2>1
  <2> QED
    BY <2>2, StackingAssumption
<1>3. k \in Frames
  <2>1. N \in Nat
    BY StackingAssumption
  <2> QED
    BY <2>1 DEF Frames
<1>4. Secs[e] \in Nat /\ Secs[k] \in Nat /\ Secs[l] \in Nat
  BY <1>3, StackingAssumption
<1> QED
  BY <1>2, <1>4

\* A frame behind all others bridges no cut between two of them, and goes on with
\* a run when it goes on with the last frame there is.
LEMMA FenceStep ==
  ASSUME NEW D \in SUBSET Frames, NEW f \in Frames, \A x \in D : x < f
  PROVE  /\ \A x, y \in D : SameRun(D \cup {f}, x, y) <=> SameRun(D, x, y)
         /\ \A l \in D : (\A x \in D : x <= l) =>
              \A x \in D : SameRun(D \cup {f}, x, f) <=> SameRun(D, x, l) /\ GoesOn(l, f)
<1>0. \A x \in Frames : x \in Nat /\ Secs[x] \in Nat
  BY StackingAssumption DEF Frames
<1>00. Ceiling \in Nat
  BY StackingAssumption
<1>1. ASSUME NEW x \in D, NEW y \in D, SameRun(D \cup {f}, x, y)
      PROVE  SameRun(D, x, y)
  <2> SUFFICES ASSUME NEW c \in x .. (y - 1)
               PROVE  \E u, v \in D : u <= c /\ c < v /\ Near(u, v)
    BY DEF SameRun
  <2>1. PICK u \in D \cup {f}, v \in D \cup {f} : u <= c /\ c < v /\ Near(u, v)
    BY <1>1 DEF SameRun
  <2>2. x \in Nat /\ y \in Nat /\ f \in Nat /\ y < f /\ c \in Nat /\ c < y
    BY <1>0
  <2>3. u \in D
    BY <2>1, <2>2
  <2>4. CASE v = f
    <3>1. u \in Nat /\ u < f /\ y \in u .. f
      BY <1>0, <2>1, <2>2, <2>3
    <3>2. Camera[u] = Camera[f] /\ Secs[f] <= Secs[u] + Ceiling
      BY <2>1, <2>4 DEF Near
    <3>3. Camera[y] = Camera[u] /\ Secs[y] <= Secs[f] /\ Secs[u] \in Nat /\ Secs[y] \in Nat /\ Secs[f] \in Nat
      BY <2>3, <3>1, <3>2, OfOneCamera
    <3>4. Near(u, y)
      BY <1>00, <3>2, <3>3 DEF Near
    <3> QED
      BY <2>1, <2>2, <2>3, <3>4
  <2> QED
    BY <2>1, <2>3, <2>4
<1>2. \A x, y \in D : SameRun(D \cup {f}, x, y) <=> SameRun(D, x, y)
  BY <1>1, FenceGrows
<1>3. ASSUME NEW l \in D, \A x \in D : x <= l, NEW x \in D
      PROVE  SameRun(D \cup {f}, x, f) <=> SameRun(D, x, l) /\ GoesOn(l, f)
  <2>1. x \in Nat /\ l \in Nat /\ f \in Nat /\ x <= l /\ l < f
    BY <1>0, <1>3
  <2>2. ASSUME SameRun(D, x, l), GoesOn(l, f)
        PROVE  SameRun(D \cup {f}, x, f)
    <3>1. Near(l, f)
      BY <1>0, <1>00, <2>2 DEF GoesOn, Near
    <3>2. SameRun(D \cup {f}, l, f)
      <4> SUFFICES ASSUME NEW c \in l .. (f - 1)
                   PROVE  \E u, v \in D \cup {f} : u <= c /\ c < v /\ Near(u, v)
        BY DEF SameRun
      <4>1. l <= c /\ c < f
        BY <2>1
      <4> QED
        BY <3>1, <4>1
    <3>3. SameRun(D \cup {f}, x, l)
      BY <2>2, FenceGrows
    <3> QED
      BY <3>2, <3>3, FenceGoesOn
  <2>3. ASSUME SameRun(D \cup {f}, x, f)
        PROVE  SameRun(D, x, l) /\ GoesOn(l, f)
    <3>1. SameRun(D \cup {f}, x, l)
      <4>1. \A c \in x .. (l - 1) : c \in x .. (f - 1)
        BY <2>1
      <4> QED
        BY <2>3, <4>1 DEF SameRun
    <3>2. l \in x .. (f - 1)
      BY <2>1
    <3>3. PICK u \in D \cup {f}, v \in D \cup {f} : u <= l /\ l < v /\ Near(u, v)
      BY <2>3, <3>2 DEF SameRun
    <3>4. v = f /\ u \in D /\ u \in Nat /\ u < f /\ l \in u .. f
      BY <1>0, <1>3, <2>1, <3>3
    <3>5. Camera[u] = Camera[f] /\ Secs[f] <= Secs[u] + Ceiling
      BY <3>3, <3>4 DEF Near
    <3>6. Camera[l] = Camera[u] /\ Secs[u] <= Secs[l] /\ Secs[u] \in Nat /\ Secs[l] \in Nat /\ Secs[f] \in Nat
      BY <3>4, <3>5, OfOneCamera
    <3>7. GoesOn(l, f)
      BY <1>00, <3>5, <3>6 DEF GoesOn
    <3> QED
      BY <1>2, <3>1, <3>7
  <2> QED
    BY <2>2, <2>3
<1> QED
  BY <1>2, <1>3

\* No cut parts the frames of one part, and one parts those of two.
Fenced(cut, D) ==
  /\ \A i \in 1 .. Len(cut) : \A x, y \in ToSet(cut[i]) : x <= y => SameRun(D, x, y)
  /\ \A i, j \in 1 .. Len(cut) : i < j => \A x \in ToSet(cut[i]), y \in ToSet(cut[j]) : ~SameRun(D, x, y)

LEMMA FencedGrows ==
  ASSUME NEW D \in SUBSET Frames, NEW cut, Parts(cut, D), Fenced(cut, D), NEW f \in Frames, \A x \in D : x < f,
         NEW joins \in BOOLEAN, joins <=> cut # <<>> /\ GoesOn(Last(Last(cut)), f),
         NEW new, NEW k, NEW held, TakenFrom(cut, f, joins, new, k, held)
  PROVE  Fenced(new, D \cup {f})
<1>1. PICK n, l : n = Len(cut) /\ l = Last(Last(cut))
  OBVIOUS
<1>2. /\ n \in Nat /\ k = (IF joins THEN n ELSE n + 1) /\ held = (IF joins THEN cut[n] ELSE <<>>)
      /\ k \in Nat \ {0} /\ Len(new) = k
      /\ \A i \in 1 .. (k - 1) : i \in 1 .. n /\ new[i] = cut[i]
      /\ ToSet(new[k]) = ToSet(held) \cup {f}
  BY <1>1, LenProperties DEF Parts, TakenFrom
<1>3. \A i \in 1 .. k : i \in 1 .. (k - 1) \/ i = k
  BY <1>2
<1>4. cut # <<>> => n \in 1 .. n /\ l \in ToSet(cut[n]) /\ l \in D /\ \A x \in D : x <= l
  BY <1>1, LastIs
<1>5. /\ ToSet(held) \subseteq D
      /\ \A x \in ToSet(held) : joins /\ k \in 1 .. n /\ k = n /\ x \in ToSet(cut[n])
  <2>1. ~joins => ToSet(held) = {}
    <3>1. ~joins => DOMAIN held = {}
      BY <1>2
    <3> QED
      BY <3>1 DEF ToSet
  <2>2. ToSet(held) \subseteq D
    BY PartsGrow
  <2> QED
    BY <1>2, <1>4, <2>1, <2>2
<1>6. \A i \in 1 .. n : ToSet(cut[i]) \subseteq D
  BY <1>1 DEF Parts
<1>7. \A x, y \in D : SameRun(D \cup {f}, x, y) <=> SameRun(D, x, y)
  BY FenceStep
<1>8. ASSUME NEW x \in D, cut # <<>>
      PROVE  SameRun(D \cup {f}, x, f) <=> SameRun(D, x, l) /\ GoesOn(l, f)
  BY <1>4, <1>8, FenceStep
<1>9. D \subseteq Nat /\ f \in Nat
  BY DEF Frames
<1>10. ASSUME NEW i \in 1 .. k, NEW x \in ToSet(new[i]), NEW y \in ToSet(new[i]), x <= y
       PROVE  SameRun(D \cup {f}, x, y)
  <2>1. CASE i \in 1 .. (k - 1)
    BY <1>1, <1>2, <1>6, <1>7, <1>10, <2>1 DEF Fenced
  <2>2. CASE i = k /\ x \in ToSet(held) /\ y \in ToSet(held)
    BY <1>1, <1>4, <1>5, <1>7, <1>10, <2>2 DEF Fenced
  <2>3. CASE i = k /\ x \in ToSet(held) /\ y = f
    <3>1. joins /\ x \in D /\ x \in ToSet(cut[n]) /\ n \in 1 .. n
      BY <1>5, <2>3
    <3>2. SameRun(D, x, l) /\ GoesOn(l, f)
      BY <1>1, <1>4, <3>1 DEF Fenced
    <3> QED
      BY <1>8, <2>3, <3>1, <3>2
  <2>4. CASE i = k /\ x = f
    <3>1. y = f
      BY <1>2, <1>5, <1>9, <1>10, <2>4
    <3> QED
      BY <1>9, <2>4, <3>1 DEF SameRun
  <2> QED
    BY <1>2, <1>3, <1>10, <2>1, <2>2, <2>3, <2>4
<1>11. ASSUME NEW i \in 1 .. k, NEW j \in 1 .. k, i < j, NEW x \in ToSet(new[i]), NEW y \in ToSet(new[j])
       PROVE  ~SameRun(D \cup {f}, x, y)
  <2>1. i \in 1 .. (k - 1) /\ i \in 1 .. n /\ x \in ToSet(cut[i]) /\ x \in D
    BY <1>2, <1>6, <1>11
  <2>2. CASE j \in 1 .. (k - 1)
    <3>1. j \in 1 .. n /\ y \in ToSet(cut[j]) /\ y \in D
      BY <1>2, <1>6, <1>11, <2>2
    <3> QED
      BY <1>1, <1>7, <1>11, <2>1, <3>1 DEF Fenced
  <2>3. CASE j = k /\ y \in ToSet(held)
    <3>1. j \in 1 .. n /\ y \in ToSet(cut[j]) /\ y \in D
      BY <1>5, <2>3
    <3> QED
      BY <1>1, <1>7, <1>11, <2>1, <3>1 DEF Fenced
  <2>4. CASE j = k /\ y = f
    <3> SUFFICES ASSUME SameRun(D \cup {f}, x, f) PROVE FALSE
      BY <2>4
    <3>1. cut # <<>>
      <4>1. n # 0
        BY <2>1
      <4> QED
        BY <1>1, <4>1
    <3>2. SameRun(D, x, l) /\ GoesOn(l, f)
      BY <1>8, <2>1, <3>1
    <3>3. joins /\ k = n
      BY <1>1, <1>2, <3>1, <3>2
    <3>4. i < n /\ n \in 1 .. n /\ l \in ToSet(cut[n])
      BY <1>4, <1>11, <2>4, <3>1, <3>3
    <3> QED
      BY <1>1, <2>1, <3>2, <3>4 DEF Fenced
  <2> QED
    BY <1>2, <1>3, <1>11, <2>2, <2>3, <2>4
<1> QED
  BY <1>2, <1>10, <1>11 DEF Fenced

LEMMA RunsWalk ==
  ASSUME NEW S \in SUBSET Frames
  PROVE  Parts(Runs(S), S) /\ Fenced(Runs(S), S)
<1> DEFINE n == Cardinality(S)
           s == InOrder(S)
<1>1. n = Cardinality(S) /\ s = InOrder(S)
  OBVIOUS
<1> HIDE DEF n, s
<1>2. n \in Nat /\ s \in [1 .. n -> Frames] /\ DOMAIN s = 1 .. n
  BY <1>1, InOrderIs
<1>3. PICK goes : goes = {p \in Cuts \X Frames : GoesOn(Last(Last(p[1])), p[2])}
  OBVIOUS
<1>4. \A cut \in Cuts, f \in Frames : <<cut, f>> \in goes <=> GoesOn(Last(Last(cut)), f)
  BY <1>3
<1>5. ASSUME NEW cut \in Cuts, NEW f \in Frames
      PROVE  Taken(cut, f, <<cut, f>> \in goes) = Taken(cut, f, GoesOn(Last(Last(cut)), f))
  BY <1>4 DEF Taken
<1>6. PICK g \in [SUBSET (1 .. n) -> Cuts] :
        \A q \in SUBSET (1 .. n) :
          IF q = {} THEN g[q] = <<>>
          ELSE /\ Max(q) \in 1 .. n /\ q \ {Max(q)} \in SUBSET (1 .. n)
               /\ g[q] = Taken(g[q \ {Max(q)}], s[Max(q)], <<g[q \ {Max(q)}], s[Max(q)]>> \in goes)
  BY <1>2, WalkExists
<1>7. g = [q \in SUBSET DOMAIN s |->
            IF q = {} THEN <<>>
            ELSE Taken(g[q \ {Max(q)}], s[Max(q)], GoesOn(Last(Last(g[q \ {Max(q)}])), s[Max(q)]))]
  <2>1. ASSUME NEW q \in SUBSET (1 .. n)
        PROVE  g[q] = IF q = {} THEN <<>>
                      ELSE Taken(g[q \ {Max(q)}], s[Max(q)], GoesOn(Last(Last(g[q \ {Max(q)}])), s[Max(q)]))
    <3>1. CASE q = {}
      BY <1>6, <3>1
    <3>2. CASE q # {}
      <4>1. PICK i, r : i = Max(q) /\ r = q \ {i}
        OBVIOUS
      <4>2. i \in 1 .. n /\ r \in SUBSET (1 .. n) /\ g[q] = Taken(g[r], s[i], <<g[r], s[i]>> \in goes)
        BY <1>6, <3>2, <4>1
      <4>3. g[r] \in Cuts /\ s[i] \in Frames
        BY <1>2, <4>2
      <4>4. g[q] = Taken(g[r], s[i], GoesOn(Last(Last(g[r])), s[i]))
        BY <1>5, <4>2, <4>3
      <4> QED
        BY <3>2, <4>1, <4>4
    <3> QED
      BY <3>1, <3>2
  <2> QED
    BY <1>2, <2>1
<1>8. PICK h : /\ h = [q \in SUBSET DOMAIN s |->
                        IF q = {} THEN <<>>
                        ELSE Taken(h[q \ {Max(q)}], s[Max(q)], GoesOn(Last(Last(h[q \ {Max(q)}])), s[Max(q)]))]
               /\ Runs(S) = h[DOMAIN s]
  BY <1>7 DEF s, Runs, FoldLeft, MapThenFoldSet
<1>9. h[{}] = <<>> /\ Runs(S) = h[1 .. n]
  BY <1>2, <1>8
<1>10. ASSUME NEW q \in SUBSET (1 .. n), q # {}, h[q \ {Max(q)}] \in Cuts
       PROVE  h[q] = Taken(h[q \ {Max(q)}], s[Max(q)], <<h[q \ {Max(q)}], s[Max(q)]>> \in goes)
  <2>1. PICK i, r : i = Max(q) /\ r = q \ {i}
    OBVIOUS
  <2>2. i \in 1 .. n /\ s[i] \in Frames /\ h[r] \in Cuts
    BY <1>2, <1>10, <2>1, LastsIs
  <2>3. h[q] = Taken(h[r], s[i], GoesOn(Last(Last(h[r])), s[i]))
    BY <1>2, <1>8, <1>10, <2>1
  <2>4. h[q] = Taken(h[r], s[i], <<h[r], s[i]>> \in goes)
    BY <1>5, <2>2, <2>3
  <2> QED
    BY <2>1, <2>4
<1>11. PICK Q : Q = {p \in (SUBSET S) \X Cuts : Parts(p[2], p[1]) /\ Fenced(p[2], p[1])}
  OBVIOUS
<1>12. \A D \in SUBSET S, cut \in Cuts : <<D, cut>> \in Q <=> Parts(cut, D) /\ Fenced(cut, D)
  BY <1>11
<1>13. <<{}, <<>>>> \in Q
  <2>1. <<>> \in Seq(Seq(Frames)) /\ \A i \in 1 .. Len(<<>>) : FALSE
    OBVIOUS
  <2>2. Parts(<<>>, {}) /\ Fenced(<<>>, {})
    BY <2>1 DEF Parts, Fenced
  <2> QED
    BY <1>12, <2>1, <2>2 DEF Cuts
<1>14. ASSUME NEW D \in SUBSET S, NEW cut \in Cuts, NEW f \in S, \A x \in D : x < f, <<D, cut>> \in Q
       PROVE  <<D \cup {f}, Taken(cut, f, <<cut, f>> \in goes)>> \in Q
  <2>1. PICK new : new = Taken(cut, f, <<cut, f>> \in goes)
    OBVIOUS
  <2>2. new = Taken(cut, f, GoesOn(Last(Last(cut)), f)) /\ cut \in Seq(Seq(Frames))
    BY <1>5, <2>1 DEF Cuts
  <2>3. PICK joins \in BOOLEAN : \E k, held :
          (joins <=> cut # <<>> /\ GoesOn(Last(Last(cut)), f)) /\ TakenFrom(cut, f, joins, new, k, held)
    BY <2>2, TakenIs
  <2>4. PICK k, held : (joins <=> cut # <<>> /\ GoesOn(Last(Last(cut)), f)) /\ TakenFrom(cut, f, joins, new, k, held)
    BY <2>3
  <2>5. Parts(cut, D) /\ Fenced(cut, D)
    BY <1>12, <1>14
  <2>6. Parts(new, D \cup {f})
    BY <1>14, <2>4, <2>5, PartsGrow
  <2>7. Fenced(new, D \cup {f})
    BY <1>14, <2>4, <2>5, FencedGrows
  <2>8. new \in Cuts /\ D \cup {f} \in SUBSET S
    BY <2>6 DEF Parts, Cuts
  <2> QED
    BY <1>12, <2>1, <2>6, <2>7, <2>8
<1>15. <<S, h[1 .. n]>> \in Q /\ h[1 .. n] \in Cuts
  <2>1. Walks(n, s, goes, h)
    BY <1>9, <1>10 DEF Walks
  <2>2. WalkKeeps(S, goes, Q)
    BY <1>13, <1>14 DEF WalkKeeps
  <2> QED
    BY <1>1, <2>1, <2>2, Walked
<1> QED
  BY <1>9, <1>12, <1>15

\* The cut at the gaps between neighbours is the fence (candidates.py: runs).
LEMMA RunsFence == tiles \in SUBSET Frames => RunsAreTheFence
<1> SUFFICES ASSUME tiles \in SUBSET Frames PROVE RunsAreTheFence
  OBVIOUS
<1>1. PICK S, runs : S = tiles /\ runs = Runs(S)
  OBVIOUS
<1>2. S \in SUBSET Frames /\ Parts(runs, S) /\ Fenced(runs, S)
  BY <1>1, RunsWalk
<1>3. DOMAIN runs = 1 .. Len(runs) /\ Len(runs) \in Nat
  BY <1>2, LenProperties DEF Parts
<1>4. ASSUME NEW i \in 1 .. Len(runs), NEW f \in ToSet(runs[i])
      PROVE  ToSet(runs[i]) = Run(S, f)
  <2>1. f \in S /\ ToSet(runs[i]) \subseteq S /\ S \subseteq Nat
    BY <1>2, <1>4 DEF Parts, Frames
  <2>2. ASSUME NEW g \in ToSet(runs[i])
        PROVE  g \in Run(S, f)
    BY <1>2, <1>4, <2>1, <2>2 DEF Fenced, Run
  <2>3. ASSUME NEW g \in Run(S, f)
        PROVE  g \in ToSet(runs[i])
    <3>1. g \in S /\ SameRun(S, f, g) /\ SameRun(S, g, f)
      BY <1>2, <2>1, <2>3, RunIs
    <3>2. PICK j \in 1 .. Len(runs) : g \in ToSet(runs[j])
      BY <1>2, <3>1 DEF Parts
    <3>3. ~(i < j) /\ ~(j < i)
      BY <1>2, <1>4, <3>1, <3>2 DEF Fenced
    <3>4. i = j
      BY <1>3, <3>3
    <3> QED
      BY <3>2, <3>4
  <2> QED
    BY <2>2, <2>3
<1>5. UNION {ToSet(runs[i]) : i \in DOMAIN runs} = S
  BY <1>2, <1>3 DEF Parts
<1> QED
  BY <1>1, <1>3, <1>4, <1>5 DEF RunsAreTheFence

\* The stack the linkage puts f into, of the photographs there are.
PutInto(photos, points, s, f) ==
  IF f \in photos /\ (\E m \in photos : m < f)
     /\ Majority({m \in photos : m < f /\ s[m] = s[Before(photos, f)]}, f, points)
  THEN s[Before(photos, f)] ELSE f

LEMMA CutPuts ==
  ASSUME NEW run, NEW points, NEW s
  PROVE  IsCut(run, points, s) <=> \A f \in run : s[f] = PutInto(run \cap Photos, points, s, f)
BY DEF IsCut, PutInto

\* It depends on nothing behind f.
LEMMA PutBehind ==
  ASSUME NEW P \in SUBSET Frames, NEW R \in SUBSET Frames, NEW f \in Frames, NEW points, NEW s, NEW t,
         f \in P <=> f \in R, \A m \in Frames : m < f => (m \in P <=> m \in R),
         \A m \in P : m < f => s[m] = t[m]
  PROVE  PutInto(P, points, s, f) = PutInto(R, points, t, f)
<1>1. CASE ~(f \in P /\ \E m \in P : m < f)
  <2>1. ~(f \in R /\ \E m \in R : m < f)
    BY <1>1
  <2> QED
    BY <1>1, <2>1 DEF PutInto
<1>2. CASE f \in P /\ \E m \in P : m < f
  <2>1. f \in R /\ \E m \in R : m < f
    BY <1>2
  <2>2. PICK b, d : b = Before(P, f) /\ d = Before(R, f)
    OBVIOUS
  <2>3. b \in P /\ b < f /\ \A x \in P : x < f => x <= b
    BY <1>2, <2>2, BeforeIs
  <2>4. d \in R /\ d < f /\ \A x \in R : x < f => x <= d
    BY <2>1, <2>2, BeforeIs
  <2>5. b = d
    <3>1. b \in Nat /\ d \in Nat
      BY <2>3, <2>4 DEF Frames
    <3>2. b <= d /\ d <= b
      BY <2>3, <2>4
    <3> QED
      BY <3>1, <3>2
  <2>6. s[b] = t[b]
    BY <2>3
  <2>7. PICK H : H = {m \in P : m < f /\ s[m] = s[b]}
    OBVIOUS
  <2>8. H = {m \in R : m < f /\ t[m] = t[b]}
    BY <2>6, <2>7
  <2>9. PutInto(P, points, s, f) = IF Majority(H, f, points) THEN s[b] ELSE f
    BY <1>2, <2>2, <2>7 DEF PutInto
  <2>10. PutInto(R, points, t, f) = IF Majority(H, f, points) THEN t[b] ELSE f
    BY <2>1, <2>2, <2>5, <2>8 DEF PutInto
  <2> QED
    BY <2>6, <2>9, <2>10
<1> QED
  BY <1>1, <1>2

\* A run has one cut.
LEMMA CutIsOne ==
  ASSUME NEW run \in SUBSET Frames, NEW points, NEW s, NEW t, IsCut(run, points, s), IsCut(run, points, t)
  PROVE  \A f \in run : s[f] = t[f]
<1>1. PICK bad : bad = {f \in run : s[f] # t[f]}
  OBVIOUS
<1>2. SUFFICES ASSUME bad # {} PROVE FALSE
  BY <1>1
<1>3. bad \in SUBSET Nat
  <2>1. Frames \subseteq Nat /\ bad \subseteq run
    BY <1>1 DEF Frames
  <2> QED
    BY <2>1
<1>4. PICK f \in bad : \A x \in bad : f <= x
  BY <1>2, <1>3, LeastExists
<1>5. \A m \in run : m < f => s[m] = t[m]
  <2>1. \A m \in run : m \in Nat /\ f \in Nat
    BY <1>3 DEF Frames
  <2> QED
    BY <1>1, <1>4, <2>1
<1>6. PICK P : P = run \cap Photos
  OBVIOUS
<1>7. f \in Frames /\ P \in SUBSET Frames /\ \A m \in P : m < f => s[m] = t[m]
  BY <1>1, <1>5, <1>6
<1>8. PutInto(P, points, s, f) = PutInto(P, points, t, f)
  BY <1>7, PutBehind
<1>9. f \in run /\ s[f] = PutInto(P, points, s, f) /\ t[f] = PutInto(P, points, t, f)
  BY <1>1, <1>6, CutPuts
<1> QED
  BY <1>1, <1>8, <1>9

LEMMA AsMany ==
  ASSUME NEW held \in Seq(Frames), \A a, b \in 1 .. Len(held) : a < b => held[a] < held[b], NEW A \in SUBSET (1 .. Len(held))
  PROVE  Cardinality({held[i] : i \in A}) = Cardinality(A)
<1>1. PICK n, B, g : n = Len(held) /\ B = {held[i] : i \in A} /\ g = [i \in A |-> held[i]]
  OBVIOUS
<1>2. n \in Nat /\ \A i \in 1 .. n : held[i] \in Nat
  <2>1. n \in Nat /\ \A i \in 1 .. n : held[i] \in Frames
    BY <1>1, LenProperties, ElementOfSeq
  <2> QED
    BY <2>1 DEF Frames
<1>3. IsFiniteSet(A)
  <2>1. IsFiniteSet(1 .. n)
    BY <1>2, FS_Interval
  <2> QED
    BY <1>1, <2>1, FS_Subset
<1>4. ASSUME NEW i \in A, NEW j \in A, i # j
      PROVE  held[i] # held[j]
  <2>1. i \in 1 .. n /\ j \in 1 .. n /\ (i < j \/ j < i)
    BY <1>1, <1>2, <1>4
  <2> QED
    BY <1>1, <1>2, <2>1
<1>5. g \in Surjection(A, B) /\ g \in Injection(A, B)
  <2>1. g \in [A -> B] /\ \A b \in B : \E i \in A : g[i] = b
    BY <1>1
  <2>2. \A i, j \in A : i # j => g[i] # g[j]
    BY <1>1, <1>4
  <2> QED
    BY <2>1, <2>2 DEF Surjection, Injection, IsInjective
<1> QED
  BY <1>1, <1>3, <1>5, FS_Surjection

\* To count the places of a stack that agree is to count its frames that do.
LEMMA JoinsIsMajority ==
  ASSUME NEW held \in Seq(Frames), \A a, b \in 1 .. Len(held) : a < b => held[a] < held[b], NEW f, NEW points
  PROVE  Joins(held, f, points) <=> Majority(ToSet(held), f, points)
<1>1. PICK n, A, B : /\ n = Len(held) /\ A = {i \in DOMAIN held : <<held[i], f>> \in points \cap Agree}
                     /\ B = {m \in ToSet(held) : <<m, f>> \in points \cap Agree}
  OBVIOUS
<1>2. n \in Nat /\ DOMAIN held = 1 .. n
  BY <1>1, LenProperties
<1>3. A \in SUBSET (1 .. n) /\ B = {held[i] : i \in A}
  BY <1>1, <1>2 DEF ToSet
<1>4. Cardinality(B) = Cardinality(A)
  BY <1>1, <1>3, AsMany
<1>5. Cardinality(ToSet(held)) = n
  <2>1. ToSet(held) = {held[i] : i \in 1 .. n}
    BY <1>2 DEF ToSet
  <2>2. Cardinality({held[i] : i \in 1 .. n}) = Cardinality(1 .. n)
    BY <1>1, AsMany
  <2>3. Cardinality(1 .. n) = n
    BY <1>2, FS_Interval
  <2> QED
    BY <2>1, <2>2, <2>3
<1>6. Joins(held, f, points) <=> Cardinality(A) * 2 > n
  BY <1>1 DEF Joins
<1>7. Majority(ToSet(held), f, points) <=> Cardinality(B) * 2 > Cardinality(ToSet(held))
  BY <1>1 DEF Majority
<1> QED
  BY <1>4, <1>5, <1>6, <1>7

\* s gives every frame of a part its first.
Names(cut, s) == \A i \in 1 .. Len(cut) : \A x \in ToSet(cut[i]) : s[x] = cut[i][1]
LinkCut(cut, D, points) == \A s : Names(cut, s) => IsCut(D, points, s)

\* The first of a part is of it, and no part before it begins with it.
LEMMA FirstOfPart ==
  ASSUME NEW D \in SUBSET Frames, NEW cut, Parts(cut, D), NEW i \in 1 .. Len(cut)
  PROVE  cut[i][1] \in ToSet(cut[i])
<1>1. cut[i] \in Seq(Frames) /\ cut[i] # <<>>
  BY ElementOfSeq DEF Parts
<1>2. PICK part, m : part = cut[i] /\ m = Len(part)
  OBVIOUS
<1>3. m \in Nat \ {0} /\ DOMAIN part = 1 .. m
  BY <1>1, <1>2, EmptySeq, LenProperties
<1>4. 1 \in DOMAIN part
  BY <1>3
<1> QED
  BY <1>2, <1>4 DEF ToSet

LEMMA LinkGrows ==
  ASSUME NEW D \in SUBSET Photos, NEW points, NEW cut, Parts(cut, D), LinkCut(cut, D, points),
         NEW f \in Photos, \A x \in D : x < f,
         NEW joins \in BOOLEAN, joins <=> cut # <<>> /\ Joins(Last(cut), f, points),
         NEW new, NEW k, NEW held, TakenFrom(cut, f, joins, new, k, held)
  PROVE  LinkCut(new, D \cup {f}, points)
<1> SUFFICES ASSUME NEW s, Names(new, s)
             PROVE  IsCut(D \cup {f}, points, s)
  BY DEF LinkCut
<1>0. D \in SUBSET Frames /\ f \in Frames /\ D \subseteq Nat /\ f \in Nat
  <2>1. D \in SUBSET Frames /\ f \in Frames
    BY DEF Photos
  <2> QED
    BY <2>1 DEF Frames
<1>1. PICK n : n = Len(cut)
  OBVIOUS
<1>2. /\ n \in Nat /\ k = (IF joins THEN n ELSE n + 1) /\ held = (IF joins THEN cut[n] ELSE <<>>)
      /\ held \in Seq(Frames) /\ k \in Nat \ {0} /\ Len(new) = k
      /\ \A i \in 1 .. (k - 1) : i \in 1 .. n /\ new[i] = cut[i]
      /\ new[k] = Append(held, f) /\ ToSet(new[k]) = ToSet(held) \cup {f}
  BY <1>1, LenProperties DEF Parts, TakenFrom
<1>3. \A i \in 1 .. k : i \in 1 .. (k - 1) \/ i = k
  BY <1>2
<1>4. k \in 1 .. k /\ \A i \in 1 .. (k - 1) : i \in 1 .. k
  BY <1>2
<1>5. cut # <<>> => /\ n \in 1 .. n /\ Last(cut) = cut[n] /\ Last(Last(cut)) \in ToSet(cut[n])
                    /\ Last(Last(cut)) \in D /\ \A x \in D : x <= Last(Last(cut))
  BY <1>0, <1>1, LastIs
<1>6. new[k][1] = IF joins THEN cut[n][1] ELSE f
  <2>1. CASE joins
    <3>1. held = cut[n] /\ held # <<>>
      BY <1>1, <1>2, <1>5, <2>1 DEF Parts
    <3>2. 1 \in 1 .. Len(held)
      BY <1>2, <3>1, EmptySeq
    <3>3. Append(held, f)[1] = held[1]
      BY <1>0, <1>2, <3>2, AppendProperties
    <3> QED
      BY <1>2, <2>1, <3>1, <3>3
  <2>2. CASE ~joins
    <3>1. held = <<>>
      BY <1>2, <2>2
    <3>2. Append(<<>>, f)[1] = f
      OBVIOUS
    <3> QED
      BY <1>2, <2>2, <3>1, <3>2
  <2> QED
    BY <2>1, <2>2
<1>7. s[f] = IF joins THEN cut[n][1] ELSE f
  BY <1>2, <1>4, <1>6 DEF Names
<1>8. Names(cut, s)
  <2> SUFFICES ASSUME NEW i \in 1 .. n, NEW x \in ToSet(cut[i])
               PROVE  s[x] = cut[i][1]
    BY <1>1 DEF Names
  <2>1. CASE i \in 1 .. (k - 1)
    BY <1>2, <1>4, <2>1 DEF Names
  <2>2. CASE ~(i \in 1 .. (k - 1))
    <3>1. joins /\ i = n /\ k = n
      BY <1>2, <2>2
    <3>2. x \in ToSet(new[k]) /\ new[k][1] = cut[i][1]
      BY <1>2, <1>6, <3>1
    <3> QED
      BY <1>2, <1>4, <3>2 DEF Names
  <2> QED
    BY <2>1, <2>2
<1>9. PICK E : E = D \cup {f}
  OBVIOUS
<1>10. E \in SUBSET Frames /\ E \cap Photos = E /\ D \cap Photos = D
  BY <1>0, <1>9
<1>11. ASSUME NEW x \in D
       PROVE  s[x] = PutInto(E, points, s, x)
  <2>1. s[x] = PutInto(D, points, s, x)
    BY <1>8, <1>10, CutPuts DEF LinkCut
  <2>2. x \in Frames /\ (x \in D <=> x \in E) /\ \A m \in Frames : m < x => (m \in D <=> m \in E)
    <3>1. x < f /\ x \in Nat /\ f \in Nat
      BY <1>0
    <3> QED
      BY <1>0, <1>9, <3>1
  <2>3. PutInto(D, points, s, x) = PutInto(E, points, s, x)
    BY <1>0, <1>10, <2>2, PutBehind
  <2> QED
    BY <2>1, <2>3
<1>12. s[f] = PutInto(E, points, s, f)
  <2>1. CASE cut = <<>>
    <3>1. n = 0
      BY <1>1, <2>1
    <3>2. \A x \in D : FALSE
      BY <1>1, <3>1 DEF Parts
    <3>3. ~ \E m \in E : m < f
      BY <1>0, <1>9, <3>2
    <3> QED
      BY <1>7, <2>1, <3>3 DEF PutInto
  <2>2. CASE cut # <<>>
    <3>1. PICK l, last, first : l = Last(Last(cut)) /\ last = cut[n] /\ first = cut[n][1]
      OBVIOUS
    <3>2. n \in 1 .. n /\ Last(cut) = last /\ l \in ToSet(last) /\ l \in D /\ \A x \in D : x <= l
      BY <1>5, <2>2, <3>1
    <3>3. l \in E /\ l < f /\ f \in E /\ l \in Nat
      BY <1>0, <1>9, <3>2
    <3>4. Before(E, f) = l
      <4>1. PICK b : b = Before(E, f)
        OBVIOUS
      <4>2. b \in E /\ b < f /\ \A x \in E : x < f => x <= b
        BY <1>0, <1>10, <3>3, <4>1, BeforeIs
      <4>3. b \in D /\ b \in Nat
        BY <1>0, <1>9, <4>2
      <4>4. b <= l /\ l <= b
        BY <3>2, <3>3, <4>2, <4>3
      <4> QED
        BY <3>3, <4>1, <4>3, <4>4
    <3>5. s[l] = first
      BY <1>1, <1>8, <3>1, <3>2 DEF Names
    <3>6. PICK H : H = {m \in E : m < f /\ s[m] = first}
      OBVIOUS
    <3>7. H = ToSet(last)
      <4>1. ASSUME NEW m \in ToSet(last)
            PROVE  m \in H
        <5>1. m \in D /\ s[m] = first
          BY <1>1, <1>8, <3>1, <3>2, <4>1 DEF Names, Parts
        <5> QED
          BY <1>9, <3>6, <5>1
      <4>2. ASSUME NEW m \in H
            PROVE  m \in ToSet(last)
        <5>1. m \in D /\ s[m] = first
          BY <1>0, <1>9, <3>6, <4>2
        <5>2. PICK i \in 1 .. n : m \in ToSet(cut[i])
          BY <1>1, <5>1 DEF Parts
        <5>3. CASE i = n
          BY <3>1, <5>2, <5>3
        <5>4. CASE i # n
          <6>1. i < n
            BY <1>2, <5>4
          <6>2. s[m] = cut[i][1] /\ cut[i][1] \in ToSet(cut[i]) /\ first \in ToSet(cut[n])
            BY <1>0, <1>1, <1>8, <3>1, <3>2, <5>2, FirstOfPart DEF Names
          <6>3. cut[i][1] < first /\ first \in Nat
            <7>1. cut[i][1] < first /\ first \in D
              BY <1>1, <3>2, <6>1, <6>2 DEF Parts
            <7> QED
              BY <1>0, <7>1
          <6> QED
            BY <5>1, <6>2, <6>3
        <5> QED
          BY <5>3, <5>4
      <4> QED
        BY <4>1, <4>2
    <3>8. PutInto(E, points, s, f) = IF Majority(ToSet(last), f, points) THEN first ELSE f
      BY <3>3, <3>4, <3>5, <3>6, <3>7 DEF PutInto
    <3>9. Joins(last, f, points) <=> Majority(ToSet(last), f, points)
      <4>1. last \in Seq(Frames) /\ \A a, b \in 1 .. Len(last) : a < b => last[a] < last[b]
        BY <1>1, <3>1, <3>2, ElementOfSeq DEF Parts
      <4> QED
        BY <4>1, JoinsIsMajority
    <3>10. joins <=> Majority(ToSet(last), f, points)
      BY <2>2, <3>2, <3>9
    <3> QED
      BY <1>7, <3>1, <3>8, <3>10
  <2> QED
    BY <2>1, <2>2
<1>13. \A x \in E : s[x] = PutInto(E \cap Photos, points, s, x)
  BY <1>9, <1>10, <1>11, <1>12
<1> QED
  BY <1>9, <1>13, CutPuts

LEMMA LinkWalk ==
  ASSUME NEW S \in SUBSET Photos, NEW points
  PROVE  Parts(Link(S, points), S) /\ LinkCut(Link(S, points), S, points)
<1>0. S \in SUBSET Frames
  BY DEF Photos
<1> DEFINE n == Cardinality(S)
           s == InOrder(S)
<1>1. n = Cardinality(S) /\ s = InOrder(S)
  OBVIOUS
<1> HIDE DEF n, s
<1>2. n \in Nat /\ s \in [1 .. n -> Frames] /\ DOMAIN s = 1 .. n
  BY <1>0, <1>1, InOrderIs
<1>3. PICK goes : goes = {p \in Cuts \X Frames : Joins(Last(p[1]), p[2], points)}
  OBVIOUS
<1>4. \A cut \in Cuts, f \in Frames : <<cut, f>> \in goes <=> Joins(Last(cut), f, points)
  BY <1>3
<1>5. ASSUME NEW cut \in Cuts, NEW f \in Frames
      PROVE  Taken(cut, f, <<cut, f>> \in goes) = Taken(cut, f, Joins(Last(cut), f, points))
  BY <1>4 DEF Taken
<1>6. PICK g \in [SUBSET (1 .. n) -> Cuts] :
        \A q \in SUBSET (1 .. n) :
          IF q = {} THEN g[q] = <<>>
          ELSE /\ Max(q) \in 1 .. n /\ q \ {Max(q)} \in SUBSET (1 .. n)
               /\ g[q] = Taken(g[q \ {Max(q)}], s[Max(q)], <<g[q \ {Max(q)}], s[Max(q)]>> \in goes)
  BY <1>2, WalkExists
<1>7. g = [q \in SUBSET DOMAIN s |->
            IF q = {} THEN <<>>
            ELSE Taken(g[q \ {Max(q)}], s[Max(q)], Joins(Last(g[q \ {Max(q)}]), s[Max(q)], points))]
  <2>1. ASSUME NEW q \in SUBSET (1 .. n)
        PROVE  g[q] = IF q = {} THEN <<>>
                      ELSE Taken(g[q \ {Max(q)}], s[Max(q)], Joins(Last(g[q \ {Max(q)}]), s[Max(q)], points))
    <3>1. CASE q = {}
      BY <1>6, <3>1
    <3>2. CASE q # {}
      <4>1. PICK i, r : i = Max(q) /\ r = q \ {i}
        OBVIOUS
      <4>2. i \in 1 .. n /\ r \in SUBSET (1 .. n) /\ g[q] = Taken(g[r], s[i], <<g[r], s[i]>> \in goes)
        BY <1>6, <3>2, <4>1
      <4>3. g[r] \in Cuts /\ s[i] \in Frames
        BY <1>2, <4>2
      <4>4. g[q] = Taken(g[r], s[i], Joins(Last(g[r]), s[i], points))
        BY <1>5, <4>2, <4>3
      <4> QED
        BY <3>2, <4>1, <4>4
    <3> QED
      BY <3>1, <3>2
  <2> QED
    BY <1>2, <2>1
<1>8. PICK h : /\ h = [q \in SUBSET DOMAIN s |->
                        IF q = {} THEN <<>>
                        ELSE Taken(h[q \ {Max(q)}], s[Max(q)], Joins(Last(h[q \ {Max(q)}]), s[Max(q)], points))]
               /\ Link(S, points) = h[DOMAIN s]
  BY <1>7 DEF s, Link, FoldLeft, MapThenFoldSet
<1>9. h[{}] = <<>> /\ Link(S, points) = h[1 .. n]
  BY <1>2, <1>8
<1>10. ASSUME NEW q \in SUBSET (1 .. n), q # {}, h[q \ {Max(q)}] \in Cuts
       PROVE  h[q] = Taken(h[q \ {Max(q)}], s[Max(q)], <<h[q \ {Max(q)}], s[Max(q)]>> \in goes)
  <2>1. PICK i, r : i = Max(q) /\ r = q \ {i}
    OBVIOUS
  <2>2. i \in 1 .. n /\ s[i] \in Frames /\ h[r] \in Cuts
    BY <1>2, <1>10, <2>1, LastsIs
  <2>3. h[q] = Taken(h[r], s[i], Joins(Last(h[r]), s[i], points))
    BY <1>2, <1>8, <1>10, <2>1
  <2>4. h[q] = Taken(h[r], s[i], <<h[r], s[i]>> \in goes)
    BY <1>5, <2>2, <2>3
  <2> QED
    BY <2>1, <2>4
<1>11. PICK Q : Q = {p \in (SUBSET S) \X Cuts : Parts(p[2], p[1]) /\ LinkCut(p[2], p[1], points)}
  OBVIOUS
<1>12. \A D \in SUBSET S, cut \in Cuts : <<D, cut>> \in Q <=> Parts(cut, D) /\ LinkCut(cut, D, points)
  BY <1>11
<1>13. <<{}, <<>>>> \in Q
  <2>1. <<>> \in Seq(Seq(Frames)) /\ \A i \in 1 .. Len(<<>>) : FALSE
    OBVIOUS
  <2>2. Parts(<<>>, {}) /\ LinkCut(<<>>, {}, points)
    BY <2>1 DEF Parts, LinkCut, IsCut
  <2> QED
    BY <1>12, <2>1, <2>2 DEF Cuts
<1>14. ASSUME NEW D \in SUBSET S, NEW cut \in Cuts, NEW f \in S, \A x \in D : x < f, <<D, cut>> \in Q
       PROVE  <<D \cup {f}, Taken(cut, f, <<cut, f>> \in goes)>> \in Q
  <2>1. PICK new : new = Taken(cut, f, <<cut, f>> \in goes)
    OBVIOUS
  <2>0. f \in Frames
    BY <1>0
  <2>2. new = Taken(cut, f, Joins(Last(cut), f, points)) /\ cut \in Seq(Seq(Frames))
    BY <1>5, <2>0, <2>1 DEF Cuts
  <2>3. PICK joins \in BOOLEAN : \E k, held :
          (joins <=> cut # <<>> /\ Joins(Last(cut), f, points)) /\ TakenFrom(cut, f, joins, new, k, held)
    BY <2>0, <2>2, TakenIs
  <2>4. PICK k, held : (joins <=> cut # <<>> /\ Joins(Last(cut), f, points)) /\ TakenFrom(cut, f, joins, new, k, held)
    BY <2>3
  <2>5. Parts(cut, D) /\ LinkCut(cut, D, points)
    BY <1>12, <1>14
  <2>6. Parts(new, D \cup {f})
    BY <1>0, <1>14, <2>4, <2>5, PartsGrow
  <2>7. LinkCut(new, D \cup {f}, points)
    BY <1>14, <2>4, <2>5, LinkGrows
  <2>8. new \in Cuts /\ D \cup {f} \in SUBSET S
    BY <2>6 DEF Parts, Cuts
  <2> QED
    BY <1>12, <2>1, <2>6, <2>7, <2>8
<1>15. <<S, h[1 .. n]>> \in Q /\ h[1 .. n] \in Cuts
  <2>1. Walks(n, s, goes, h)
    BY <1>9, <1>10 DEF Walks
  <2>2. WalkKeeps(S, goes, Q)
    BY <1>13, <1>14 DEF WalkKeeps
  <2> QED
    BY <1>0, <1>1, <2>1, <2>2, Walked
<1> QED
  BY <1>9, <1>12, <1>15

\* The walk with the videos behind draws the one cut there is (membership.py: place).
LEMMA WalkDraws ==
  ASSUME NEW run \in SUBSET Frames, NEW points
  PROVE  DrawsTheCut(run, points)
<1> DEFINE drawn == Place(run, points)
           name == [g \in run |-> (CHOOSE i \in DOMAIN drawn : g \in ToSet(drawn[i]))]
<1>0. drawn = Place(run, points) /\ name = [g \in run |-> (CHOOSE i \in DOMAIN drawn : g \in ToSet(drawn[i]))]
  OBVIOUS
<1> HIDE DEF drawn, name
<1>1. PICK P, V : P = run \cap Photos /\ V = run \cap Videos
  OBVIOUS
<1>2. PICK cut, v, n : cut = Link(P, points) /\ v = InOrder(V) /\ n = Cardinality(V)
  OBVIOUS
<1>3. P \in SUBSET Photos /\ P \in SUBSET Frames /\ V \in SUBSET Frames /\ run = P \cup V /\ P \cap V = {}
  BY <1>1 DEF Photos
<1>4. Parts(cut, P) /\ LinkCut(cut, P, points)
  BY <1>2, <1>3, LinkWalk
<1>5. n \in Nat /\ v \in [1 .. n -> V] /\ \A f \in V : \E i \in 1 .. n : v[i] = f
  BY <1>2, <1>3, InOrderIs
<1>6. PICK k : k = Len(cut) /\ k \in Nat
  BY <1>4, LenProperties DEF Parts
<1>7. /\ DOMAIN drawn = 1 .. (k + n)
      /\ \A i \in 1 .. k : i \in 1 .. (k + n) /\ drawn[i] = cut[i]
      /\ \A i \in 1 .. n : k + i \in 1 .. (k + n) /\ drawn[k + i] = <<v[i]>>
  <2>1. PICK alone : alone = [i \in 1 .. n |-> <<v[i]>>]
    OBVIOUS
  <2>2. drawn = cut \o alone
    BY <1>0, <1>1, <1>2, <2>1 DEF Place
  <2>3. cut \in Seq(Seq(Frames))
    BY <1>4 DEF Parts
  <2>4. alone \in Seq(Seq(Frames)) /\ Len(alone) = n
    <3>1. \A i \in 1 .. n : <<v[i]>> \in Seq(Frames)
      BY <1>3, <1>5
    <3>2. alone \in [1 .. n -> Seq(Frames)]
      BY <2>1, <3>1
    <3>3. alone \in Seq(Seq(Frames))
      BY <1>5, <3>2, SeqDef
    <3>4. DOMAIN alone = 1 .. Len(alone) /\ Len(alone) \in Nat /\ DOMAIN alone = 1 .. n
      BY <3>2, <3>3, LenProperties
    <3>5. Len(alone) \in 1 .. n \/ Len(alone) = 0
      BY <1>5, <3>4
    <3>6. n \in 1 .. Len(alone) \/ n = 0
      BY <1>5, <3>4
    <3>7. Len(alone) = n
      <4>1. PICK m : m = Len(alone)
        OBVIOUS
      <4>2. m \in Nat /\ (m \in 1 .. n \/ m = 0) /\ (n \in 1 .. m \/ n = 0)
        BY <3>4, <3>5, <3>6, <4>1
      <4> QED
        BY <1>5, <4>1, <4>2
    <3> QED
      BY <3>3, <3>7
  <2>5. /\ drawn \in Seq(Seq(Frames)) /\ Len(drawn) = k + n
        /\ \A i \in 1 .. (k + n) : drawn[i] = IF i <= k THEN cut[i] ELSE alone[i - k]
    BY <1>6, <2>2, <2>3, <2>4, ConcatProperties
  <2>6. DOMAIN drawn = 1 .. (k + n)
    BY <2>5, LenProperties
  <2>7. \A i \in 1 .. k : i \in 1 .. (k + n) /\ drawn[i] = cut[i]
    BY <1>5, <1>6, <2>5
  <2>8. ASSUME NEW i \in 1 .. n
        PROVE  k + i \in 1 .. (k + n) /\ drawn[k + i] = <<v[i]>>
    <3>1. k + i \in 1 .. (k + n) /\ ~(k + i <= k) /\ (k + i) - k = i
      BY <1>5, <1>6
    <3>2. drawn[k + i] = alone[i]
      BY <2>5, <3>1
    <3> QED
      BY <2>1, <3>1, <3>2
  <2> QED
    BY <2>6, <2>7, <2>8
<1>8. ASSUME NEW i \in 1 .. (k + n)
      PROVE  i \in 1 .. k \/ \E j \in 1 .. n : i = k + j
  <2>1. CASE i <= k
    BY <1>6, <2>1
  <2>2. CASE ~(i <= k)
    <3>1. i - k \in 1 .. n /\ i = k + (i - k)
      BY <1>5, <1>6, <2>2
    <3> QED
      BY <3>1
  <2> QED
    BY <2>1, <2>2
<1>9. ASSUME NEW i \in 1 .. n
      PROVE  ToSet(drawn[k + i]) = {v[i]} /\ Head(drawn[k + i]) = v[i] /\ v[i] \in V
  <2>1. drawn[k + i] = <<v[i]>> /\ v[i] \in V
    BY <1>5, <1>7
  <2>2. ToSet(<<v[i]>>) = {v[i]} /\ Head(<<v[i]>>) = v[i]
    BY DEF ToSet
  <2> QED
    BY <2>1, <2>2
<1>10. ASSUME NEW i \in 1 .. k
       PROVE  /\ ToSet(drawn[i]) = ToSet(cut[i]) /\ ToSet(cut[i]) \subseteq P
              /\ Head(drawn[i]) = cut[i][1] /\ cut[i][1] \in ToSet(cut[i])
  <2>1. drawn[i] = cut[i]
    BY <1>7
  <2>2. cut[i][1] \in ToSet(cut[i]) /\ ToSet(cut[i]) \subseteq P
    BY <1>3, <1>4, <1>6, FirstOfPart DEF Parts
  <2>3. Head(cut[i]) = cut[i][1]
    <3>1. cut[i] \in Seq(Frames) /\ cut[i] # <<>>
      BY <1>4, <1>6, ElementOfSeq DEF Parts
    <3> QED
      BY <3>1
  <2> QED
    BY <2>1, <2>2, <2>3
<1>11. ASSUME NEW g \in P
       PROVE  name[g] \in 1 .. k /\ g \in ToSet(cut[name[g]]) /\ \A i \in 1 .. k : g \in ToSet(cut[i]) => i = name[g]
  <2>1. PICK j \in 1 .. k : g \in ToSet(cut[j])
    BY <1>4, <1>6 DEF Parts
  <2>2. j \in DOMAIN drawn /\ g \in ToSet(drawn[j])
    BY <1>7, <1>10, <2>1
  <2>3. name[g] \in DOMAIN drawn /\ g \in ToSet(drawn[name[g]])
    BY <1>0, <1>3, <2>2
  <2>4. name[g] \in 1 .. k
    <3>1. ASSUME NEW i \in 1 .. n, name[g] = k + i
          PROVE  FALSE
      <4>1. g = v[i] /\ v[i] \in V
        BY <1>9, <2>3, <3>1
      <4> QED
        BY <1>3, <4>1
    <3> QED
      BY <1>7, <1>8, <2>3, <3>1
  <2>5. g \in ToSet(cut[name[g]])
    BY <1>10, <2>3, <2>4
  <2>6. ASSUME NEW i \in 1 .. k, g \in ToSet(cut[i])
        PROVE  i = name[g]
    <3>1. g \in Nat
      BY <1>3 DEF Frames
    <3>2. \A a, b \in 1 .. k : a < b => \A x \in ToSet(cut[a]), y \in ToSet(cut[b]) : x < y
      BY <1>4, <1>6 DEF Parts
    <3>3. PICK m : m = name[g]
      OBVIOUS
    <3>4. m \in 1 .. k /\ g \in ToSet(cut[m])
      BY <2>4, <2>5, <3>3
    <3>5. ~(i < m) /\ ~(m < i)
      BY <2>6, <3>1, <3>2, <3>4
    <3> QED
      BY <1>6, <3>3, <3>4, <3>5
  <2> QED
    BY <2>4, <2>5, <2>6
<1>12. PICK t : t = [g \in run |-> Head(drawn[name[g]])]
  OBVIOUS
<1>13. ASSUME NEW g \in V
       PROVE  t[g] = g
  <2>1. PICK j \in 1 .. n : v[j] = g
    BY <1>5
  <2>2. k + j \in DOMAIN drawn /\ g \in ToSet(drawn[k + j])
    BY <1>7, <1>9, <2>1
  <2>3. name[g] \in DOMAIN drawn /\ g \in ToSet(drawn[name[g]])
    BY <1>0, <1>3, <2>2
  <2>4. name[g] \notin 1 .. k
    BY <1>3, <1>10, <2>3
  <2>5. PICK i \in 1 .. n : name[g] = k + i
    BY <1>7, <1>8, <2>3, <2>4
  <2>6. Head(drawn[name[g]]) = g
    BY <1>9, <2>3, <2>5
  <2> QED
    BY <1>3, <1>12, <2>6
<1>14. ASSUME NEW g \in P
       PROVE  t[g] = cut[name[g]][1] /\ t[g] \in P
  <2>1. PICK i : i = name[g]
    OBVIOUS
  <2>2. i \in 1 .. k
    BY <1>11, <2>1
  <2>3. Head(drawn[i]) = cut[i][1] /\ cut[i][1] \in P
    BY <1>10, <2>2
  <2>4. t[g] = Head(drawn[i])
    BY <1>3, <1>12, <2>1
  <2> QED
    BY <2>1, <2>3, <2>4
<1>15. t \in [run -> run]
  <2>1. \A g \in run : t[g] \in run
    BY <1>3, <1>13, <1>14
  <2> QED
    BY <1>12, <2>1
<1>16. IsCut(run, points, t)
  <2>1. Names(cut, t)
    <3> SUFFICES ASSUME NEW i \in 1 .. k, NEW x \in ToSet(cut[i])
                 PROVE  t[x] = cut[i][1]
      BY <1>6 DEF Names
    <3>1. x \in P
      BY <1>10
    <3> QED
      BY <1>11, <1>14, <3>1
  <2>2. IsCut(P, points, t)
    BY <1>4, <2>1 DEF LinkCut
  <2>3. P \cap Photos = P
    BY <1>3
  <2>4. \A f \in P : t[f] = PutInto(P, points, t, f)
    BY <2>2, <2>3, CutPuts
  <2>5. \A f \in V : t[f] = PutInto(P, points, t, f)
    BY <1>3, <1>13 DEF PutInto
  <2>6. \A f \in run : t[f] = PutInto(P, points, t, f)
    BY <1>3, <2>4, <2>5
  <2> QED
    BY <1>1, <2>6, CutPuts
<1>17. ASSUME NEW s \in [run -> run], IsCut(run, points, s)
       PROVE  s = t
  <2>1. \A f \in run : s[f] = t[f]
    BY <1>16, <1>17, CutIsOne
  <2> QED
    BY <1>15, <2>1
<1>18. {s \in [run -> run] : IsCut(run, points, s)} = {[g \in run |-> Head(drawn[name[g]])]}
  BY <1>12, <1>15, <1>16, <1>17
<1> QED
  BY <1>18 DEF drawn, name, DrawsTheCut

LEMMA WalksDraw == tiles \in SUBSET Frames => WalksDrawTheSpec
<1> SUFFICES ASSUME tiles \in SUBSET Frames PROVE WalksDrawTheSpec
  OBVIOUS
<1>1. RunsAreTheFence
  BY RunsFence
<1>2. \A f \in tiles : Run(tiles, f) \in SUBSET Frames
  BY DEF Run
<1>3. WalkDrawsTheCut
  BY <1>2, WalkDraws DEF WalkDrawsTheCut
<1> QED
  BY <1>1, <1>3 DEF WalksDrawTheSpec

\* What is on show is what membership.py's walk draws, for every population, gap,
\* fingerprint and Match, and whenever and in however many runs it was placed.
THEOREM WalksAreShown == Spec => []StacksAreTheWalks
<1>1. TypeOK /\ StacksAreDrawn => StacksAreTheWalks
  BY WalksDraw DEF TypeOK, StacksAreTheWalks
<1> QED
  BY <1>1, TypeCorrect, StacksStayDrawn, PTL
=============================================================================
