----------------------------- MODULE GraphLemmas -----------------------------
(***************************************************************************)
(* Lemmas about graphs, partitions and the red-graph update, for every     *)
(* finite vertex set.  They mention no variable and are shared by the      *)
(* proofs about the components.                                            *)
(***************************************************************************)
EXTENDS RedGraph, FiniteSetTheorems, WellFoundedInduction, TLAPS

------------------------------------------------------------------------------
(***************************************************************************)
(* The update of H.                                                        *)
(***************************************************************************)

\* The edges u and p disagree about, p's side: what to_add makes red.
NewRed(g, rem, h, p, u, y) ==
  \/ <<u, y>> \in h
  \/ y \notin rem /\ ~(<<u, y>> \in g <=> <<p, y>> \in g)

\* Reading the updated matrix entry by entry: u loses every edge, p gains
\* the new red ones, all other entries stay.
LEMMA UpdateEntries ==
  ASSUME NEW g, NEW rem, NEW h, IsSimple(h), NEW p \in V, NEW u \in V, p # u,
         NEW x \in V, NEW y \in V
  PROVE  <<x, y>> \in Contracted(g, rem, h, p, u) <=>
           \/ <<x, y>> \in h /\ x # u /\ y # u
           \/ x = p /\ y \notin {p, u} /\ NewRed(g, rem, h, p, u, y)
           \/ y = p /\ x \notin {p, u} /\ NewRed(g, rem, h, p, u, x)
<1> DEFINE A == to_add(g, rem, h, p, u)
           R == to_remove(h, u)
<1>1. <<x, y>> \in Mirror(R) <=>
        (x = u /\ <<u, y>> \in h) \/ (y = u /\ <<u, x>> \in h)
  BY DEF to_remove, neighborhood, Mirror
<1>2. ASSUME NEW a \in V, NEW b \in V
      PROVE  <<a, b>> \in A <=> /\ a = p /\ b # p /\ b # u /\ <<p, b>> \notin h
                                /\ NewRed(g, rem, h, p, u, b)
  BY DEF to_add, neighborhood, symmetric_difference, has_edge, NewRed, IsSimple
<1>3. <<x, y>> \in Mirror(A) <=> <<x, y>> \in A \/ <<y, x>> \in A
  BY DEF Mirror
<1>4. <<x, y>> \in Contracted(g, rem, h, p, u) <=>
        (<<x, y>> \in h /\ <<x, y>> \notin Mirror(R)) \/ <<x, y>> \in Mirror(A)
  BY DEF Contracted, add_edges, remove_edges
<1>5. /\ <<x, y>> \in h <=> <<y, x>> \in h
      /\ <<x, y>> \in h /\ <<x, y>> \notin Mirror(R) <=>
           <<x, y>> \in h /\ x # u /\ y # u
  BY <1>1 DEF IsSimple
<1>6. <<x, y>> \in A <=> /\ x = p /\ y # p /\ y # u /\ <<p, y>> \notin h
                         /\ NewRed(g, rem, h, p, u, y)
  BY <1>2
<1>7. <<y, x>> \in A <=> /\ y = p /\ x # p /\ x # u /\ <<p, x>> \notin h
                         /\ NewRed(g, rem, h, p, u, x)
  BY <1>2
<1> HIDE DEF A, R
<1> QED BY <1>3, <1>4, <1>5, <1>6, <1>7

\* The updated matrix is again symmetric with an empty diagonal.
LEMMA UpdateSimple ==
  ASSUME NEW g, NEW rem, NEW h, IsSimple(h), NEW p \in V, NEW u \in V, p # u
  PROVE  IsSimple(Contracted(g, rem, h, p, u))
<1> DEFINE c == Contracted(g, rem, h, p, u)
<1>1. c \subseteq V \X V
  BY DEF Contracted, add_edges, remove_edges, Mirror, to_add, neighborhood,
         symmetric_difference, IsSimple
<1>2. \A x, y \in V : <<x, y>> \in c <=>
        \/ <<x, y>> \in h /\ x # u /\ y # u
        \/ x = p /\ y \notin {p, u} /\ NewRed(g, rem, h, p, u, y)
        \/ y = p /\ x \notin {p, u} /\ NewRed(g, rem, h, p, u, x)
  BY UpdateEntries
<1> HIDE DEF c
<1>3. c \subseteq V \X V /\ (\A x, y \in V : <<x, y>> \in c => <<y, x>> \in c)
  BY <1>1, <1>2 DEF IsSimple
<1>4. \A x \in V : <<x, x>> \notin c
  BY <1>2 DEF IsSimple
<1>5. IsSimple(c)
  BY <1>3, <1>4 DEF IsSimple
<1> QED BY <1>5 DEF c

------------------------------------------------------------------------------
(***************************************************************************)
(* Homogeneity.                                                            *)
(***************************************************************************)

\* Homogeneous, vertex by vertex.
LEMMA HomogeneousPoints ==
  ASSUME NEW g, NEW A, NEW B
  PROVE  Homogeneous(g, A, B) <=>
           \/ \A a \in A, b \in B : <<a, b>> \in g
           \/ \A a \in A, b \in B : <<a, b>> \notin g
BY DEF Homogeneous

\* Homogeneity does not depend on the order of the two classes.
LEMMA HomogeneousSymmetric ==
  ASSUME NEW g, IsSimple(g), NEW A, A \subseteq V, NEW B, B \subseteq V
  PROVE  Homogeneous(g, A, B) <=> Homogeneous(g, B, A)
<1>1. \A a \in A, b \in B : <<a, b>> \in g <=> <<b, a>> \in g
  BY DEF IsSimple
<1> QED BY <1>1, HomogeneousPoints

\* A merged class sees C homogeneously exactly when both its halves do and
\* any two of their members agree on any member of C.
LEMMA HomogeneousUnion ==
  ASSUME NEW g, NEW A, NEW B, NEW C, NEW a \in A, NEW b \in B, NEW c \in C
  PROVE  Homogeneous(g, A \union B, C) <=>
           /\ Homogeneous(g, A, C)
           /\ Homogeneous(g, B, C)
           /\ <<a, c>> \in g <=> <<b, c>> \in g
<1>1. CASE Homogeneous(g, A \union B, C)
  BY <1>1, HomogeneousPoints
<1>2. CASE /\ Homogeneous(g, A, C)
           /\ Homogeneous(g, B, C)
           /\ <<a, c>> \in g <=> <<b, c>> \in g
  BY <1>2, HomogeneousPoints
<1> QED BY <1>1, <1>2

------------------------------------------------------------------------------
(***************************************************************************)
(* The red graph of a partition.                                           *)
(***************************************************************************)

\* The vertices outside rem stand for the disjoint classes c, and h is the
\* red graph of these classes, with no edge left at a vertex of rem.
Reduced(g, h, rem, c) ==
  /\ IsSimple(g)
  /\ IsSimple(h)
  /\ rem \subseteq V
  /\ c \in [V -> SUBSET V]
  /\ \A v \in V \ rem : v \in c[v]
  /\ \A v \in rem : c[v] = {}
  /\ \A v, w \in V : v # w => c[v] \cap c[w] = {}
  /\ \A v \in rem : neighborhood(h, v) = {}
  /\ \A v, w \in V \ rem :
       v # w => (<<v, w>> \in h <=> ~Homogeneous(g, c[v], c[w]))

\* The partition.
PartsOf(c, rem) == {c[v] : v \in V \ rem}

\* p stands for both classes, u for none.
MergedInto(c, p, u) == [c EXCEPT ![p] = c[p] \union c[u], ![u] = {}]

\* Before any contraction: no red edge between single vertices.
LEMMA SingletonsReduced ==
  ASSUME NEW g, IsSimple(g)
  PROVE  Reduced(g, EmptyGraph, {}, [v \in V |-> {v}])
<1> DEFINE c == [v \in V |-> {v}]
<1>1. IsSimple(EmptyGraph)
  BY DEF IsSimple, EmptyGraph
<1>2. ASSUME NEW v \in V, NEW w \in V
      PROVE  Homogeneous(g, c[v], c[w])
  <2>1. c[v] \X c[w] = {<<v, w>>}
    OBVIOUS
  <2> QED BY <2>1 DEF Homogeneous
<1>3. \A v \in V : c[v] = {v}
  OBVIOUS
<1>4. c \in [V -> SUBSET V]
  OBVIOUS
<1> HIDE DEF c
<1>5. Reduced(g, EmptyGraph, {}, c)
  BY <1>1, <1>2, <1>3, <1>4 DEF Reduced, EmptyGraph
<1> QED BY <1>5 DEF c

\* The update keeps h the red graph of the classes.
LEMMA ContractedReduced ==
  ASSUME NEW g, NEW h, NEW rem, NEW c, Reduced(g, h, rem, c),
         NEW p \in V \ rem, NEW u \in V \ rem, p # u
  PROVE  Reduced(g, Contracted(g, rem, h, p, u), rem \union {u}, MergedInto(c, p, u))
<1> DEFINE k == Contracted(g, rem, h, p, u)
           gone == rem \union {u}
           d == MergedInto(c, p, u)
<1>1. /\ IsSimple(g) /\ IsSimple(h) /\ rem \subseteq V
      /\ p \in V /\ u \in V
      /\ V \ gone = (V \ rem) \ {u} /\ gone \subseteq V
  BY DEF Reduced
<1>2. /\ d \in [V -> SUBSET V]
      /\ d[p] = c[p] \union c[u]
      /\ d[u] = {}
      /\ \A v \in V \ {p, u} : d[v] = c[v]
  BY <1>1 DEF MergedInto, Reduced
<1>3. \A x, y \in V : <<x, y>> \in k <=>
        \/ <<x, y>> \in h /\ x # u /\ y # u
        \/ x = p /\ y \notin {p, u} /\ NewRed(g, rem, h, p, u, y)
        \/ y = p /\ x \notin {p, u} /\ NewRed(g, rem, h, p, u, x)
  BY <1>1, UpdateEntries
<1>4. IsSimple(k)
  BY <1>1, UpdateSimple
<1> HIDE DEF k, d
<1>5. /\ \A v \in V \ gone : v \in d[v]
      /\ \A v \in gone : d[v] = {}
      /\ \A v, w \in V : v # w => d[v] \cap d[w] = {}
  BY <1>1, <1>2 DEF Reduced
<1>6. ASSUME NEW v \in gone
      PROVE  neighborhood(k, v) = {}
  <2> SUFFICES ASSUME NEW x \in V PROVE <<v, x>> \notin k
    BY DEF neighborhood
  <2>1. \A w \in rem : \A y \in V : <<w, y>> \notin h /\ <<y, w>> \notin h
    BY <1>1 DEF Reduced, neighborhood, IsSimple
  <2>2. v \in V /\ v # p /\ (v = u \/ v \in rem)
    BY <1>1
  <2> QED BY <1>1, <1>3, <2>1, <2>2 DEF NewRed
<1>7. \A v, w \in V : <<v, w>> \in k <=> <<w, v>> \in k
  BY <1>4 DEF IsSimple
<1>8. ASSUME NEW w \in V \ gone, w # p
      PROVE  <<p, w>> \in k <=> ~Homogeneous(g, d[p], d[w])
  <2>1. /\ w \in V \ rem /\ w # u
        /\ w \in c[w] /\ p \in c[p] /\ u \in c[u]
        /\ d[w] = c[w]
    BY <1>2, <1>8 DEF Reduced
  <2>2. /\ <<p, w>> \in h <=> ~Homogeneous(g, c[p], c[w])
        /\ <<u, w>> \in h <=> ~Homogeneous(g, c[u], c[w])
    BY <1>8, <2>1 DEF Reduced
  <2>3. Homogeneous(g, c[p] \union c[u], c[w]) <=>
          /\ Homogeneous(g, c[p], c[w])
          /\ Homogeneous(g, c[u], c[w])
          /\ <<p, w>> \in g <=> <<u, w>> \in g
    BY <2>1, HomogeneousUnion
  <2>4. <<p, w>> \in k <=> \/ <<p, w>> \in h
                          \/ <<u, w>> \in h
                          \/ ~(<<u, w>> \in g <=> <<p, w>> \in g)
    BY <1>1, <1>3, <1>8, <2>1 DEF NewRed
  <2> QED BY <1>2, <2>1, <2>2, <2>3, <2>4
<1>9. ASSUME NEW v \in V \ gone, NEW w \in V \ gone, v # w
      PROVE  <<v, w>> \in k <=> ~Homogeneous(g, d[v], d[w])
  <2>1. CASE v = p
    BY <1>8, <1>9, <2>1
  <2>2. CASE w = p
    <3>1. <<p, v>> \in k <=> ~Homogeneous(g, d[p], d[v])
      BY <1>8, <1>9, <2>2
    <3>2. d[p] \subseteq V /\ d[v] \subseteq V
      BY <1>1, <1>2
    <3>3. Homogeneous(g, d[p], d[v]) <=> Homogeneous(g, d[v], d[p])
      BY <1>1, <3>2, HomogeneousSymmetric
    <3> QED BY <1>1, <1>7, <2>2, <3>1, <3>3
  <2>3. CASE v # p /\ w # p
    <3>1. /\ v \in V \ rem /\ v # u /\ d[v] = c[v]
          /\ w \in V \ rem /\ w # u /\ d[w] = c[w]
      BY <1>2, <1>9, <2>3
    <3>2. <<v, w>> \in h <=> ~Homogeneous(g, c[v], c[w])
      BY <1>9, <3>1 DEF Reduced
    <3> QED BY <1>3, <2>3, <3>1, <3>2
  <2> QED BY <2>1, <2>2, <2>3
<1>10. Reduced(g, k, gone, d)
  BY <1>1, <1>2, <1>4, <1>5, <1>6, <1>9 DEF Reduced
<1> QED BY <1>10 DEF k, d

------------------------------------------------------------------------------
(***************************************************************************)
(* Maxima and degrees.                                                     *)
(***************************************************************************)

\* A non-empty bounded set of naturals has a largest element, and Max of
\* the community modules denotes it.
LEMMA MaxOfNats ==
  ASSUME NEW S, S \subseteq Nat, S # {}, NEW b \in Nat, \A x \in S : x <= b
  PROVE  Max(S) \in S /\ \A y \in S : y <= Max(S)
<1> DEFINE T == {b - x : x \in S}
           R == OpToRel(<, Nat)
<1>0. \A x \in S : x \in Nat /\ b - x \in Nat
  OBVIOUS
<1>1. T \subseteq Nat /\ T # {}
  BY <1>0, Zenon
<1>2. PICK t \in T : \A s \in T : <<s, t>> \notin R
  BY <1>1, NatLessThanWellFounded, WFMin
<1>3. PICK m \in S : t = b - m
  OBVIOUS
<1>4. ASSUME NEW y \in S
      PROVE  y <= m
  <2>1. b - y \in T /\ b - y \in Nat /\ t \in Nat
    BY <1>0, <1>1, Zenon
  <2>2. ~(b - y < t)
    BY <1>2, <2>1 DEF OpToRel
  <2>3. y \in Nat /\ m \in Nat
    BY <1>0
  <2> HIDE DEF T, R
  <2> QED BY <1>3, <2>2, <2>3
<1>5. \E x \in S : \A y \in S : x >= y
  BY <1>4
<1> QED BY <1>5 DEF Max

\* A degree is a natural number no larger than the number of vertices.
LEMMA DegreeBound ==
  ASSUME NEW h, NEW v
  PROVE  /\ degree(h, v) \in Nat
         /\ degree(h, v) <= Cardinality(V)
BY VFinite, FS_CardinalityType, FS_Subset DEF degree, neighborhood

\* max_degree is a natural number and bounds every degree.
LEMMA MaxDegreeBound ==
  ASSUME NEW h
  PROVE  /\ max_degree(h) \in Nat
         /\ \A v \in V : degree(h, v) <= max_degree(h)
<1> DEFINE D == {0} \union {degree(h, v) : v \in V}
<1>1. D \subseteq Nat /\ D # {} /\ (\A d \in D : d <= Cardinality(V))
  BY DegreeBound, VFinite, FS_CardinalityType
<1>2. Max(D) \in D /\ \A d \in D : d <= Max(D)
  BY <1>1, MaxOfNats, VFinite, FS_CardinalityType
<1> QED BY <1>1, <1>2 DEF max_degree

\* The largest degree in the red graph is the largest red degree of the
\* partition.  The map from a present vertex to its class is the bijection
\* behind it.
LEMMA DegreesAgree ==
  ASSUME NEW g, NEW h, NEW rem, NEW c, Reduced(g, h, rem, c)
  PROVE  max_degree(h) = MaxRedDegree(g, PartsOf(c, rem))
<1>0. /\ IsSimple(h)
      /\ rem \subseteq V
      /\ \A v \in V \ rem : v \in c[v]
      /\ \A v, w \in V : v # w => c[v] \cap c[w] = {}
      /\ \A v \in rem : neighborhood(h, v) = {}
      /\ \A v, w \in V \ rem :
           v # w => (<<v, w>> \in h <=> ~Homogeneous(g, c[v], c[w]))
  BY DEF Reduced
<1> DEFINE P == {c[v] : v \in V \ rem}
           reds(A) == {B \in P \ {A} : ~Homogeneous(g, A, B)}
<1>1. ASSUME NEW v \in V \ rem
      PROVE  degree(h, v) = RedDegree(g, P, c[v])
  <2> DEFINE N == neighborhood(h, v)
             f == [x \in N |-> c[x]]
  <2>1. N \subseteq V \ rem /\ v \notin N
    BY <1>0 DEF neighborhood, IsSimple
  <2>2. \A x \in N : c[x] \in reds(c[v])
    BY <1>0, <2>1 DEF neighborhood
  <2>3. \A B \in reds(c[v]) : \E x \in N : c[x] = B
    BY <1>0 DEF neighborhood
  <2>4. \A x, y \in N : c[x] = c[y] => x = y
    BY <1>0, <2>1
  <2>5. f \in Bijection(N, reds(c[v]))
    BY <2>2, <2>3, <2>4 DEF Bijection, Injection, Surjection, IsInjective
  <2>6. IsFiniteSet(N)
    BY VFinite, FS_Subset DEF neighborhood
  <2> QED BY <2>5, <2>6, FS_Bijection DEF ExistsBijection, degree, RedDegree
<1>2. \A v \in rem : degree(h, v) = 0
  BY <1>0, FS_EmptySet DEF degree
<1>3. {0} \union {degree(h, v) : v \in V} =
        {0} \union {RedDegree(g, P, A) : A \in P}
  <2> DEFINE D == {degree(h, v) : v \in V}
             E == {RedDegree(g, P, A) : A \in P}
  <2>1. ASSUME NEW d \in D
        PROVE  d = 0 \/ d \in E
    <3>1. PICK v \in V : d = degree(h, v)
      OBVIOUS
    <3>2. CASE v \in rem
      BY <1>2, <3>1, <3>2
    <3>3. CASE v \in V \ rem
      <4>1. c[v] \in P
        BY <3>3
      <4>2. d = RedDegree(g, P, c[v])
        BY <1>1, <3>1, <3>3
      <4> QED BY <4>1, <4>2
    <3> QED BY <3>2, <3>3
  <2>2. ASSUME NEW e \in E
        PROVE  e \in D
    <3>1. PICK v \in V \ rem : e = RedDegree(g, P, c[v])
      BY Zenon
    <3> QED BY <1>1, <3>1
  <2> QED BY <2>1, <2>2
<1> QED BY <1>3 DEF max_degree, MaxRedDegree, PartsOf

\* What a contraction does to the partition.
LEMMA MergedClasses ==
  ASSUME NEW g, NEW h, NEW rem, NEW c, Reduced(g, h, rem, c),
         NEW p \in V \ rem, NEW u \in V \ rem, p # u
  PROVE  PartsOf(MergedInto(c, p, u), rem \union {u}) =
           MergeParts(PartsOf(c, rem), c[p], c[u])
<1> DEFINE d == MergedInto(c, p, u)
           P == {c[v] : v \in V \ rem}
           Q == {d[v] : v \in V \ (rem \union {u})}
<1>1. /\ d[p] = c[p] \union c[u]
      /\ \A v \in V \ {p, u} : d[v] = c[v]
  BY DEF MergedInto, Reduced
<1>2. \A v \in V \ rem : v # p /\ v # u => c[v] # c[p] /\ c[v] # c[u]
  BY DEF Reduced
<1> HIDE DEF d
<1>3. ASSUME NEW A \in Q
      PROVE  A \in MergeParts(P, c[p], c[u])
  <2>1. PICK v \in V \ (rem \union {u}) : A = d[v]
    BY Zenon
  <2> QED BY <1>1, <1>2, <2>1 DEF MergeParts
<1>4. ASSUME NEW A \in MergeParts(P, c[p], c[u])
      PROVE  A \in Q
  <2>1. CASE A = c[p] \union c[u]
    BY <1>1, <2>1
  <2>2. CASE A # c[p] \union c[u]
    <3>1. A \in P /\ A # c[p] /\ A # c[u]
      BY <1>4, <2>2 DEF MergeParts
    <3>2. PICK v \in V \ rem : A = c[v]
      BY <3>1
    <3> QED BY <1>1, <3>1, <3>2
  <2> QED BY <2>1, <2>2
<1>5. Q = MergeParts(P, c[p], c[u])
  BY <1>3, <1>4
<1> QED BY <1>5 DEF d, PartsOf

\* The largest degree after an update is the largest red degree after the
\* contraction.
LEMMA ContractedDegree ==
  ASSUME NEW g, NEW h, NEW rem, NEW c, Reduced(g, h, rem, c),
         NEW p \in V \ rem, NEW u \in V \ rem, p # u
  PROVE  max_degree(Contracted(g, rem, h, p, u)) =
           MaxRedDegree(g, MergeParts(PartsOf(c, rem), c[p], c[u]))
<1>1. Reduced(g, Contracted(g, rem, h, p, u), rem \union {u}, MergedInto(c, p, u))
  BY ContractedReduced
<1>2. max_degree(Contracted(g, rem, h, p, u)) =
        MaxRedDegree(g, PartsOf(MergedInto(c, p, u), rem \union {u}))
  BY <1>1, DegreesAgree
<1> QED BY <1>2, MergedClasses

\* In a graph without loops a degree is less than the number of vertices.
LEMMA SimpleDegrees ==
  ASSUME NEW h, IsSimple(h), V # {}
  PROVE  max_degree(h) \in Nat /\ max_degree(h) < Cardinality(V)
<1> DEFINE D == {0} \union {degree(h, v) : v \in V}
<1>0. Cardinality(V) \in Nat /\ Cardinality(V) # 0
  BY VFinite, FS_CardinalityType, FS_EmptySet
<1>1. ASSUME NEW v \in V
      PROVE  degree(h, v) \in Nat /\ degree(h, v) <= Cardinality(V) - 1
  <2>1. neighborhood(h, v) \subseteq V \ {v}
    BY DEF neighborhood, IsSimple
  <2>2. IsFiniteSet(V \ {v}) /\ Cardinality(V \ {v}) = Cardinality(V) - 1
    BY VFinite, FS_RemoveElement
  <2> QED BY <2>1, <2>2, FS_Subset, FS_CardinalityType DEF degree
<1>2. \A d \in D : d \in Nat /\ d <= Cardinality(V) - 1
  BY <1>0, <1>1
<1>3. D \subseteq Nat /\ D # {}
  BY <1>2, Zenon
<1> HIDE DEF D
<1>6. Cardinality(V) - 1 \in Nat
  BY <1>0
<1>4. Max(D) \in D
  BY <1>2, <1>3, <1>6, MaxOfNats
<1>5. max_degree(h) = Max(D)
  BY DEF max_degree, D
<1> QED BY <1>0, <1>2, <1>4, <1>5
==============================================================================
