-------------------------- MODULE ContractionProofs --------------------------
(***************************************************************************)
(* Proofs about Graph::width for every finite vertex set and every graph:  *)
(* the red graph it maintains is the red graph of the partition reached.   *)
(***************************************************************************)
EXTENDS Contraction, GraphLemmas

------------------------------------------------------------------------------
(***************************************************************************)
(* The invariant.                                                          *)
(***************************************************************************)

\* Nothing else is to be said of the state than that H is the red graph of
\* the classes and that these cover V; the numbers in answer come later.
IInv ==
  /\ Reduced(G, H, removed, cls)
  /\ UNION {cls[v] : v \in V} = V

LEMMA InitInv == Init => IInv
<1> SUFFICES ASSUME Init PROVE IInv
  OBVIOUS
<1>1. cls = [v \in V |-> {v}] /\ H = EmptyGraph /\ removed = {} /\ IsSimple(G)
  BY InputsSimple DEF Init
<1>2. Reduced(G, H, removed, cls)
  BY <1>1, SingletonsReduced
<1>3. UNION {cls[v] : v \in V} = V
  BY <1>1
<1> QED BY <1>2, <1>3 DEF IInv

\* One contraction preserves it.
LEMMA ContractInv ==
  ASSUME IInv, NEW p \in V, NEW u \in V, Contract(p, u)
  PROVE  IInv'
<1>1. /\ p # u /\ p \in V \ removed /\ u \in V \ removed
      /\ G' = G
      /\ H' = Contracted(G, removed, H, p, u)
      /\ removed' = removed \union {u}
      /\ cls' = MergedInto(cls, p, u)
  BY DEF Contract, present, MergedInto
<1>2. Reduced(G', H', removed', cls')
  BY <1>1, ContractedReduced DEF IInv
<1>3. UNION {cls'[v] : v \in V} = UNION {cls[v] : v \in V}
  <2>1. cls \in [V -> SUBSET V]
    BY DEF IInv, Reduced
  <2>2. /\ cls'[p] = cls[p] \union cls[u]
        /\ cls'[u] = {}
        /\ \A v \in V \ {p, u} : cls'[v] = cls[v]
    BY <1>1, <2>1 DEF MergedInto
  <2> QED BY <2>2
<1> QED BY <1>2, <1>3 DEF IInv, Reduced, IsSimple, neighborhood

\* What the invariant says in the words of the component.
LEMMA InvMeans ==
  ASSUME IInv
  PROVE  RedExact /\ RemovedIsolated /\ ClassesPartition
BY DEF IInv, Reduced, RedExact, RemovedIsolated, ClassesPartition, present, has_edge

------------------------------------------------------------------------------
(***************************************************************************)
(* The theorems.                                                           *)
(***************************************************************************)

LEMMA StepInv == IInv /\ [Next]_vars => IInv'
<1> SUFFICES ASSUME IInv, [Next]_vars PROVE IInv'
  OBVIOUS
<1>1. ASSUME NEW p \in V, NEW u \in V, Contract(p, u)
      PROVE  IInv'
  BY <1>1, ContractInv
<1>2. CASE UNCHANGED vars
  BY <1>2 DEF vars, IInv, Reduced, neighborhood
<1> QED BY <1>1, <1>2 DEF Next

\* Graph::width keeps H the exact red graph of the partition reached, with
\* no edge left at a removed vertex, whatever the graph and the sequence.
THEOREM RedGraphExact == Spec => [](RedExact /\ RemovedIsolated /\ ClassesPartition)
<1>1. IInv => RedExact /\ RemovedIsolated /\ ClassesPartition
  BY InvMeans
<1> QED BY InitInv, StepInv, <1>1, PTL DEF Spec

\* The state of Graph::width keeps its types; in particular answer is the
\* maximum of finitely many degrees, so a natural number.
THEOREM TypeCorrect == Spec => []TypeOK
<1>1. Init => TypeOK
  BY InitInv DEF IInv, Reduced, Init, TypeOK
<1>2. TypeOK /\ IInv /\ [Next]_vars => TypeOK'
  <2> SUFFICES ASSUME TypeOK, IInv, [Next]_vars PROVE TypeOK'
    OBVIOUS
  <2>1. IsSimple(G') /\ IsSimple(H') /\ removed' \subseteq V /\ cls' \in [V -> SUBSET V]
    BY StepInv DEF IInv, Reduced
  <2>2. answer' \in Nat
    <3>1. ASSUME NEW p \in V, NEW u \in V, Contract(p, u)
          PROVE  answer' \in Nat
      BY <3>1, MaxDegreeBound DEF Contract, Larger, TypeOK
    <3> QED BY <3>1 DEF Next, vars, TypeOK
  <2> QED BY <2>1, <2>2 DEF TypeOK, IsSimple
<1> QED BY <1>1, <1>2, InitInv, StepInv, PTL DEF Spec

\* Replaying a sequence on representatives with an incrementally updated
\* red graph is a contraction sequence of partitions, with the same width.
THEOREM WidthImplementsTrigraph == Spec => ImplementsTrigraph
<1>1. Init => Abstract!Init
  <2> SUFFICES ASSUME Init PROVE Parts = Singletons
    BY DEF Init, Abstract!Init, Abstract!Singletons, Singletons
  <2> QED BY DEF Init, Parts, present, Singletons
<1>2. IInv /\ [Next]_vars => [Abstract!Next]_(Abstract!vars)
  <2> SUFFICES ASSUME IInv, [Next]_vars PROVE [Abstract!Next]_(Abstract!vars)
    OBVIOUS
  <2>1. ASSUME NEW p \in V, NEW u \in V, Contract(p, u)
        PROVE  Abstract!Merge(cls[p], cls[u]) /\ cls[p] \in Parts /\ cls[u] \in Parts
    <3>1. /\ p # u /\ p \in present /\ u \in present
          /\ p \in cls[p] /\ u \in cls[u] /\ cls[p] \cap cls[u] = {}
          /\ present' = present \ {u}
          /\ cls \in [V -> SUBSET V]
      BY <2>1 DEF IInv, Reduced, Contract, present
    <3>2. /\ Reduced(G, H, removed, cls)
          /\ Parts = PartsOf(cls, removed) /\ Parts' = PartsOf(cls', removed')
          /\ cls' = MergedInto(cls, p, u) /\ removed' = removed \union {u}
      BY <2>1 DEF IInv, Contract, Parts, present, PartsOf, MergedInto
    <3>3. Parts' = MergeParts(Parts, cls[p], cls[u])
      BY <3>1, <3>2, MergedClasses DEF present
    <3>4. Reduced(G', H', removed', cls')
      BY <2>1, ContractInv DEF IInv
    <3>5. max_degree(H') = MaxRedDegree(G', Parts')
      BY <3>2, <3>4, DegreesAgree
    <3>6. answer' = Larger(answer, MaxRedDegree(G, Parts')) /\ G' = G
      BY <2>1, <3>5 DEF Contract
    <3>7. MaxRedDegree(G, Parts') = Abstract!MaxRedDegree(G, Parts')
      BY DEF MaxRedDegree, Abstract!MaxRedDegree, RedDegree, Abstract!RedDegree,
             Homogeneous, Abstract!Homogeneous, Max, Abstract!Max,
             Cardinality, Abstract!Cardinality
    <3> QED BY <3>1, <3>3, <3>6, <3>7
            DEF Abstract!Merge, Abstract!MergeParts, MergeParts, Abstract!Larger, Larger, Parts
  <2>2. CASE UNCHANGED vars
    BY <2>2 DEF vars, Abstract!vars, Parts, present
  <2> QED BY <2>1, <2>2 DEF Next, Abstract!Next
<1> QED BY <1>1, <1>2, InitInv, StepInv, PTL DEF Spec, ImplementsTrigraph, Abstract!Spec

------------------------------------------------------------------------------
(***************************************************************************)
(* The counters of a Graph object such as H are exact, for any number of   *)
(* calls of add_edge and remove_edge: what lets degree(h, v) be read as    *)
(* the size of neighborhood(h, v).                                         *)
(***************************************************************************)
VARIABLES deg,   \* the degree counters of H
          m      \* its edge counter

Object == INSTANCE GraphObject WITH g <- H

ObjectInv ==
  /\ IsSimple(H)
  /\ deg \in [V -> Int]
  /\ m \in Int
  /\ \A v \in V : deg[v] = degree(H, v)
  /\ 2 * m = Cardinality(H)

\* Adding one pair of mirrored entries.
LEMMA AddedEntries ==
  ASSUME NEW h, IsSimple(h), NEW u \in V, NEW v \in V, u # v
  PROVE  /\ add_edges(h, {<<u, v>>}) = h \union {<<u, v>>, <<v, u>>}
         /\ remove_edges(h, {<<u, v>>}) = h \ {<<u, v>>, <<v, u>>}
         /\ IsSimple(add_edges(h, {<<u, v>>}))
         /\ IsSimple(remove_edges(h, {<<u, v>>}))
<1>1. Mirror({<<u, v>>}) = {<<u, v>>, <<v, u>>}
  BY DEF Mirror
<1> QED BY <1>1 DEF add_edges, remove_edges, IsSimple

LEMMA SimpleFinite ==
  ASSUME NEW h, IsSimple(h)
  PROVE  /\ IsFiniteSet(h) /\ Cardinality(h) \in Nat
         /\ \A v \in V : IsFiniteSet(neighborhood(h, v)) /\ degree(h, v) \in Nat
<1>1. IsFiniteSet(V \X V)
  BY VFinite, FS_Product
<1> QED BY <1>1, VFinite, FS_Subset, FS_CardinalityType DEF IsSimple, neighborhood, degree

\* How the sizes the counters stand for change when one edge is added;
\* read backwards, when one edge is removed.
LEMMA EdgeSizes ==
  ASSUME NEW h, IsSimple(h), NEW u \in V, NEW v \in V, u # v, <<u, v>> \notin h,
         IsSimple(h \union {<<u, v>>, <<v, u>>})
  PROVE  LET k == h \union {<<u, v>>, <<v, u>>} IN
         /\ Cardinality(k) = Cardinality(h) + 2
         /\ degree(k, u) = degree(h, u) + 1
         /\ degree(k, v) = degree(h, v) + 1
         /\ \A w \in V \ {u, v} : degree(k, w) = degree(h, w)
<1> DEFINE k == h \union {<<u, v>>, <<v, u>>}
<1>1. Cardinality(k) = Cardinality(h) + 2
  <2> DEFINE h1 == h \union {<<u, v>>}
  <2>1. IsFiniteSet(h1) /\ Cardinality(h1) = Cardinality(h) + 1
    BY SimpleFinite, FS_AddElement
  <2>2. <<v, u>> \notin h1 /\ k = h1 \union {<<v, u>>}
    BY DEF IsSimple
  <2>3. Cardinality(k) = Cardinality(h1) + 1
    BY <2>1, <2>2, FS_AddElement
  <2> QED BY <2>1, <2>3, SimpleFinite
<1>2. neighborhood(k, u) = neighborhood(h, u) \union {v} /\ v \notin neighborhood(h, u)
  BY DEF neighborhood
<1>3. neighborhood(k, v) = neighborhood(h, v) \union {u} /\ u \notin neighborhood(h, v)
  BY DEF neighborhood, IsSimple
<1>4. \A w \in V \ {u, v} : neighborhood(k, w) = neighborhood(h, w)
  BY DEF neighborhood
<1>5. degree(k, u) = degree(h, u) + 1 /\ degree(k, v) = degree(h, v) + 1
  BY <1>2, <1>3, SimpleFinite, FS_AddElement DEF degree
<1> QED BY <1>1, <1>4, <1>5 DEF degree

LEMMA ObjectInit == Object!Init => ObjectInv
<1> SUFFICES ASSUME Object!Init PROVE ObjectInv
  OBVIOUS
<1>1. H = {} /\ deg = [v \in V |-> 0] /\ m = 0
  BY DEF Object!Init, Object!EmptyGraph
<1>2. Cardinality({}) = 0
  BY FS_EmptySet
<1>3. \A v \in V : neighborhood(H, v) = {}
  BY <1>1 DEF neighborhood
<1>4. IsSimple(H)
  BY <1>1 DEF IsSimple
<1> QED BY <1>1, <1>2, <1>3, <1>4 DEF ObjectInv, degree

LEMMA ObjectStep == ObjectInv /\ [Object!Next]_(Object!vars) => ObjectInv'
<1> SUFFICES ASSUME ObjectInv, [Object!Next]_(Object!vars) PROVE ObjectInv'
  OBVIOUS
<1>1. CASE UNCHANGED <<H, deg, m>>
  BY <1>1 DEF ObjectInv, IsSimple, degree, neighborhood
<1>2. ASSUME NEW u \in V, NEW v \in V, Object!add_edge(u, v)
      PROVE  ObjectInv'
  <2>1. CASE has_edge(H, u, v)
    BY <1>1, <1>2, <2>1 DEF Object!add_edge, Object!vars, Object!has_edge, has_edge
  <2>2. CASE ~has_edge(H, u, v)
    <3> IsSimple(H) /\ u # v /\ <<u, v>> \notin H
      BY <1>2, <2>2 DEF Object!add_edge, ObjectInv, has_edge
    <3>0. /\ H' = add_edges(H, {<<u, v>>})
          /\ deg' = [deg EXCEPT ![u] = @ + 1, ![v] = @ + 1]
          /\ m' = m + 1
      BY <1>2, <2>2 DEF Object!add_edge, Object!has_edge, has_edge,
           Object!add_edges, add_edges, Object!Mirror, Mirror
    <3>1. H' = H \union {<<u, v>>, <<v, u>>} /\ IsSimple(H')
      BY <3>0, AddedEntries
    <3>2. /\ Cardinality(H') = Cardinality(H) + 2
          /\ degree(H', u) = degree(H, u) + 1
          /\ degree(H', v) = degree(H, v) + 1
          /\ \A w \in V \ {u, v} : degree(H', w) = degree(H, w)
      BY <3>1, EdgeSizes
    <3>3. IsSimple(H)' /\ deg' \in [V -> Int] /\ m' \in Int
      BY <3>0, <3>1 DEF ObjectInv
    <3>4. \A w \in V : deg'[w] = degree(H', w)
      BY <3>0, <3>2 DEF ObjectInv
    <3>5. 2 * m' = Cardinality(H')
      BY <3>0, <3>2, SimpleFinite DEF ObjectInv
    <3> QED BY <3>3, <3>4, <3>5 DEF ObjectInv, degree, neighborhood
  <2> QED BY <2>1, <2>2
<1>3. ASSUME NEW u \in V, NEW v \in V, Object!remove_edge(u, v)
      PROVE  ObjectInv'
  <2>1. CASE ~has_edge(H, u, v)
    BY <1>1, <1>3, <2>1 DEF Object!remove_edge, Object!vars, Object!has_edge, has_edge
  <2>2. CASE has_edge(H, u, v)
    <3> IsSimple(H) /\ u # v /\ <<u, v>> \in H
      BY <1>3, <2>2 DEF Object!remove_edge, ObjectInv, has_edge
    <3>0. /\ H' = remove_edges(H, {<<u, v>>})
          /\ deg' = [deg EXCEPT ![u] = @ - 1, ![v] = @ - 1]
          /\ m' = m - 1
      BY <1>3, <2>2 DEF Object!remove_edge, Object!has_edge, has_edge,
           Object!remove_edges, remove_edges, Object!Mirror, Mirror
    <3>1. H' = H \ {<<u, v>>, <<v, u>>} /\ IsSimple(H')
      BY <3>0, AddedEntries
    <3>2. H = H' \union {<<u, v>>, <<v, u>>} /\ <<u, v>> \notin H'
      BY <3>1 DEF IsSimple
    <3>3. /\ Cardinality(H) = Cardinality(H') + 2
          /\ degree(H, u) = degree(H', u) + 1
          /\ degree(H, v) = degree(H', v) + 1
          /\ \A w \in V \ {u, v} : degree(H, w) = degree(H', w)
      <4> DEFINE k == H' \union {<<u, v>>, <<v, u>>}
      <4>0. k = H
        BY <3>2
      <4>2. IsSimple(k) /\ IsSimple(H') /\ <<u, v>> \notin H'
        BY <3>1, <3>2
      <4>1. /\ Cardinality(k) = Cardinality(H') + 2
            /\ degree(k, u) = degree(H', u) + 1
            /\ degree(k, v) = degree(H', v) + 1
            /\ \A w \in V \ {u, v} : degree(k, w) = degree(H', w)
        BY <4>2, EdgeSizes
      <4> HIDE DEF k
      <4> QED BY <4>1, <4>0
    <3>4. IsSimple(H)' /\ deg' \in [V -> Int] /\ m' \in Int
      BY <3>0, <3>1 DEF ObjectInv
    <3>5. \A w \in V : degree(H', w) \in Nat
      BY <3>1, SimpleFinite
    <3>6. ASSUME NEW w \in V PROVE deg'[w] = degree(H', w)
      <4>1. deg[w] = degree(H, w) /\ deg \in [V -> Int]
        BY DEF ObjectInv
      <4>2. CASE w = u
        <5>1. deg'[u] = deg[u] - 1
          BY <3>0, <4>1
        <5>2. degree(H, u) = degree(H', u) + 1 /\ degree(H', u) \in Nat
          BY <3>3, <3>5
        <5> QED BY <5>1, <5>2, <4>1, <4>2
      <4>3. CASE w = v
        <5>1. deg'[v] = deg[v] - 1
          BY <3>0, <4>1
        <5>2. degree(H, v) = degree(H', v) + 1 /\ degree(H', v) \in Nat
          BY <3>3, <3>5
        <5> QED BY <5>1, <5>2, <4>1, <4>3
      <4>4. CASE w \in V \ {u, v}
        BY <3>0, <3>3, <4>1, <4>4
      <4> QED BY <4>2, <4>3, <4>4
    <3>7. 2 * m' = Cardinality(H')
      <4>1. 2 * m = Cardinality(H) /\ m \in Int
        BY DEF ObjectInv
      <4>2. Cardinality(H') \in Nat
        BY <3>1, SimpleFinite
      <4> QED BY <3>0, <3>3, <4>1, <4>2
    <3> QED BY <3>4, <3>6, <3>7 DEF ObjectInv, degree, neighborhood
  <2> QED BY <2>1, <2>2
<1> QED BY <1>1, <1>2, <1>3 DEF Object!Next, Object!vars

\* Whatever calls are made, deg and m agree with the matrix.
THEOREM CountersAgree == Object!Spec => [](Object!TypeOK /\ Object!CountersExact)
<1>1. ObjectInv => Object!TypeOK /\ Object!CountersExact
  BY DEF ObjectInv, Object!TypeOK, Object!CountersExact, IsSimple, Object!IsSimple,
         degree, Object!degree, neighborhood, Object!neighborhood,
         Cardinality, Object!Cardinality
<1> QED BY ObjectInit, ObjectStep, <1>1, PTL DEF Object!Spec
==============================================================================
