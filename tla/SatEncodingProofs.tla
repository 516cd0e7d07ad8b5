-------------------------- MODULE SatEncodingProofs --------------------------
(***************************************************************************)
(* The encoding is sound, for every graph, all bounds and every assignment *)
(* that satisfies the clauses: the sequence decoded is one, and its width  *)
(* is within the upper bound.  The argument: once the vertices of a prefix *)
(* of the elimination order are contracted, every red edge there is has    *)
(* its variable in the row of the last of them.                            *)
(***************************************************************************)
EXTENDS SatEncoding, GraphLemmas

------------------------------------------------------------------------------
(***************************************************************************)
(* The order and the parents.                                              *)
(***************************************************************************)

\* V is 0 .. n - 1.
LEMMA Numbers ==
  V \subseteq Nat /\ Cardinality(V) \in Nat /\ \A v \in V : v < Cardinality(V)
BY VNumbered, VFinite, FS_CardinalityType

\* Of two vertices one comes before the other.
LEMMA Antisymmetric ==
  ASSUME NEW m, NEW i \in V, NEW j \in V, i # j
  PROVE  o(m, i, j) <=> ~o(m, j, i)
BY Numbers DEF o

\* Every non-empty set of vertices has one that comes last.
LEMMA LastExists ==
  ASSUME NEW m, Transitive(m), NEW S \in SUBSET V, S # {}
  PROVE  \E v \in S : \A w \in S \ {v} : ~o(m, v, w)
<1> DEFINE Later(v) == {w \in S \ {v} : o(m, v, w)}
           T == {Cardinality(Later(v)) : v \in S}
<1>1. \A v \in S : IsFiniteSet(Later(v)) /\ Cardinality(Later(v)) \in Nat
  BY VFinite, FS_Subset, FS_CardinalityType
<1>2. T \subseteq Nat /\ T # {}
  BY <1>1
<1>3. PICK t \in T : \A s \in T : <<s, t>> \notin OpToRel(<, Nat)
  BY <1>2, NatLessThanWellFounded, WFMin
<1>4. PICK v \in S : t = Cardinality(Later(v))
  OBVIOUS
<1>5. ASSUME NEW w \in S \ {v}, o(m, v, w)
      PROVE  FALSE
  <2>1. Later(w) \subseteq Later(v)
    <3> SUFFICES ASSUME NEW z \in S \ {w}, o(m, w, z) PROVE z # v /\ o(m, v, z)
      OBVIOUS
    <3>1. z # v
      BY <1>5, Antisymmetric
    <3> QED BY <3>1, <1>5 DEF Transitive
  <2>2. w \in Later(v) /\ w \notin Later(w)
    BY <1>5
  <2>3. Cardinality(Later(w)) < Cardinality(Later(v))
    <3> HIDE DEF Later
    <3> QED BY <2>1, <2>2, <1>1, <1>4, FS_Subset
  <2>4. Cardinality(Later(w)) \in T /\ Cardinality(Later(w)) \in Nat /\ t \in Nat
    BY <1>1, <1>2
  <2> QED BY <2>3, <2>4, <1>3, <1>4 DEF OpToRel
<1> QED BY <1>5

------------------------------------------------------------------------------
(***************************************************************************)
(* The invariant.                                                          *)
(***************************************************************************)

\* The vertices removed come before those present.
Prefix == \A w \in removed, v \in present : o(M, w, v)

\* The red edges have their a-variable, and their r-variable in one row.
RedForced ==
  /\ \A x, y \in present : <<x, y>> \in H => a(M, x, y)
  /\ removed # {} =>
       \E w \in removed : \A x, y \in present : <<x, y>> \in H => r(M, w, x, y)

RemovedIsolated == \A v \in removed : \A x \in V : <<v, x>> \notin H

IInv ==
  /\ TypeOK
  /\ G \in Inputs /\ <<ub, lb>> \in Bounds
  /\ removed = {} => H = EmptyGraph
  /\ answer # "sat" => removed = {}
  /\ answer = "sat" => Satisfies(M, G, ub, lb)
  /\ Prefix
  /\ RedForced
  /\ RemovedIsolated

\* The parent decoded for the next vertex: a p-variable that is true.
LEMMA ParentDecoded ==
  ASSUME IInv, answer = "sat", NEW u \in V, present # {u}, IsNext(u)
  PROVE  /\ parent(u) \in present \ {u}
         /\ u < parent(u) /\ p(M, u, parent(u)) /\ o(M, u, parent(u))
<1> DEFINE C == {j \in V : u < j /\ p(M, u, j)}
<1>1. /\ Transitive(M) /\ SomeParent(M) /\ ParentLater(M) /\ Prefix
      /\ removed \subseteq V /\ u \in present
  BY DEF IInv, Satisfies, TypeOK, IsNext
<1>2. ASSUME NEW i \in present, NEW j \in V, i < j, p(M, i, j)
      PROVE  j \in present /\ o(M, i, j) /\ j # i
  <2>1. o(M, i, j) /\ i # j /\ i \in V
    BY <1>1, <1>2, Numbers DEF ParentLater, present
  <2>2. j \notin removed
    BY <2>1, <1>1, Antisymmetric DEF Prefix
  <2> QED BY <2>1, <2>2 DEF present
<1>3. u # Cardinality(V) - 1
  <2>1. present \in SUBSET V /\ present # {}
    BY <1>1 DEF present
  <2>2. PICK v \in present : \A w \in present \ {v} : ~o(M, v, w)
    BY <2>1, <1>1, LastExists
  <2>3. v # u
    BY <1>1, <2>2 DEF IsNext
  <2>4. v = Cardinality(V) - 1
    <3> SUFFICES ASSUME v # Cardinality(V) - 1 PROVE FALSE
      OBVIOUS
    <3>1. PICK j \in V : v < j /\ p(M, v, j)
      BY <1>1, <2>1 DEF SomeParent
    <3> QED BY <3>1, <1>2, <2>2
  <2> QED BY <2>3, <2>4
<1>4. C # {} /\ C \subseteq Nat /\ \A j \in C : j <= Cardinality(V)
  <2>1. \E j \in V : u < j /\ p(M, u, j)
    BY <1>1, <1>3 DEF SomeParent
  <2>2. C # {}
    BY <2>1
  <2>3. C \subseteq V
    OBVIOUS
  <2>4. \A j \in V : j \in Nat /\ j <= Cardinality(V)
    BY Numbers
  <2> QED BY <2>2, <2>3, <2>4
<1>5. Max(C) \in C
  BY <1>4, MaxOfNats, Numbers
<1>6. parent(u) = Max(C)
  BY <1>4 DEF parent
<1> QED BY <1>1, <1>2, <1>5, <1>6

LEMMA InitInv == Init => IInv
<1> SUFFICES ASSUME Init PROVE IInv
  OBVIOUS
<1>1. TypeOK
  BY InputsSimple, BoundsTyped
     DEF Init, TypeOK, IsSimple, EmptyGraph, AllAssignments, Nothing
<1>2. removed = {} /\ H = {} /\ answer = "none"
  BY DEF Init, EmptyGraph
<1>3. Prefix /\ RedForced /\ RemovedIsolated
  BY <1>2 DEF Prefix, RedForced, RemovedIsolated
<1>4. G \in Inputs /\ <<ub, lb>> \in Bounds
  <2>1. PICK b \in Bounds : ub = b[1] /\ lb = b[2]
    BY DEF Init
  <2>2. b = <<ub, lb>>
    BY <2>1, BoundsTyped
  <2> QED BY <2>1, <2>2 DEF Init
<1> QED BY <1>1, <1>2, <1>3, <1>4 DEF IInv, EmptyGraph

------------------------------------------------------------------------------
(***************************************************************************)
(* One contraction preserves the invariant.                                *)
(***************************************************************************)
LEMMA EliminateInv ==
  ASSUME IInv, NEW u \in V, Eliminate(u)
  PROVE  IInv'
<1> DEFINE q == parent(u)
<1>1. /\ TypeOK /\ Prefix /\ RedForced /\ RemovedIsolated
      /\ Satisfies(M, G, ub, lb)
      /\ answer = "sat" /\ IsNext(u) /\ present # {u}
  BY DEF IInv, Eliminate
<1>2. /\ q \in present \ {u} /\ u \in present /\ q \in V /\ q # u
      /\ u < q /\ p(M, u, q) /\ o(M, u, q)
  BY <1>1, ParentDecoded DEF IsNext, present
<1> HIDE DEF q
<1>3. /\ G' = G /\ ub' = ub /\ lb' = lb /\ answer' = answer /\ M' = M
      /\ removed' = removed \union {u}
      /\ present' = present \ {u}
      /\ H' = Contracted(G, removed, H, q, u)
  BY DEF Eliminate, present, q
<1>4. IsSimple(G) /\ IsSimple(H) /\ removed \subseteq V
  BY <1>1 DEF TypeOK
<1>5. \A x, y \in V : <<x, y>> \in H' <=>
        \/ <<x, y>> \in H /\ x # u /\ y # u
        \/ x = q /\ y \notin {q, u} /\ NewRed(G, removed, H, q, u, y)
        \/ y = q /\ x \notin {q, u} /\ NewRed(G, removed, H, q, u, x)
  <2>1. ASSUME NEW x \in V, NEW y \in V
        PROVE  <<x, y>> \in Contracted(G, removed, H, q, u) <=>
                 \/ <<x, y>> \in H /\ x # u /\ y # u
                 \/ x = q /\ y \notin {q, u} /\ NewRed(G, removed, H, q, u, y)
                 \/ y = q /\ x \notin {q, u} /\ NewRed(G, removed, H, q, u, x)
    <3>1. q \in V /\ q # u
      BY <1>2
    <3> QED BY <3>1, <1>4, UpdateEntries
  <2>2. H' = Contracted(G, removed, H, q, u)
    BY <1>3
  <2> QED BY <2>1, <2>2
<1>6. TypeOK'
  <2>1. IsSimple(H')
    BY <1>2, <1>3, <1>4, UpdateSimple
  <2>2. IsSimple(G)' /\ IsSimple(H)'
    BY <2>1, <1>3, <1>4 DEF IsSimple
  <2>3. AllAssignments' = AllAssignments
    BY DEF AllAssignments, Pairs
  <2> QED BY <2>2, <2>3, <1>1, <1>3 DEF TypeOK
<1>7. Prefix'
  <2> SUFFICES ASSUME NEW w \in removed', NEW v \in present'
               PROVE  o(M, w, v)
    BY <1>3 DEF Prefix, o
  <2>1. CASE w = u
    BY <2>1, <1>1, <1>3 DEF IsNext
  <2>2. CASE w \in removed
    BY <2>2, <1>1, <1>3 DEF Prefix
  <2> QED BY <2>1, <2>2, <1>3
\* A red edge that is there afterwards was there or is one of q.
<1>8. ASSUME NEW x \in present', NEW y \in present', <<x, y>> \in H'
      PROVE  a(M, x, y) /\ r(M, u, x, y)
  <2>1. x \in V /\ y \in V /\ x # u /\ y # u /\ x \in present /\ y \in present
    BY <1>3 DEF present
  <2>2. o(M, u, x) /\ o(M, u, y)
    BY <2>1, <1>1 DEF IsNext
  \* It was there: kept by the persistence clauses.
  <2>3. CASE <<x, y>> \in H
    <3>1. x # y
      BY <2>1, <2>3, <1>4 DEF IsSimple
    <3>2. removed # {}
      BY <2>3, <1>1, IInv DEF IInv, EmptyGraph
    <3>3. PICK w \in removed : r(M, w, x, y)
      BY <3>2, <2>1, <2>3, <1>1 DEF RedForced
    <3>4. w \in V /\ w \notin {u, x, y} /\ o(M, w, u)
      BY <2>1, <1>1, <1>2, <1>4 DEF Prefix, present
    <3>5. r(M, u, x, y)
      <4>1. CASE x < y
        BY <4>1, <3>3, <3>4, <2>1, <2>2, <1>1 DEF Satisfies, Persistence
      <4>2. CASE y < x
        <5>1. r(M, w, y, x) /\ (r(M, u, y, x) => r(M, u, x, y))
          BY <4>2, <3>3, <2>1, Numbers DEF r, Ordered
        <5> QED BY <5>1, <4>2, <3>4, <2>1, <2>2, <1>1 DEF Satisfies, Persistence
      <4> QED BY <4>1, <4>2, <3>1, <2>1, Numbers
    <3> QED BY <3>5, <2>1, <2>3, <1>1 DEF RedForced
  \* It is new: forced by inheritance or by the symmetric difference.
  <2>4. ASSUME NEW z \in present, z \notin {q, u}, NewRed(G, removed, H, q, u, z)
        PROVE  /\ r(M, u, q, z) /\ a(M, q, z)
               /\ r(M, u, z, q) /\ a(M, z, q)
    <3>1. z \in V /\ z \notin removed /\ o(M, u, z)
      BY <2>4, <1>1 DEF IsNext, present
    <3>2. CASE <<u, z>> \in H
      <4>1. a(M, u, z)
        BY <3>2, <1>1, <1>2 DEF RedForced
      <4> QED BY <4>1, <3>1, <2>4, <1>1, <1>2, Numbers
             DEF Satisfies, Inheritance, Bookkeeping, a, r, Ordered
    <3>3. CASE ~(<<u, z>> \in G <=> <<q, z>> \in G)
      <4>1. z \in symmetric_difference(G, u, q)
        BY <3>3, <3>1, <2>4 DEF symmetric_difference
      <4> QED BY <4>1, <3>1, <2>4, <1>1, <1>2, Numbers
             DEF Satisfies, SymmetricDifference, Bookkeeping, a, r, Ordered
    <3> QED BY <3>2, <3>3, <2>4 DEF NewRed
  <2> QED BY <2>1, <2>3, <2>4, <1>5, <1>8
<1>9. RedForced'
  BY <1>3, <1>8 DEF RedForced, a, r
<1>10. RemovedIsolated'
  <2> SUFFICES ASSUME NEW v \in removed', NEW x \in V
               PROVE  <<v, x>> \notin H'
    BY DEF RemovedIsolated
  <2>1. \A w \in removed : \A z \in V : <<w, z>> \notin H /\ <<z, w>> \notin H
    BY <1>1, <1>4 DEF RemovedIsolated, IsSimple
  <2>2. v \in V /\ v # q /\ (v = u \/ v \in removed)
    BY <1>2, <1>3, <1>4 DEF present
  <2> QED BY <2>1, <2>2, <1>2, <1>5 DEF NewRed
<1>11. Satisfies(M, G, ub, lb)'
  BY <1>1, <1>3 DEF Satisfies, Transitive, SomeParent, OneParent, ParentLater, Bookkeeping,
     SymmetricDifference, Inheritance, Persistence, Cardinalities
<1>12. G' \in Inputs /\ <<ub, lb>>' \in Bounds
  BY <1>3 DEF IInv
<1> QED BY <1>1, <1>3, <1>6, <1>7, <1>9, <1>10, <1>11, <1>12 DEF IInv

------------------------------------------------------------------------------
(***************************************************************************)
(* The other steps, and the theorems.                                      *)
(***************************************************************************)
LEMMA SatisfiableInv ==
  ASSUME IInv, Satisfiable
  PROVE  IInv'
<1>1. /\ G' = G /\ ub' = ub /\ lb' = lb /\ H' = H /\ removed' = removed
      /\ answer' = "sat" /\ M' \in Models
      /\ removed = {} /\ H = {}
  BY DEF Satisfiable, IInv, EmptyGraph
<1>2. M' \in AllAssignments
  <2>1. <<G, <<ub, lb>>>> \in Inputs \X Bounds
    BY DEF IInv
  <2>2. Tried[G, <<ub, lb>>] \subseteq AllAssignments
    BY <2>1, TriedTyped
  <2> QED BY <2>2, <1>1 DEF Models
<1>3. TypeOK'
  <2>1. AllAssignments' = AllAssignments
    BY DEF AllAssignments, Pairs
  <2>2. IsSimple(G)' /\ IsSimple(H)'
    BY <1>1 DEF IInv, TypeOK, IsSimple
  <2> QED BY <2>1, <2>2, <1>1, <1>2 DEF IInv, TypeOK
<1>4. Satisfies(M, G, ub, lb)'
  <2>1. Satisfies(M', G, ub, lb)
    BY <1>1 DEF Models
  <2> QED BY <2>1, <1>1 DEF Satisfies, Transitive, SomeParent, OneParent, ParentLater,
       Bookkeeping, SymmetricDifference, Inheritance, Persistence, Cardinalities,
       o, p, a, r
<1>5. (Prefix /\ RedForced /\ RemovedIsolated)'
  BY <1>1 DEF Prefix, RedForced, RemovedIsolated, EmptyGraph
<1>6. G' \in Inputs /\ <<ub, lb>>' \in Bounds
  BY <1>1 DEF IInv
<1> QED BY <1>1, <1>3, <1>4, <1>5, <1>6 DEF IInv, EmptyGraph

\* Steps that leave all but the answer alone, and the answer when it is "sat".
LEMMA QuietInv ==
  ASSUME IInv, UNCHANGED <<G, ub, lb, M, H, removed>>,
         answer' = answer \/ (answer = "none" /\ answer' = "unsat")
  PROVE  IInv'
<1>1. /\ G' = G /\ ub' = ub /\ lb' = lb /\ M' = M /\ H' = H /\ removed' = removed
      /\ present' = present
  BY DEF present
<1>2. TypeOK'
  <2>1. AllAssignments' = AllAssignments
    BY DEF AllAssignments, Pairs
  <2>2. IsSimple(G)' /\ IsSimple(H)'
    BY <1>1 DEF IInv, TypeOK, IsSimple
  <2> QED BY <2>1, <2>2, <1>1 DEF IInv, TypeOK
<1>3. Prefix' /\ RedForced' /\ RemovedIsolated'
  BY <1>1 DEF IInv, Prefix, RedForced, RemovedIsolated, o, a, r
<1>4. answer' = "sat" => Satisfies(M, G, ub, lb)'
  <2>1. answer' = "sat" => Satisfies(M, G, ub, lb)
    BY DEF IInv
  <2> QED BY <2>1, <1>1 DEF Satisfies, Transitive, SomeParent, OneParent, ParentLater,
       Bookkeeping, SymmetricDifference, Inheritance, Persistence, Cardinalities,
       o, p, a, r
<1>5. /\ G' \in Inputs /\ <<ub, lb>>' \in Bounds
      /\ removed' = {} => H' = EmptyGraph'
      /\ answer' # "sat" => removed' = {}
  BY <1>1 DEF IInv, EmptyGraph
<1> QED BY <1>2, <1>3, <1>4, <1>5 DEF IInv

LEMMA StepInv == IInv /\ [Next]_vars => IInv'
<1> SUFFICES ASSUME IInv, [Next]_vars PROVE IInv'
  OBVIOUS
<1>1. CASE Satisfiable
  BY <1>1, SatisfiableInv
<1>2. CASE Unsatisfiable
  BY <1>2, QuietInv DEF Unsatisfiable
<1>3. ASSUME NEW u \in V, Eliminate(u) PROVE IInv'
  BY <1>3, EliminateInv
<1>4. CASE Stopped \/ UNCHANGED vars
  BY <1>4, QuietInv DEF Stopped, vars
<1> QED BY <1>1, <1>2, <1>3, <1>4 DEF Next

LEMMA InvariantHolds == Spec => []IInv
BY InitInv, StepInv, PTL DEF Spec

\* The state keeps its type throughout a call of solve_sat: in particular the
\* red graph of the replay stays a simple graph.
THEOREM TypesHold == Spec => []TypeOK
<1>1. IInv => TypeOK
  BY DEF IInv
<1> QED BY <1>1, InvariantHolds, PTL

\* For every graph and every model of the clauses, get_sequence_from_solver
\* decodes pairs of two vertices that are still there: the default 0 in the
\* vector of parents is never read.
THEOREM SequenceDecoded == Spec => []ParentPresent
<1>1. IInv => ParentPresent
  BY ParentDecoded DEF ParentPresent
<1> QED BY <1>1, InvariantHolds, PTL

\* For every graph, all bounds and every model of the clauses, the width of
\* the decoded sequence is at most the upper bound of the call.
THEOREM WidthBounded == Spec => []WithinBound
<1>1. ASSUME IInv PROVE WithinBound
  <2>1. /\ IsSimple(H) /\ ub \in Nat /\ lb \in Nat /\ removed \subseteq V
        /\ RedForced /\ RemovedIsolated
    BY <1>1 DEF IInv, TypeOK
  <2>2. ASSUME NEW v \in V PROVE degree(H, v) \in Nat /\ degree(H, v) <= ub
    <3> DEFINE nb == neighborhood(H, v)
    <3>1. IsFiniteSet(nb) /\ Cardinality(nb) \in Nat
      BY VFinite, FS_Subset, FS_CardinalityType DEF neighborhood
    <3>2. CASE nb = {}
      BY <3>2, <2>1, FS_EmptySet DEF degree
    <3>3. CASE nb # {}
      <4>1. PICK y \in V : <<v, y>> \in H
        BY <3>3 DEF neighborhood, has_edge
      <4>2. v \in present /\ H # {}
        BY <4>1, <2>1 DEF RemovedIsolated, present
      <4>3. removed # {} /\ answer = "sat" /\ Cardinalities(M, ub, lb)
        BY <4>2, <1>1 DEF IInv, EmptyGraph, Satisfies
      <4>4. PICK w \in removed : \A x, z \in present : <<x, z>> \in H => r(M, w, x, z)
        BY <4>3, <2>1 DEF RedForced
      <4> DEFINE R == {k \in V \ {v} : r(M, w, v, k)}
      <4>5. nb \subseteq R
        <5> SUFFICES ASSUME NEW k \in V, <<v, k>> \in H PROVE k # v /\ r(M, w, v, k)
          BY DEF neighborhood, has_edge
        <5>1. k # v /\ <<k, v>> \in H
          BY <2>1 DEF IsSimple
        <5>2. k \in present
          BY <5>1, <2>1 DEF RemovedIsolated, present
        <5> QED BY <5>1, <5>2, <4>2, <4>4
      <4>6. IsFiniteSet(R) /\ Cardinality(R) \in Nat
        BY VFinite, FS_Subset, FS_CardinalityType
      <4>7. Cardinality(R) <= ub
        BY <4>3, <2>1 DEF Cardinalities
      <4>8. Cardinality(nb) <= Cardinality(R)
        BY <4>5, <4>6, FS_Subset
      <4> HIDE DEF R, nb
      <4> QED BY <3>1, <4>6, <4>7, <4>8, <2>1 DEF degree, nb
    <3> QED BY <3>2, <3>3
  <2> DEFINE D == {0} \union {degree(H, v) : v \in V}
  <2>3. D \subseteq Nat /\ D # {} /\ \A d \in D : d <= ub
    BY <2>1, <2>2
  <2>4. Max(D) \in D
    <3> HIDE DEF D
    <3> QED BY <2>1, <2>3, MaxOfNats
  <2> QED BY <2>3, <2>4 DEF WithinBound, max_degree
<1> QED BY <1>1, InvariantHolds, PTL
==============================================================================
