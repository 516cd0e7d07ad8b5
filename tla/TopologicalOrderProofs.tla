------------------------ MODULE TopologicalOrderProofs ------------------------
(***************************************************************************)
(* Proofs about Digraph::topological_order for every finite digraph        *)
(* without loops: no edge goes backwards in the order, and the order holds *)
(* every vertex exactly if the digraph is acyclic.                         *)
(***************************************************************************)
EXTENDS TopologicalOrder, FiniteSetTheorems, SequenceTheorems,
        WellFoundedInduction, TLAPS

------------------------------------------------------------------------------
(***************************************************************************)
(* The inductive invariant.                                                *)
(***************************************************************************)

Holds(s, v) == \E i \in 1 .. Len(s) : s[i] = v

Distinct(s) == \A i, j \in 1 .. Len(s) : s[i] = s[j] => i = j

Shape ==
  /\ adj \subseteq Vertices \X Vertices /\ \A v \in Vertices : <<v, v>> \notin adj
  /\ indeg \in [Vertices -> Nat]
  /\ queue \in Seq(Vertices) /\ order \in Seq(Vertices)

\* No vertex is in the queue or in the order twice, or in both.
Once ==
  /\ Distinct(queue)
  /\ \A v \in Vertices : ~(Holds(queue, v) /\ Holds(order, v))

\* The predecessors of v outside the order.
missing(v) == {u \in predecessors(v) : ~Holds(order, u)}

\* The counter of a vertex is the number of those, and it is in the queue or
\* in the order from the moment there are none.
Counted ==
  \A v \in Vertices :
    /\ indeg[v] = Cardinality(missing(v))
    /\ Holds(queue, v) \/ Holds(order, v) <=> indeg[v] = 0

Sorted ==
  \A i, j \in 1 .. Len(order) : <<order[j], order[i]>> \in adj => j < i

IInv == Shape /\ Once /\ Counted /\ Sorted

------------------------------------------------------------------------------
\* Sets of predecessors are finite.
LEMMA MissingFinite ==
  ASSUME NEW v
  PROVE  /\ IsFiniteSet(predecessors(v)) /\ IsFiniteSet(missing(v))
         /\ Cardinality(predecessors(v)) \in Nat
         /\ Cardinality(missing(v)) \in Nat
<1>1. predecessors(v) \in SUBSET Vertices /\ missing(v) \in SUBSET Vertices
  BY DEF predecessors, missing
<1> QED BY <1>1, VerticesFinite, FS_Subset, FS_CardinalityType

\* The vertices pushed by one loop, whatever the order: each of them once.
LEMMA PushedOnce ==
  ASSUME NEW S \in SUBSET Vertices, NEW q \in AnyOrder(S)
  PROVE  /\ q \in Seq(Vertices)
         /\ Distinct(q)
         /\ \A v : Holds(q, v) <=> v \in S
<1> DEFINE n == Cardinality(S)
<1>1. IsFiniteSet(S) /\ n \in Nat
  BY VerticesFinite, FS_Subset, FS_CardinalityType
<1>2. IsFiniteSet(1 .. n) /\ Cardinality(1 .. n) = n
  BY <1>1, FS_Interval
<1>3. q \in [1 .. n -> S] /\ IsInjective(q)
  BY DEF AnyOrder
<1>4. q \in Injection(1 .. n, S)
  BY <1>3 DEF Injection
<1>5. q \in Surjection(1 .. n, S)
  BY <1>1, <1>2, <1>4, FS_Injection
<1>6. \A v \in S : \E i \in 1 .. n : q[i] = v
  BY <1>5 DEF Surjection
<1>7. q \in [1 .. n -> Vertices]
  BY <1>3
<1>8. q \in Seq(Vertices)
  BY <1>1, <1>7, SeqDef
<1>9. Len(q) = n
  BY <1>1, <1>7
<1>10. Distinct(q)
  BY <1>3, <1>9 DEF Distinct, IsInjective
<1>11. \A v : Holds(q, v) <=> v \in S
  BY <1>3, <1>6, <1>9 DEF Holds
<1> QED BY <1>8, <1>10, <1>11

\* Before the loop the queue holds the vertices without predecessors.
LEMMA InitInv == Init => IInv
<1> SUFFICES ASSUME Init
             PROVE  IInv
  OBVIOUS
<1>1. /\ adj \subseteq Vertices \X Vertices /\ \A v \in Vertices : <<v, v>> \notin adj
      /\ indeg = [v \in Vertices |-> Cardinality(predecessors(v))]
      /\ order = <<>>
  BY DigraphsTyped DEF Init
<1>2. indeg \in [Vertices -> Nat]
  BY <1>1, MissingFinite
<1>3. /\ queue \in Seq(Vertices) /\ Distinct(queue)
      /\ \A v : Holds(queue, v) <=> v \in Vertices /\ indeg[v] = 0
  BY PushedOnce DEF Init
<1>4. \A v : ~Holds(order, v)
  BY <1>1 DEF Holds
<1>5. \A v : missing(v) = predecessors(v)
  BY <1>4 DEF missing
<1>6. Shape
  BY <1>1, <1>2, <1>3 DEF Shape
<1>7. Once
  BY <1>3, <1>4 DEF Once
<1>8. Counted
  BY <1>1, <1>3, <1>4, <1>5 DEF Counted
<1>9. Sorted
  BY <1>1 DEF Sorted
<1> QED BY <1>6, <1>7, <1>8, <1>9 DEF IInv

\* Popping a vertex lowers the counters of its successors, and pushes those
\* whose counter reaches zero.
LEMMA PopInv ==
  ASSUME IInv, Pop
  PROVE  IInv'
<1>1. Shape /\ Once /\ Counted /\ Sorted /\ queue # <<>> /\ adj' = adj
  BY DEF IInv, Pop
<1>2. PICK u \in Vertices : u = Head(queue)
  BY <1>1, HeadTailProperties DEF Shape
<1> DEFINE ready == {v \in successors(u) : indeg'[v] = 0}
<1>3. /\ order' = Append(order, u)
      /\ indeg' = [v \in Vertices |-> IF v \in successors(u) THEN indeg[v] - 1 ELSE indeg[v]]
      /\ \E q \in AnyOrder(ready) : queue' = Tail(queue) \o q
  BY <1>2 DEF Pop
<1>4. PICK q \in AnyOrder(ready) : queue' = Tail(queue) \o q
  BY <1>3
<1>5. /\ q \in Seq(Vertices) /\ Distinct(q)
      /\ \A v : Holds(q, v) <=> v \in ready
  <2>1. ready \in SUBSET Vertices
    BY DEF successors
  <2> HIDE DEF ready
  <2> QED BY <2>1, PushedOnce
<1> HIDE DEF ready
<1>6. /\ Tail(queue) \in Seq(Vertices) /\ Len(Tail(queue)) = Len(queue) - 1
      /\ Len(queue) \in Nat /\ Len(queue) # 0 /\ queue[1] = u
      /\ \A i \in 1 .. Len(queue) - 1 : Tail(queue)[i] = queue[i + 1]
  BY <1>1, <1>2, HeadTailProperties, EmptySeq DEF Shape
<1>7. /\ Distinct(Tail(queue))
      /\ \A v : Holds(Tail(queue), v) <=> Holds(queue, v) /\ v # u
  <2>1. Distinct(Tail(queue))
    BY <1>1, <1>6 DEF Once, Distinct
  <2>2. ASSUME NEW v, NEW i \in 1 .. Len(queue), queue[i] = v, v # u
        PROVE  Holds(Tail(queue), v)
    <3>1. i - 1 \in 1 .. Len(Tail(queue)) /\ Tail(queue)[i - 1] = v
      BY <1>6, <2>2
    <3> QED BY <3>1 DEF Holds
  <2>3. ASSUME NEW v, Holds(Tail(queue), v)
        PROVE  Holds(queue, v) /\ v # u
    <3>1. PICK i \in 1 .. Len(queue) - 1 : queue[i + 1] = v
      BY <1>6, <2>3 DEF Holds
    <3>2. i + 1 \in 1 .. Len(queue) /\ 1 \in 1 .. Len(queue) /\ i + 1 # 1
      BY <1>6
    <3> QED BY <1>1, <1>6, <3>1, <3>2 DEF Holds, Once, Distinct
  <2> QED BY <2>1, <2>2, <2>3 DEF Holds
<1>8. /\ queue' \in Seq(Vertices)
      /\ \A v : Holds(queue', v) <=> (Holds(queue, v) /\ v # u) \/ v \in ready
      /\ (\A v : ~(Holds(Tail(queue), v) /\ v \in ready)) => Distinct(queue')
  <2> DEFINE t == Tail(queue)
  <2>1. /\ queue' \in Seq(Vertices) /\ Len(queue') = Len(t) + Len(q)
        /\ Len(t) \in Nat /\ Len(q) \in Nat
        /\ \A i \in 1 .. Len(t) + Len(q) :
             queue'[i] = IF i <= Len(t) THEN t[i] ELSE q[i - Len(t)]
    BY <1>4, <1>5, <1>6, ConcatProperties, LenProperties
  <2> HIDE DEF t
  <2>2. ASSUME NEW v
        PROVE  Holds(queue', v) <=> Holds(t, v) \/ Holds(q, v)
    <3>1. ASSUME NEW i \in 1 .. Len(q), q[i] = v
          PROVE  Holds(queue', v)
      <4>1. /\ i + Len(t) \in 1 .. Len(t) + Len(q) /\ ~(i + Len(t) <= Len(t))
            /\ i + Len(t) - Len(t) = i
        BY <2>1, <3>1
      <4>2. queue'[i + Len(t)] = v
        BY <2>1, <3>1, <4>1
      <4> QED BY <2>1, <4>1, <4>2 DEF Holds
    <3>2. Holds(t, v) => Holds(queue', v)
      BY <2>1 DEF Holds
    <3>3. ASSUME NEW i \in 1 .. Len(queue'), queue'[i] = v
          PROVE  Holds(t, v) \/ Holds(q, v)
      <4>1. i <= Len(t) => i \in 1 .. Len(t) /\ t[i] = v
        BY <2>1, <3>3
      <4>2. ~(i <= Len(t)) => i - Len(t) \in 1 .. Len(q) /\ q[i - Len(t)] = v
        BY <2>1, <3>3
      <4> QED BY <4>1, <4>2 DEF Holds
    <3> QED BY <3>1, <3>2, <3>3 DEF Holds
  <2>3. ASSUME \A v : ~(Holds(t, v) /\ Holds(q, v)),
               NEW i \in 1 .. Len(queue'), NEW j \in 1 .. Len(queue'),
               queue'[i] = queue'[j]
        PROVE  i = j
    <3>1. /\ i <= Len(t) => i \in 1 .. Len(t) /\ t[i] = queue'[i]
          /\ j <= Len(t) => j \in 1 .. Len(t) /\ t[j] = queue'[j]
          /\ ~(i <= Len(t)) => i - Len(t) \in 1 .. Len(q) /\ q[i - Len(t)] = queue'[i]
          /\ ~(j <= Len(t)) => j - Len(t) \in 1 .. Len(q) /\ q[j - Len(t)] = queue'[j]
      BY <2>1
    <3>2. CASE i <= Len(t) /\ j <= Len(t)
      BY <1>7, <2>3, <3>1, <3>2 DEF Distinct, t
    <3>3. CASE ~(i <= Len(t)) /\ ~(j <= Len(t))
      <4>1. i - Len(t) = j - Len(t)
        BY <1>5, <2>3, <3>1, <3>3 DEF Distinct
      <4> QED BY <2>1, <4>1
    <3>4. (i <= Len(t)) <=> (j <= Len(t))
      BY <2>3, <3>1 DEF Holds
    <3> QED BY <3>2, <3>3, <3>4
  <2> QED BY <1>5, <1>7, <2>1, <2>2, <2>3 DEF Distinct, t
<1>9. /\ order' \in Seq(Vertices) /\ Len(order') = Len(order) + 1 /\ Len(order) \in Nat
      /\ order'[Len(order) + 1] = u
      /\ \A i \in 1 .. Len(order) : order'[i] = order[i]
      /\ \A v : Holds(order', v) <=> Holds(order, v) \/ v = u
  <2>1. /\ order' \in Seq(Vertices) /\ Len(order') = Len(order) + 1 /\ Len(order) \in Nat
        /\ order'[Len(order) + 1] = u
        /\ \A i \in 1 .. Len(order) : order'[i] = order[i]
    BY <1>1, <1>3, AppendProperties, LenProperties DEF Shape
  <2>2. /\ Len(order) + 1 \in 1 .. Len(order')
        /\ \A i \in 1 .. Len(order) : i \in 1 .. Len(order')
        /\ \A i \in 1 .. Len(order') : i \in 1 .. Len(order) \/ i = Len(order) + 1
    BY <2>1
  <2> QED BY <2>1, <2>2 DEF Holds
<1>10. /\ Holds(queue, u) /\ ~Holds(order, u) /\ indeg[u] = 0
       /\ u \notin successors(u)
  BY <1>1, <1>6 DEF Holds, Once, Counted, Shape, successors
<1>11. ASSUME NEW v \in Vertices
       PROVE  /\ v \in successors(u) => /\ Cardinality(missing(v))' = Cardinality(missing(v)) - 1
                                        /\ indeg[v] # 0
              /\ v \notin successors(u) => missing(v)' = missing(v)
  <2>1. missing(v)' = missing(v) \ {u}
    BY <1>1, <1>9 DEF missing, predecessors
  <2>2. v \in successors(u) <=> u \in missing(v)
    BY <1>2, <1>10 DEF missing, successors, predecessors
  <2>3. IsFiniteSet(missing(v)) /\ Cardinality(missing(v)) \in Nat
    BY MissingFinite
  <2>4. Cardinality(missing(v) \ {u}) = IF u \in missing(v) THEN Cardinality(missing(v)) - 1
                                        ELSE Cardinality(missing(v))
    BY <2>3, FS_RemoveElement
  <2>5. u \in missing(v) => Cardinality(missing(v)) # 0
    BY <2>3, FS_EmptySet
  <2>6. indeg[v] = Cardinality(missing(v))
    BY <1>1 DEF Counted
  <2> QED BY <2>1, <2>2, <2>4, <2>5, <2>6
<1>12. ASSUME NEW v \in Vertices
       PROVE  indeg'[v] = Cardinality(missing(v))' /\ indeg'[v] \in Nat
  <2>1. indeg[v] = Cardinality(missing(v)) /\ indeg[v] \in Nat
    BY <1>1 DEF Counted, Shape
  <2>2. indeg'[v] = IF v \in successors(u) THEN indeg[v] - 1 ELSE indeg[v]
    BY <1>3
  <2> QED BY <1>11, <2>1, <2>2
<1>13. Shape'
  <2>1. indeg' \in [Vertices -> Nat]
    BY <1>3, <1>12
  <2> QED BY <1>1, <1>8, <1>9, <2>1 DEF Shape
<1>14. \A v \in ready : v \in Vertices /\ ~Holds(queue, v) /\ ~Holds(order, v)
  <2>1. \A v \in ready : v \in Vertices /\ indeg[v] # 0
    BY <1>11 DEF ready, successors
  <2> QED BY <1>1, <2>1 DEF Counted
<1>15. Once'
  <2>1. Distinct(queue')
    BY <1>7, <1>8, <1>14
  <2> QED BY <1>1, <1>8, <1>9, <1>10, <1>14, <2>1 DEF Once
<1>16. ASSUME NEW v \in Vertices
       PROVE  Holds(queue', v) \/ Holds(order', v) <=> indeg'[v] = 0
  <2>1. v \in ready <=> v \in successors(u) /\ indeg'[v] = 0
    BY DEF ready
  <2>2. indeg'[v] = IF v \in successors(u) THEN indeg[v] - 1 ELSE indeg[v]
    BY <1>3
  <2>3. Holds(queue, v) \/ Holds(order, v) <=> indeg[v] = 0
    BY <1>1 DEF Counted
  <2>4. CASE v \in successors(u)
    BY <1>8, <1>9, <1>10, <1>11, <2>1, <2>3, <2>4
  <2>5. CASE v \notin successors(u)
    BY <1>8, <1>9, <1>10, <2>1, <2>2, <2>3, <2>5
  <2> QED BY <2>4, <2>5
<1>17. Counted'
  BY <1>12, <1>16 DEF Counted
<1>18. Sorted'
  <2> SUFFICES ASSUME NEW i \in 1 .. Len(order'), NEW j \in 1 .. Len(order'),
                      <<order'[j], order'[i]>> \in adj
               PROVE  j < i
    BY <1>1 DEF Sorted
  <2>1. /\ i \in 1 .. Len(order) \/ i = Len(order) + 1
        /\ j \in 1 .. Len(order) \/ j = Len(order) + 1
    BY <1>9
  <2>2. CASE i \in 1 .. Len(order) /\ j \in 1 .. Len(order)
    BY <1>1, <1>9, <2>2 DEF Sorted
  <2>3. CASE i = Len(order) + 1 /\ j \in 1 .. Len(order)
    BY <1>9, <2>3
  <2>4. CASE i = Len(order) + 1 /\ j = Len(order) + 1
    BY <1>1, <1>2, <1>9, <2>4 DEF Shape
  <2>5. CASE i \in 1 .. Len(order) /\ j = Len(order) + 1
    <3>1. PICK w \in Vertices : w = order[i] /\ Holds(order, w) /\ <<u, w>> \in adj
      BY <1>1, <1>9, <2>5, ElementOfSeq DEF Shape, Holds
    <3>2. Cardinality(missing(w)) = 0
      BY <1>1, <3>1 DEF Counted
    <3>3. missing(w) = {}
      BY <3>2, MissingFinite, FS_EmptySet
    <3> QED BY <1>2, <1>10, <3>1, <3>3 DEF missing, predecessors
  <2> QED BY <2>1, <2>2, <2>3, <2>4, <2>5
<1> QED BY <1>13, <1>15, <1>17, <1>18 DEF IInv

\* The invariant holds in every reachable state.
LEMMA Invariance == Spec => []IInv
<1>1. IInv /\ UNCHANGED vars => IInv'
  <2> SUFFICES ASSUME IInv, UNCHANGED vars
               PROVE  IInv'
    OBVIOUS
  <2>1. \A v : missing(v)' = missing(v)
    BY DEF vars, missing, predecessors, Holds
  <2> QED BY <2>1 DEF vars, IInv, Shape, Once, Counted, Sorted, Holds, Distinct
<1> QED BY InitInv, PopInv, <1>1, PTL DEF Spec, Next

------------------------------------------------------------------------------
\* Every edge between two vertices of the order goes forward in it.
THEOREM OrderIsTopological == Spec => []Topological
<1>1. IInv => Topological
  <2> SUFFICES ASSUME Shape, Sorted
               PROVE  Topological
    BY DEF IInv
  <2>1. /\ DOMAIN order = 1 .. Len(order) /\ DOMAIN queue = 1 .. Len(queue)
        /\ \A i \in 1 .. Len(order) : order[i] \in Vertices
        /\ \A i \in 1 .. Len(queue) : queue[i] \in Vertices
    BY LenProperties, ElementOfSeq DEF Shape
  <2> QED BY <2>1 DEF Topological, TypeOK, Shape, Sorted, Range
<1> QED BY <1>1, Invariance, PTL

\* The assertion at the end of topological_order holds for the acyclic
\* digraphs and for no others.  A vertex left out has a predecessor left out,
\* and of any set of vertices the one first in a complete order has none.
THEOREM AssertionIffAcyclic == Spec => []CompleteIffAcyclic
<1>1. IInv => CompleteIffAcyclic
  <2> SUFFICES ASSUME Shape, Counted, Sorted, queue = <<>>
               PROVE  ordered = Vertices <=> Acyclic
    BY DEF IInv, CompleteIffAcyclic
  <2>1. /\ DOMAIN order = 1 .. Len(order) /\ Len(order) \in Nat
        /\ \A i \in 1 .. Len(order) : order[i] \in Vertices
        /\ \A v : v \in ordered <=> Holds(order, v)
    BY LenProperties, ElementOfSeq DEF Shape, ordered, Range, Holds
  <2>2. ASSUME ordered = Vertices, NEW S \in (SUBSET Vertices) \ {{}}
        PROVE  \E v \in S : predecessors(v) \cap S = {}
    <3> DEFINE R == OpToRel(<, Nat)
               I == {i \in 1 .. Len(order) : order[i] \in S}
    <3>1. I \subseteq Nat /\ I # {}
      BY <2>1, <2>2 DEF Holds
    <3>2. PICK m \in I : \A i \in I : <<i, m>> \notin R
      BY <3>1, NatLessThanWellFounded, WFMin
    <3>3. ASSUME NEW w \in S, w \in predecessors(order[m])
          PROVE  FALSE
      <4>1. PICK i \in I : order[i] = w
        BY <2>1, <2>2, <3>3 DEF Holds
      <4>2. i < m
        BY <3>3, <4>1 DEF predecessors, Sorted
      <4> QED BY <3>1, <3>2, <4>2 DEF OpToRel
    <3> QED BY <3>2, <3>3
  <2>3. ASSUME Acyclic
        PROVE  ordered = Vertices
    <3>1. SUFFICES ASSUME Vertices \ ordered # {}
                   PROVE  FALSE
      BY <2>1 DEF Holds
    <3>2. PICK v \in Vertices \ ordered : predecessors(v) \cap (Vertices \ ordered) = {}
      BY <2>3, <3>1 DEF Acyclic
    <3>3. missing(v) = {}
      BY <2>1, <3>2 DEF missing, predecessors
    <3>4. indeg[v] = 0
      BY <3>3, FS_EmptySet DEF Counted
    <3>5. ~Holds(queue, v)
      BY DEF Holds
    <3> QED BY <2>1, <3>2, <3>4, <3>5 DEF Counted
  <2> QED BY <2>2, <2>3 DEF Acyclic
<1> QED BY <1>1, Invariance, PTL
===============================================================================
