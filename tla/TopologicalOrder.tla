--------------------------- MODULE TopologicalOrder ---------------------------
(***************************************************************************)
(* Digraph::add_edge and Digraph::topological_order, which solve_sat uses  *)
(* to read an elimination order off a model: the counters of incoming      *)
(* edges, the queue of vertices that have none left, the order built.      *)
(***************************************************************************)
EXTENDS Integers, Sequences, FiniteSets, SequencesExt

CONSTANTS Vertices,   \* 0 .. n-1
          Digraphs    \* the sets of edges <<u, v>> add_edge may have been given

ASSUME VerticesFinite == IsFiniteSet(Vertices)
ASSUME DigraphsTyped ==
  \A A \in Digraphs : A \subseteq Vertices \X Vertices /\ \A v \in Vertices : <<v, v>> \notin A

VARIABLES adj,     \* the edges
          indeg,   \* per vertex, its incoming edges from outside the order
          queue,   \* vertices whose counter has reached 0
          order    \* the answer so far

vars == <<adj, indeg, queue, order>>

successors(u) == {v \in Vertices : <<u, v>> \in adj}
predecessors(v) == {u \in Vertices : <<u, v>> \in adj}

\* The elements of S in the order a loop over vertex numbers meets them.  The
\* order only decides between vertices neither of which precedes the other,
\* so any one does.
AnyOrder(S) == {q \in [1 .. Cardinality(S) -> S] : IsInjective(q)}

TypeOK ==
  /\ indeg \in [Vertices -> Nat]
  /\ Range(queue) \subseteq Vertices
  /\ Range(order) \subseteq Vertices

Init ==
  /\ adj \in Digraphs
  /\ indeg = [v \in Vertices |-> Cardinality(predecessors(v))]
  /\ queue \in AnyOrder({v \in Vertices : indeg[v] = 0})
  /\ order = <<>>

\* Mutant of Pop: no counter goes down.
Pop_none ==
  /\ queue # <<>>
  /\ order' = Append(order, Head(queue))
  /\ queue' = Tail(queue)
  /\ UNCHANGED <<adj, indeg>>

\* Mutant of Pop: a successor enters the queue whatever its counter is.
Pop_eager ==
  /\ queue # <<>>
  /\ LET u == Head(queue)
     IN  /\ order' = Append(order, u)
         /\ indeg' = [v \in Vertices |-> IF v \in successors(u) THEN indeg[v] - 1 ELSE indeg[v]]
         /\ \E q \in AnyOrder(successors(u)) : queue' = Tail(queue) \o q
  /\ UNCHANGED adj

\* One iteration of the loop.
Pop ==
  /\ queue # <<>>
  /\ LET u == Head(queue)
         left == [v \in Vertices |-> IF v \in successors(u) THEN indeg[v] - 1 ELSE indeg[v]]
     IN  /\ order' = Append(order, u)
         /\ indeg' = left
         /\ \E q \in AnyOrder({v \in successors(u) : left[v] = 0}) :
              queue' = Tail(queue) \o q
  /\ UNCHANGED adj

Next == Pop

Spec == Init /\ [][Next]_vars

------------------------------------------------------------------------------
ordered == Range(order)

\* No edge goes backwards in the order.
Topological ==
  /\ TypeOK
  /\ \A i, j \in DOMAIN order : <<order[j], order[i]>> \in adj => j < i

\* Every non-empty set of vertices has one without a predecessor in it.
Acyclic == \A S \in (SUBSET Vertices) \ {{}} : \E v \in S : predecessors(v) \cap S = {}

\* The assertion order.size() == n: it holds for the acyclic digraphs, those
\* the transitivity clauses leave, and would fail for every other.
CompleteIffAcyclic == queue = <<>> => (ordered = Vertices <=> Acyclic)
===============================================================================
