----------------------------- MODULE SimpleGraph -----------------------------
(***************************************************************************)
(* The Graph class (include/graph.hpp, src/graph.cpp) seen as a value.     *)
(*                                                                         *)
(* A Graph object keeps a boolean matrix g, a degree counter per vertex    *)
(* and an edge counter.  Here a graph on the vertices V is the set of the  *)
(* pairs <<u, v>> with g[u][v] true; the counters are the subject of       *)
(* module GraphObject, which justifies reading degree(u) as the size of    *)
(* neighborhood(u).                                                        *)
(***************************************************************************)
EXTENDS Integers, FiniteSets

CONSTANTS V,       \* the vertices; the code numbers them 0 .. n-1
          Inputs   \* the graphs an execution may start from

ASSUME VFinite == IsFiniteSet(V)

\* The matrices add_edge and remove_edge maintain: symmetric, no diagonal.
IsSimple(g) ==
  /\ g \subseteq V \X V
  /\ \A u, v \in V : <<u, v>> \in g => <<v, u>> \in g
  /\ \A u \in V : <<u, u>> \notin g

ASSUME InputsSimple == \A g \in Inputs : IsSimple(g)

EmptyGraph == {}

has_edge(g, u, v) == <<u, v>> \in g

neighborhood(g, u) == {x \in V : <<u, x>> \in g}

symmetric_difference(g, u, v) ==
  {x \in V \ {u, v} : ~(<<u, x>> \in g <=> <<v, x>> \in g)}

degree(g, u) == Cardinality(neighborhood(g, u))

\* A list of edges handed one by one to add_edge, or to remove_edge.
Mirror(edges) == {e \in V \X V : e \in edges \/ <<e[2], e[1]>> \in edges}
add_edges(g, edges)    == g \union Mirror(edges)
remove_edges(g, edges) == g \ Mirror(edges)

\* What the depth-first search from vertex 0 decides: no proper non-empty
\* set of vertices is closed under adjacency.
is_connected(g) ==
  \A S \in (SUBSET V) \ {{}, V} : (UNION {neighborhood(g, u) : u \in S}) \ S # {}

count_edges(g) == Cardinality({e \in V \X V : e \in g /\ e[1] < e[2]})

is_tree(g) == is_connected(g) /\ count_edges(g) = Cardinality(V) - 1

\* Every graph with edges in W, a set of integers: inputs for TLC.
AllGraphs(W) == {Mirror(E) : E \in SUBSET {e \in W \X W : e[1] < e[2]}}
==============================================================================
