----------------------------- MODULE GraphObject -----------------------------
(***************************************************************************)
(* One object of class Graph as add_edge and remove_edge maintain it: the  *)
(* matrix g, the vector deg and the counter m are updated side by side, in *)
(* any order and with any repetition of calls.  The greedy bounds call     *)
(* add_edge for edges that are already there and rely on the early return. *)
(***************************************************************************)
EXTENDS SimpleGraph

VARIABLES g,     \* the adjacency matrix
          deg,   \* the degree counters
          m      \* the edge counter

vars == <<g, deg, m>>

TypeOK ==
  /\ IsSimple(g)
  /\ deg \in [V -> Int]
  /\ m \in Int

\* Graph::Graph(int n)
Init ==
  /\ g = EmptyGraph
  /\ deg = [v \in V |-> 0]
  /\ m = 0

\* Mutant of add_edge: no early return.
add_edge_again(u, v) ==
  /\ u # v
  /\ g' = add_edges(g, {<<u, v>>})
  /\ deg' = [deg EXCEPT ![u] = @ + 1, ![v] = @ + 1]
  /\ m' = m + 1

\* add_edge and remove_edge return at once when there is nothing to do.
add_edge(u, v) ==
  /\ u # v
  /\ IF has_edge(g, u, v)
     THEN UNCHANGED vars
     ELSE /\ g' = add_edges(g, {<<u, v>>})
          /\ deg' = [deg EXCEPT ![u] = @ + 1, ![v] = @ + 1]
          /\ m' = m + 1

remove_edge(u, v) ==
  /\ u # v
  /\ IF ~has_edge(g, u, v)
     THEN UNCHANGED vars
     ELSE /\ g' = remove_edges(g, {<<u, v>>})
          /\ deg' = [deg EXCEPT ![u] = @ - 1, ![v] = @ - 1]
          /\ m' = m - 1

Next == \E u, v \in V : add_edge(u, v) \/ remove_edge(u, v)

Spec == Init /\ [][Next]_vars

------------------------------------------------------------------------------
\* Degree counters never drift from the matrix: degree(v) is the number of
\* neighbours of v, and m the number of unordered adjacent pairs, after any
\* calls, repeated ones included.  The widths the program reports are read
\* from these counters.
CountersExact ==
  /\ \A v \in V : deg[v] = degree(g, v)
  /\ 2 * m = Cardinality(g)
==============================================================================
