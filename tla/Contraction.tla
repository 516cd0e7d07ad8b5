----------------------------- MODULE Contraction -----------------------------
(***************************************************************************)
(* Graph::width(seq): replay a contraction sequence on G, updating the red *)
(* graph H edge by edge, and report the largest red degree met.            *)
(*                                                                         *)
(* The sequence is any list of pairs the assertion of the loop accepts, so *)
(* the next pair is chosen freely among the vertices still present.        *)
(*                                                                         *)
(* cls is a history variable: cls[v] holds the vertices contracted into v  *)
(* so far, v included, and is empty once v is removed.  The code never     *)
(* computes it; it relates H to the partition of module Trigraph.          *)
(***************************************************************************)
EXTENDS RedGraph

VARIABLES G,        \* *this: the graph the sequence contracts
          H,        \* the red graph, a Graph object of its own
          removed,  \* the vertices contracted into another one
          answer,   \* the largest red degree met so far
          cls       \* history: the class each present vertex stands for

vars == <<G, H, removed, answer, cls>>

present == V \ removed

TypeOK ==
  /\ IsSimple(G)
  /\ IsSimple(H)
  /\ removed \subseteq V
  /\ answer \in Nat
  /\ cls \in [V -> SUBSET V]

Init ==
  /\ G \in Inputs
  /\ H = EmptyGraph
  /\ removed = {}
  /\ answer = 0
  /\ cls = [v \in V |-> {v}]

\* Mutant of Contract: the last degree instead of the largest so far.
Contract_latest(p, u) ==
  /\ p # u
  /\ p \notin removed /\ u \notin removed
  /\ H' = Contracted(G, removed, H, p, u)
  /\ removed' = removed \union {u}
  /\ answer' = max_degree(H')
  /\ cls' = [cls EXCEPT ![p] = cls[p] \union cls[u], ![u] = {}]
  /\ UNCHANGED G

\* One iteration of the loop, for the pair (p, u) of the sequence.
Contract(p, u) ==
  /\ p # u
  /\ p \notin removed /\ u \notin removed
  /\ H' = Contracted(G, removed, H, p, u)
  /\ removed' = removed \union {u}
  /\ answer' = Larger(answer, max_degree(H'))
  /\ cls' = [cls EXCEPT ![p] = cls[p] \union cls[u], ![u] = {}]
  /\ UNCHANGED G

Next == \E p, u \in V : Contract(p, u)

Spec == Init /\ [][Next]_vars

------------------------------------------------------------------------------
\* The partition the present vertices stand for.
Parts == {cls[v] : v \in present}

Abstract == INSTANCE Trigraph WITH parts <- Parts, widest <- answer

\* The classes of the present vertices partition V, each holding its own
\* representative: no vertex is lost or counted twice by a contraction.
ClassesPartition ==
  /\ \A v \in present : v \in cls[v]
  /\ \A v \in removed : cls[v] = {}
  /\ \A v, w \in V : v # w => cls[v] \cap cls[w] = {}
  /\ UNION {cls[v] : v \in V} = V

\* A vertex contracted away keeps no red edge, so the degrees width() scans
\* over all of 0 .. n-1 are those of the present vertices only.
RemovedIsolated == \A v \in removed : neighborhood(H, v) = {}

\* The heart of the incremental update: although to_add looks only at the
\* adjacency of the two representatives in the ORIGINAL graph and at the
\* red edges already there, H is exactly the red graph of the partition.
RedExact ==
  \A v, w \in present :
    v # w => (has_edge(H, v, w) <=> ~Homogeneous(G, cls[v], cls[w]))

\* Replaying a sequence edge by edge computes the width of that sequence of
\* partitions: Graph::width implements the abstract definition.
ImplementsTrigraph == Abstract!Spec
==============================================================================
