----------------------------- MODULE SatEncoding -----------------------------
(***************************************************************************)
(* Solver::solve_sat as an encoding: the clauses over the variables o, p,  *)
(* a and r, the answer of the SAT solver, and the elimination order and    *)
(* the parents get_sequence_from_solver reads off a model, replayed by     *)
(* Graph::width.                                                           *)
(*                                                                         *)
(*   o(i, j)     i comes before j in the elimination order                 *)
(*   p(i, j)     i is contracted into j, for i < j                         *)
(*   r(i, j, k)  j and k are joined by a red edge once i is gone           *)
(*   a(j, k)     j and k are joined by a red edge at some time             *)
(*                                                                         *)
(* The SAT solver is external: of the assignments it tries it may answer   *)
(* with any that satisfies every clause, and says unsatisfiable only if    *)
(* none does.  The bounds on the number of red edges are those the         *)
(* totalizers enforce (module Totalizer); the order read off o is the one  *)
(* topological_order finds (module TopologicalOrder).                      *)
(***************************************************************************)
EXTENDS RedGraph

CONSTANTS Bounds,  \* the pairs <<ub, lb>> of add_cardinality_constraints
          Tried    \* the assignments the SAT solver tries, per graph and bounds

ASSUME VNumbered == V = 0 .. Cardinality(V) - 1 /\ V # {}

\* A map from pairs (i, j), i < j, to variables that are true or false is the
\* set of the pairs whose variable is true.
Pairs == {e \in V \X V : e[1] < e[2]}

AllAssignments ==
  [o : SUBSET Pairs, p : SUBSET Pairs, a : SUBSET Pairs, r : [V -> SUBSET Pairs]]

ASSUME BoundsTyped == Bounds \subseteq Nat \X Nat
ASSUME TriedTyped == Tried \in [Inputs \X Bounds -> SUBSET AllAssignments]

VARIABLES G,        \* the graph
          ub, lb,   \* the bounds of this call
          answer,   \* "none" before the call, then "sat" or "unsat"
          M,        \* the assignment found
          H,        \* the red graph of the replay
          removed   \* the vertices contracted away in the replay

vars == <<G, ub, lb, answer, M, H, removed>>

\* The lambdas o, p, a and r: their arguments in either order.
Ordered(i, j) == IF i < j THEN <<i, j>> ELSE <<j, i>>

o(m, i, j)    == IF i < j THEN <<i, j>> \in m.o ELSE <<j, i>> \notin m.o
p(m, i, j)    == <<i, j>> \in m.p
a(m, i, j)    == Ordered(i, j) \in m.a
r(m, i, j, k) == Ordered(j, k) \in m.r[i]

------------------------------------------------------------------------------
(***************************************************************************)
(* The clauses.                                                            *)
(***************************************************************************)
Transitive(m) ==
  \A i, j, k \in V :
    i # j /\ i # k /\ j # k /\ o(m, i, j) /\ o(m, j, k) => o(m, i, k)

SomeParent(m) ==
  \A i \in V : i # Cardinality(V) - 1 => \E j \in V : i < j /\ p(m, i, j)

OneParent(m) ==
  \A i, j, k \in V : i < j /\ j < k => ~(p(m, i, j) /\ p(m, i, k))

\* Mutant of ParentLater: the clauses are left out.
ParentLater_dropped(m) == TRUE

ParentLater(m) ==
  \A i, j \in V : i < j /\ p(m, i, j) => o(m, i, j)

Bookkeeping(m) ==
  \A i, j, k \in V :
    i < j /\ i # k /\ j # k /\ o(m, i, j) /\ o(m, i, k) /\ r(m, i, j, k) => a(m, j, k)

SymmetricDifference(m, g) ==
  \A i, j \in V :
    i < j /\ p(m, i, j) =>
      \A k \in symmetric_difference(g, i, j) : o(m, i, k) => r(m, i, j, k)

\* Mutant of Inheritance: k runs from j + 1.
Inheritance_ascending(m) ==
  \A i, j, k \in V :
    i < j /\ j < k /\ p(m, i, j) /\ o(m, i, k) /\ a(m, i, k) => r(m, i, j, k)

Inheritance(m) ==
  \A i, j, k \in V :
    i < j /\ i # k /\ j # k /\ p(m, i, j) /\ o(m, i, k) /\ a(m, i, k) => r(m, i, j, k)

Persistence(m) ==
  \A i, j, k, l \in V :
    k < l /\ i \notin {j, k, l} /\ j \notin {k, l}
      /\ o(m, i, j) /\ o(m, j, k) /\ o(m, j, l) /\ r(m, i, k, l) => r(m, j, k, l)

\* Mutant of Cardinalities: lb outputs are forced, not lb - 1.
Cardinalities_from_lower(m, upper, lower) ==
  \A i, j \in V :
    LET red == Cardinality({k \in V \ {j} : r(m, i, j, k)})
    IN  lower <= red /\ red <= upper

\* For every i and j the r(i, j, k) are counted, whatever the order of i, j
\* and k; the lower bound asks for lb - 1 of them.
Cardinalities(m, upper, lower) ==
  \A i, j \in V :
    LET red == Cardinality({k \in V \ {j} : r(m, i, j, k)})
    IN  lower - 1 <= red /\ red <= upper

Satisfies(m, g, upper, lower) ==
  /\ Transitive(m) /\ SomeParent(m) /\ OneParent(m) /\ ParentLater(m)
  /\ Bookkeeping(m) /\ SymmetricDifference(m, g) /\ Inheritance(m) /\ Persistence(m)
  /\ Cardinalities(m, upper, lower)

------------------------------------------------------------------------------
(***************************************************************************)
(* Solving, and replaying the sequence decoded.                            *)
(***************************************************************************)
present == V \ removed

Nothing == [o |-> {}, p |-> {}, a |-> {}, r |-> [i \in V |-> {}]]

Init ==
  /\ G \in Inputs
  /\ \E b \in Bounds : ub = b[1] /\ lb = b[2]
  /\ answer = "none" /\ M = Nothing
  /\ H = EmptyGraph /\ removed = {}

Models == {m \in Tried[G, <<ub, lb>>] : Satisfies(m, G, ub, lb)}

Satisfiable ==
  /\ answer = "none"
  /\ M' \in Models
  /\ answer' = "sat"
  /\ UNCHANGED <<G, ub, lb, H, removed>>

Unsatisfiable ==
  /\ answer = "none"
  /\ Models = {}
  /\ answer' = "unsat"
  /\ UNCHANGED <<G, ub, lb, M, H, removed>>

\* parent[u]: the last j with p(u, j), or 0 as the vector is initialised.
parent(u) ==
  LET candidates == {j \in V : u < j /\ p(M, u, j)}
  IN  IF candidates = {} THEN 0 ELSE Max(candidates)

\* u comes next in the elimination order.
IsNext(u) == u \in present /\ \A w \in present \ {u} : o(M, u, w)

\* The next of the n - 1 pairs of the sequence is contracted.
Eliminate(u) ==
  /\ answer = "sat"
  /\ present # {u} /\ IsNext(u)
  /\ H' = Contracted(G, removed, H, parent(u), u)
  /\ removed' = removed \union {u}
  /\ UNCHANGED <<G, ub, lb, answer, M>>

\* The sequence is replayed; any other state without a successor is a
\* deadlock.
Stopped ==
  /\ answer = "unsat" \/ Cardinality(present) = 1
  /\ UNCHANGED vars

Next ==
  \/ Satisfiable \/ Unsatisfiable
  \/ \E u \in V : Eliminate(u)
  \/ Stopped

Spec == Init /\ [][Next]_vars

------------------------------------------------------------------------------
TypeOK ==
  /\ IsSimple(G) /\ IsSimple(H)
  /\ ub \in Nat /\ lb \in Nat
  /\ answer \in {"none", "sat", "unsat"}
  /\ M \in AllAssignments
  /\ removed \subseteq V

\* The pair decoded for the next vertex names two vertices still there: the
\* default 0 in the vector of parents is never used, although the clauses
\* leave the vertex n - 1 without a parent, and parents never come earlier.
ParentPresent ==
  \A u \in V : answer = "sat" /\ present # {u} /\ IsNext(u) => parent(u) \in present \ {u}

\* Whatever the model makes of a, and of the r(i, j, k) it is free to choose,
\* no red degree of the decoded sequence exceeds the bound: the clauses
\* force at least the red edges there are.
WithinBound == max_degree(H) <= ub
==============================================================================
