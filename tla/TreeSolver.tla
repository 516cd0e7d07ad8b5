------------------------------ MODULE TreeSolver ------------------------------
(***************************************************************************)
(* Solver::solve_tree and Solver::tree_contractor, for a tree with at      *)
(* least two vertices.                                                     *)
(*                                                                         *)
(* The recursion of tree_contractor is an explicit stack of calls.  After  *)
(* choosing the root solve_tree also looks for the other end of a longest  *)
(* path and marks the neighbours of that path; nothing is done with them,  *)
(* so they are left out.                                                   *)
(***************************************************************************)
EXTENDS RedGraph

VARIABLES G,      \* the tree
          stack,  \* the calls of tree_contractor in progress, the last on top
          cs      \* this->cs

vars == <<G, stack, cs>>

\* dist, after a depth-first search from u: in a tree, the distances from u.
dist(g, u) ==
  LET wider(balls, k) ==
        Append(balls, Last(balls) \union UNION {neighborhood(g, x) : x \in Last(balls)})
      balls == FoldLeft(wider, <<{u}>>, [k \in 1 .. Cardinality(V) |-> k])
  IN  [v \in V |-> Min({k \in DOMAIN balls : v \in balls[k]}) - 1]

\* Mutant of root: any vertex will do.
root_zero(g) == 0

\* The first vertex at the largest distance from vertex 0: an end of a
\* longest path.
root(g) ==
  LET d == dist(g, 0)
      far == Max(Range(d))
  IN  Min({v \in V : d[v] = far})

NoParent == -1

Ascending(S) ==
  [i \in 1 .. Cardinality(S) |-> CHOOSE x \in S : Cardinality({y \in S : y < x}) = i - 1]

\* tree_contractor(v, par), with how many of its children are contracted.
Call(g, v, par) ==
  [root |-> v,
   nb   |-> Ascending(neighborhood(g, v) \ {par}),
   done |-> 0]

Top == stack[Len(stack)]
Below == stack[Len(stack) - 1]

TypeOK ==
  /\ is_tree(G)
  /\ \A k \in DOMAIN stack :
       /\ stack[k].root \in V /\ Range(stack[k].nb) \subseteq V
       /\ stack[k].done \in 0 .. Len(stack[k].nb)
  /\ Range(cs) \subseteq V \X V

Init ==
  /\ G \in Inputs
  /\ stack = <<Call(G, root(G), NoParent)>>
  /\ cs = <<>>

\* The call for the next child.
Descend ==
  /\ stack # <<>>
  /\ Top.done < Len(Top.nb)
  /\ stack' = Append(stack, Call(G, Top.nb[Top.done + 1], Top.root))
  /\ UNCHANGED <<G, cs>>

\* The end of a call: its first child, which by now stands for all of them,
\* is contracted into its root.
Collapse(call) == IF call.nb = <<>> THEN <<>> ELSE <<<<call.root, call.nb[1]>>>>

\* Mutant of Join: forgotten.
Join_nothing(call) == <<>>

\* Back in the caller: a child other than the first is contracted into the
\* first.
Join(call) == IF call.done = 0 THEN <<>> ELSE <<<<call.nb[1], call.nb[call.done + 1]>>>>

Return ==
  /\ Len(stack) > 1
  /\ Top.done = Len(Top.nb)
  /\ cs' = cs \o Collapse(Top) \o Join(Below)
  /\ stack' = [Front(stack) EXCEPT ![Len(stack) - 1].done = @ + 1]
  /\ UNCHANGED G

Finish ==
  /\ Len(stack) = 1
  /\ Top.done = Len(Top.nb)
  /\ cs' = cs \o Collapse(Top)
  /\ stack' = <<>>
  /\ UNCHANGED G

\* solve_tree has returned; any other state without a successor is a deadlock.
Returned == stack = <<>> /\ UNCHANGED vars

Next == Descend \/ Return \/ Finish \/ Returned

Spec == Init /\ [][Next]_vars

------------------------------------------------------------------------------
present == V \ {cs[i][2] : i \in DOMAIN cs}

\* The vertices hanging from child c of r.
Branch(r, c) ==
  LET dr == dist(G, r)
      dc == dist(G, c)
  IN  {v \in V : dc[v] < dr[v]}

\* The branches a call has been through are contracted to one vertex, its
\* first child; the branches it has not reached are still whole.
BranchesCollapse ==
  /\ TypeOK
  /\ \A k \in DOMAIN stack :
       LET call == stack[k]
           branch(i) == Branch(call.root, call.nb[i])
           through == UNION {branch(i) : i \in 1 .. call.done}
           ahead == UNION {branch(i) : i \in call.done + 2 .. Len(call.nb)}
       IN  /\ call.done > 0 => through \cap present = {call.nb[1]}
           /\ ahead \subseteq present

Star(g) == \E c \in V : neighborhood(g, c) = V \ {c}

\* A tree whose vertices of degree two or more form a path.
Caterpillar(g) ==
  LET spine == {v \in V : degree(g, v) > 1}
  IN  \A v \in spine : Cardinality(neighborhood(g, v) \cap spine) <= 2

\* The twin-width of a tree.
TreeWidth(g) == IF Star(g) THEN 0 ELSE IF Caterpillar(g) THEN 1 ELSE 2

\* The sequence contracts the whole tree and never names a vertex that is
\* gone, and the root is the vertex left, which the caller reads off the last
\* pair.  It has the least width there is, although no width is ever
\* computed and the order of the contractions is dictated by the numbering
\* of the vertices: it hangs on the root being an end of a longest path.
\* Stars are the exception, on which the code does not reach 0; they have a
\* disconnected complement, and the decomposition hands none to the solver.
TreeOptimal ==
  stack = <<>> =>
    /\ IsFullSequence(cs, V) /\ cs[Len(cs)][1] = root(G)
    /\ ~Star(G) => width(G, cs) = TreeWidth(G)
===============================================================================
