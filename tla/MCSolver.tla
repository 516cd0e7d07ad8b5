------------------------------- MODULE MCSolver -------------------------------
(***************************************************************************)
(* Graphs on six vertices that need all three methods.                     *)
(***************************************************************************)
EXTENDS Solver

CONSTANT N

MCV == 0 .. N - 1

Path == {<<i, i + 1>> : i \in 0 .. N - 2}

\* A path through all the vertices with any further edges; as the graphs the
\* decomposition hands to the solver, with a connected complement.
Traceable ==
  {g \in {Mirror(Path \union E) :
            E \in SUBSET {e \in MCV \X MCV : e[1] + 1 < e[2] /\ e[1] <= 2}} :
     is_connected(Complement(g))}

\* Some trees, one of them not in the order of its numbers.
SomeTrees ==
  {Mirror({<<i, i + 1>> : i \in 0 .. 3} \union {<<c, 5>>}) : c \in 0 .. 3}
    \union {Mirror({<<5, 2>>, <<2, 4>>, <<4, 0>>, <<0, 3>>, <<2, 1>>})}

Mixed == Traceable \union SomeTrees
===============================================================================
