-------------------------- MODULE MCTopologicalOrder --------------------------
(***************************************************************************)
(* Every digraph on N vertices with at most one edge between two vertices: *)
(* the elimination orders solve_sat decodes are those with exactly one and *)
(* no cycle.                                                               *)
(***************************************************************************)
EXTENDS TopologicalOrder

CONSTANT N

MCVertices == 0 .. N - 1
MCDigraphs ==
  LET pairs == {e \in MCVertices \X MCVertices : e[1] < e[2]}
      arcs(c) == {e \in pairs : c[e] = "forward"}
                   \union {<<e[2], e[1]>> : e \in {f \in pairs : c[f] = "backward"}}
  IN  {arcs(c) : c \in [pairs -> {"forward", "backward", "none"}]}
===============================================================================
