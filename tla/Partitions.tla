----------------------------- MODULE Partitions -----------------------------
(***************************************************************************)
(* Twin-width, defined on partitions: the vocabulary in which the program  *)
(* is specified.  Nothing here is taken from the code; the code never      *)
(* represents a partition.                                                 *)
(***************************************************************************)
EXTENDS SimpleGraph, FiniteSetsExt

Singletons == {{v} : v \in V}

\* G looks the same from every vertex of A to every vertex of B.
Homogeneous(g, A, B) == A \X B \subseteq g \/ (A \X B) \cap g = {}

\* Classes that are not homogeneous to each other are joined by a red edge.
RedDegree(g, P, A) == Cardinality({B \in P \ {A} : ~Homogeneous(g, A, B)})

MaxRedDegree(g, P) == Max({0} \union {RedDegree(g, P, A) : A \in P})

\* Contracting two classes.
MergeParts(P, A, B) == (P \ {A, B}) \union {A \union B}

Larger(a, b) == IF a >= b THEN a ELSE b

\* The partitions one contraction away.
Merges(P) == {MergeParts(P, pair[1], pair[2]) :
                pair \in {q \in P \X P : q[1] # q[2]}}

\* The partitions that k contractions of width at most d lead to.
Reachable(g, d) ==
  LET after[k \in 0 .. Cardinality(V) - 1] ==
        IF k = 0 THEN {Singletons}
        ELSE {P \in UNION {Merges(R) : R \in after[k - 1]} : MaxRedDegree(g, P) <= d}
  IN  after

\* The twin-width of a graph, by its definition: the least width of a sequence
\* of contractions from the singletons to {V}.  The reference TLC compares the
\* program's answers with; exponential, for small graphs only.
tww(g) == Min({d \in 0 .. Cardinality(V) : Reachable(g, d)[Cardinality(V) - 1] # {}})
==============================================================================
