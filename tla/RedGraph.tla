------------------------------ MODULE RedGraph ------------------------------
(***************************************************************************)
(* Graph::contraction_edges and the update every caller makes with it.     *)
(*                                                                         *)
(* width, greedy_upper_bound and greedy_lower_bound keep the red graph H   *)
(* of a partly contracted graph G as a second Graph object, and a vector   *)
(* removed of the vertices contracted away.  To contract u into p they     *)
(* take the lists to_remove and to_add from contraction_edges, apply the   *)
(* first with remove_edge, then the second with add_edge.                  *)
(***************************************************************************)
EXTENDS Partitions, SequencesExt

\* The red edges of u, which disappears.
to_remove(H, u) == {<<u, x>> : x \in neighborhood(H, u)}

\* Mutant of to_add: a red edge from u to p is inherited as a loop.
to_add_looping(G, removed, H, p, u) ==
  LET inherited == {x \in neighborhood(H, u) : ~has_edge(H, p, x)}
      differing == {x \in symmetric_difference(G, u, p) :
                      x \notin removed /\ ~has_edge(H, p, x)}
  IN  {<<p, x>> : x \in inherited \union differing}

\* Mutant of to_add: the red edges of u are not inherited.
to_add_differing(G, removed, H, p, u) ==
  {<<p, x>> : x \in {y \in symmetric_difference(G, u, p) :
                       y \notin removed /\ ~has_edge(H, p, y)}}

\* The new red edges of p: those it inherits from u, and those to a vertex
\* still present that only one of the two was adjacent to in G.
to_add(G, removed, H, p, u) ==
  LET inherited == {x \in neighborhood(H, u) : x # p /\ ~has_edge(H, p, x)}
      differing == {x \in symmetric_difference(G, u, p) :
                      x \notin removed /\ ~has_edge(H, p, x)}
  IN  {<<p, x>> : x \in inherited \union differing}

Contracted(G, removed, H, p, u) ==
  add_edges(remove_edges(H, to_remove(H, u)), to_add(G, removed, H, p, u))

max_degree(H) == Max({0} \union {degree(H, v) : v \in V})

------------------------------------------------------------------------------
(***************************************************************************)
(* Graph::width as a function, for the modules in which a sequence is      *)
(* replayed in one step: by the assertions of greedy_upper_bound and of    *)
(* solve_sat, and by main.  Module Contraction has it step by step.        *)
(***************************************************************************)

\* The red graph, the removed vertices and the widest degree after the first
\* pairs of seq.
Replayed(g, seq) ==
  LET run[i \in 0 .. Len(seq)] ==
        IF i = 0 THEN [H |-> EmptyGraph, removed |-> {}, answer |-> 0]
        ELSE LET before == run[i - 1]
                 R == Contracted(g, before.removed, before.H, seq[i][1], seq[i][2])
             IN  [H |-> R, removed |-> before.removed \union {seq[i][2]},
                  answer |-> Larger(before.answer, max_degree(R))]
  IN  run

width(g, seq) == Replayed(g, seq)[Len(seq)].answer

\* The assertion of its loop: both vertices of every pair are still there.
Replayable(seq) ==
  \A i \in DOMAIN seq : \A j \in 1 .. i - 1 :
    seq[j][2] # seq[i][1] /\ seq[j][2] # seq[i][2]

\* A sequence that contracts a graph on the vertices W to one vertex.
IsFullSequence(seq, W) ==
  /\ Replayable(seq)
  /\ Len(seq) = Cardinality(W) - 1
  /\ \A i \in DOMAIN seq : seq[i][1] \in W /\ seq[i][2] \in W /\ seq[i][1] # seq[i][2]
==============================================================================
