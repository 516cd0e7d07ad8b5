----------------------------- MODULE GreedyBounds -----------------------------
(***************************************************************************)
(* Graph::greedy_upper_bound followed by Graph::greedy_lower_bound, as     *)
(* Solver::solve calls them.                                               *)
(*                                                                         *)
(* Both try every contraction (p, u) of the vertices present: the red      *)
(* graph H is changed in place, measured, and changed back.  The upper     *)
(* bound then performs the best contraction and starts over until one      *)
(* vertex is left; the lower bound only takes the least measure of a first *)
(* contraction.                                                            *)
(*                                                                         *)
(* The vertices are the integers 0 .. n-1, in whose order pairs are tried. *)
(***************************************************************************)
EXTENDS RedGraph

VARIABLES G,         \* *this
          phase,     \* which of the two functions is running
          H,         \* its red graph
          removed,   \* the vertices contracted away
          untried,   \* the pairs the double loop has still to try
          trial,     \* the contraction now applied to H, with its edge lists
          best,      \* best_choice: (max_deg, p, u)
          seq,       \* the sequence built by the upper bound
          answer,    \* the upper bound
          lower,     \* the answer of greedy_lower_bound
          cls        \* history: the class each present vertex stands for

vars == <<G, phase, H, removed, untried, trial, best, seq, answer, lower, cls>>

n == Cardinality(V)

NoTrial == [p |-> -1, u |-> -1, to_remove |-> {}, to_add |-> {}]

\* The order of std::tuple and of the nested loops.
Before(s, t) ==
  \E i \in DOMAIN s : s[i] < t[i] /\ \A j \in 1 .. i - 1 : s[j] = t[j]

FirstOf(S) == CHOOSE s \in S : \A t \in S \ {s} : Before(s, t)

Pairs(gone) == {e \in (V \ gone) \X (V \ gone) : e[1] < e[2]}

TypeOK ==
  /\ IsSimple(G) /\ IsSimple(H)
  /\ phase \in {"upper", "lower", "done"}
  /\ removed \subseteq V
  /\ untried \subseteq Pairs({})
  /\ trial.to_remove \subseteq V \X V /\ trial.to_add \subseteq V \X V
  /\ best[1] \in 0 .. n /\ best[2] \in V /\ best[3] \in V
  /\ Range(seq) \subseteq V \X V
  /\ answer \in 0 .. n /\ lower \in 0 .. n
  /\ cls \in [V -> SUBSET V]

Init ==
  /\ G \in Inputs
  /\ phase = "upper"
  /\ H = EmptyGraph /\ removed = {} /\ untried = Pairs({}) /\ trial = NoTrial
  /\ best = <<n, 0, 0>>
  /\ seq = <<>> /\ answer = 0 /\ lower = n
  /\ cls = [v \in V |-> {v}]

\* Mutant of Undone: the added edges stay.
Undone_in_part == add_edges(H, trial.to_remove)

\* The trial edits restore what they removed and take back what they added.
Undone == remove_edges(add_edges(H, trial.to_remove), trial.to_add)

\* Body of the double loop, up to the application of the two edge lists.
Try ==
  /\ phase # "done" /\ trial = NoTrial /\ untried # {}
  /\ LET e == FirstOf(untried) IN
       /\ trial' = [p |-> e[1], u |-> e[2],
                    to_remove |-> to_remove(H, e[2]),
                    to_add |-> to_add(G, removed, H, e[1], e[2])]
       /\ H' = Contracted(G, removed, H, e[1], e[2])
       /\ untried' = untried \ {e}
  /\ UNCHANGED <<G, phase, removed, best, seq, answer, lower, cls>>

\* Mutant of MeasureUpper: the last pair is kept, not the best.
MeasureUpper_last ==
  /\ phase = "upper" /\ trial # NoTrial
  /\ best' = <<max_degree(H), trial.p, trial.u>>
  /\ H' = Undone /\ trial' = NoTrial
  /\ UNCHANGED <<G, phase, removed, untried, seq, answer, lower, cls>>

\* The rest of the body: measure, compare, undo.
MeasureUpper ==
  /\ phase = "upper" /\ trial # NoTrial
  /\ LET measured == <<max_degree(H), trial.p, trial.u>> IN
       best' = IF Before(measured, best) THEN measured ELSE best
  /\ H' = Undone /\ trial' = NoTrial
  /\ UNCHANGED <<G, phase, removed, untried, seq, answer, lower, cls>>

MeasureLower ==
  /\ phase = "lower" /\ trial # NoTrial
  /\ lower' = IF max_degree(H) < lower THEN max_degree(H) ELSE lower
  /\ H' = Undone /\ trial' = NoTrial
  /\ UNCHANGED <<G, phase, removed, untried, best, seq, answer, cls>>

\* All pairs tried: perform the best one.
Commit ==
  /\ phase = "upper" /\ trial = NoTrial /\ untried = {} /\ Len(seq) < n - 1
  /\ LET p == best[2]
         u == best[3]
     IN  /\ seq' = Append(seq, <<p, u>>)
         /\ answer' = Larger(answer, best[1])
         /\ H' = Contracted(G, removed, H, p, u)
         /\ removed' = removed \union {u}
         /\ cls' = [cls EXCEPT ![p] = cls[p] \union cls[u], ![u] = {}]
  /\ best' = <<n, 0, 0>>
  /\ untried' = Pairs(removed')
  /\ UNCHANGED <<G, phase, trial, lower>>

\* greedy_lower_bound starts over with a red graph and a vector of its own.
StartLower ==
  /\ phase = "upper" /\ Len(seq) = n - 1
  /\ phase' = "lower"
  /\ H' = EmptyGraph /\ removed' = {} /\ untried' = Pairs({}) /\ lower' = n
  /\ UNCHANGED <<G, trial, best, seq, answer, cls>>

Finish ==
  /\ phase = "lower" /\ trial = NoTrial /\ untried = {}
  /\ phase' = "done"
  /\ UNCHANGED <<G, H, removed, untried, trial, best, seq, answer, lower, cls>>

Next ==
  \/ Try \/ MeasureUpper \/ MeasureLower
  \/ Commit \/ StartLower \/ Finish

Spec == Init /\ [][Next]_vars

------------------------------------------------------------------------------
\* The partition the upper bound has reached.
Parts == {cls[v] : v \in V} \ {{}}

\* A trial leaves no trace: whenever no contraction is being tried, H is the
\* red graph of the partition reached (of the singletons in the lower bound),
\* although each trial edits H edge by edge and then edits it back.
TrialUndone ==
  /\ TypeOK
  /\ trial = NoTrial =>
       \A v, w \in V \ removed :
         LET A == IF phase = "upper" THEN cls[v] ELSE {v}
             B == IF phase = "upper" THEN cls[w] ELSE {w}
         IN  v # w => (has_edge(H, v, w) <=> ~Homogeneous(G, A, B))

\* A contraction that is performed is one of least red degree: no other pair
\* of classes would have given a smaller maximum.  A loop that kept the
\* initial best_choice (n, 0, 0) would contract vertex 0 into itself instead.
CommitsLeast ==
  [][seq' # seq =>
       \A A, B \in Parts : A # B =>
         MaxRedDegree(G, Parts') <= MaxRedDegree(G, MergeParts(Parts, A, B))]_vars
===============================================================================
