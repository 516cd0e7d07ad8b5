------------------------------- MODULE Solver -------------------------------
(***************************************************************************)
(* Solver::Solver and Solver::solve: which of its three methods a graph    *)
(* goes to, and what the methods hand to each other.  Composes             *)
(*   TreeSolver    for trees,                                              *)
(*   GreedyBounds  for the bounds, and the answer when they meet,          *)
(*   SatSearch     when they do not.                                       *)
(***************************************************************************)
EXTENDS RedGraph

\* The vertices are numbered, and there is one: Solver::solve tests for a
\* single vertex, and the reader and the decomposition hand over no fewer.
ASSUME VNumbered == V # {} /\ V = 0 .. Cardinality(V) - 1

Complement(g) == {e \in V \X V : e[1] # e[2] /\ e \notin g}

\* The decomposition hands over single vertices and graphs that are connected
\* like their complements (ReadyForSolver in module Pipeline).
ASSUME InputsCoconnected ==
  \A g \in Inputs : Cardinality(V) = 1 \/ is_connected(Complement(g))

VARIABLES G,      \* the graph
          pc,     \* which method runs: "solve" before, "solved" after them
          stack, cs,                                      \* of TreeSolver
          phase, H, removed, untried, trial, choice, seq, \* of GreedyBounds
          upper, lower, cls,
          tw, lb, ub, found, searching, result,           \* of SatSearch
          achieved  \* the width of the sequence in this->cs at the end

treeVars   == <<stack, cs>>
greedyVars == <<phase, H, removed, untried, trial, choice, seq, upper, lower, cls>>
searchVars == <<tw, lb, ub, found, searching, result>>
vars == <<G, pc, treeVars, greedyVars, searchVars, achieved>>

Tree   == INSTANCE TreeSolver
Greedy == INSTANCE GreedyBounds WITH best <- choice, answer <- upper
Search == INSTANCE SatSearch WITH Widths <- 0 .. Cardinality(V),
                                  best <- found, pc <- searching

Unknown == -1

\* The constructor asserts that the graph is connected.
Init ==
  /\ Greedy!Init
  /\ is_connected(G)
  /\ pc = "solve"
  /\ stack = <<>> /\ cs = <<>>
  /\ tw = tww(G) /\ lb = 0 /\ ub = 0
  /\ found = [bound |-> 0, width |-> Unknown] /\ searching = "search" /\ result = Unknown
  /\ achieved = Unknown

\* The three-way test of solve.
Dispatch ==
  /\ pc = "solve"
  /\ pc' = IF Cardinality(V) = 1 THEN "solved"
           ELSE IF is_tree(G) THEN "tree" ELSE "greedy"
  /\ achieved' = IF pc' = "solved" THEN width(G, cs) ELSE Unknown
  /\ stack' = IF pc' = "tree" THEN <<Tree!Call(G, Tree!root(G), Tree!NoParent)>> ELSE <<>>
  /\ UNCHANGED <<G, cs, greedyVars, searchVars>>

TreeStep ==
  /\ pc = "tree"
  /\ Tree!Next
  /\ IF stack' = <<>> THEN pc' = "solved" /\ achieved' = width(G, cs')
     ELSE UNCHANGED <<pc, achieved>>
  /\ UNCHANGED <<greedyVars, searchVars>>

GreedyStep ==
  /\ pc = "greedy" /\ phase # "done"
  /\ Greedy!Next
  /\ UNCHANGED <<pc, treeVars, searchVars, achieved>>

\* Mutant of BoundsMeet: the greedy sequence is taken whatever the bounds are.
BoundsMeet_unchecked ==
  /\ pc = "greedy" /\ phase = "done"
  /\ cs' = seq /\ achieved' = width(G, seq) /\ pc' = "solved"
  /\ UNCHANGED <<G, stack, greedyVars, searchVars>>

\* The bounds meet: the greedy sequence is the answer.
BoundsMeet ==
  /\ pc = "greedy" /\ phase = "done"
  /\ Larger(1, lower) = upper
  /\ cs' = seq /\ achieved' = width(G, seq) /\ pc' = "solved"
  /\ UNCHANGED <<G, stack, greedyVars, searchVars>>

\* Mutant of StartSearch: the lower bound is taken to be refuted.
StartSearch_above ==
  /\ pc = "greedy" /\ phase = "done"
  /\ Larger(1, lower) # upper
  /\ lb' = Larger(1, lower) + 1 /\ ub' = upper
  /\ found' = [bound |-> upper + 1, width |-> Search!NoSequence]
  /\ pc' = "search"
  /\ UNCHANGED <<G, treeVars, greedyVars, tw, searching, result, achieved>>

StartSearch ==
  /\ pc = "greedy" /\ phase = "done"
  /\ Larger(1, lower) # upper
  /\ lb' = Larger(1, lower) /\ ub' = upper
  /\ found' = [bound |-> upper + 1, width |-> Search!NoSequence]
  /\ pc' = "search"
  /\ UNCHANGED <<G, treeVars, greedyVars, tw, searching, result, achieved>>

\* The sequence itself stays abstract: any one that has the width achieved.
SearchStep ==
  /\ pc = "search"
  /\ Search!Next
  /\ IF searching' = "returned" THEN pc' = "solved" /\ achieved' = result'
     ELSE UNCHANGED <<pc, achieved>>
  /\ UNCHANGED <<G, treeVars, greedyVars>>

\* solve has returned; any other state without a successor is a deadlock.
Returned == pc = "solved" /\ UNCHANGED vars

Next ==
  \/ Dispatch
  \/ TreeStep
  \/ GreedyStep \/ BoundsMeet
  \/ StartSearch \/ SearchStep
  \/ Returned

Spec == Init /\ [][Next]_vars

------------------------------------------------------------------------------
\* "Finds the TWW contraction sequence" (include/solver.hpp): whichever way a
\* graph takes, the sequence found is one of least width.
FindsTwinWidth == pc = "solved" => achieved = tw

\* What solve_sat needs of its caller and does not test: bounds that bracket
\* the twin-width, with the lower one raised to 1.
SearchBracketed == pc = "search" => Search!TypeOK /\ lb <= tw /\ tw <= ub

\* Of the greedy bounds on the graphs the solver is given: a trial
\* contraction leaves no trace on the red graph all trials share, and every
\* contraction performed is one of least red degree (module GreedyBounds).
TrialUndone == Greedy!TrialUndone
CommitsLeast == Greedy!CommitsLeast

\* Of the search, in whatever state the greedy bounds start it: its last call
\* of the SAT solver succeeds, and what it returns has the twin-width as its
\* width (module SatSearch).
LastCallSucceeds == Search!LastCallSucceeds
ReturnsOptimum == Search!ReturnsOptimum
==============================================================================
