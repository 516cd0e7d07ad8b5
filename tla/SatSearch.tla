------------------------------ MODULE SatSearch ------------------------------
(***************************************************************************)
(* The binary search of Solver::solve_sat.                                 *)
(*                                                                         *)
(* The SAT solver is external.  What the search relies on is the contract  *)
(* of the encoding: with the bounds (mid, lb), lb <= mid, the formula is   *)
(* satisfiable exactly when the graph has a contraction sequence of width  *)
(* at most mid, and a model then decodes to such a sequence, of which only *)
(* the width matters here.                                                 *)
(*                                                                         *)
(* The twin-width itself is a constant of an execution the code does not   *)
(* know: the variable tw.                                                  *)
(***************************************************************************)
EXTENDS Integers

CONSTANT Widths   \* the numbers a width, or a bound on one, may be

ASSUME WidthsNat == Widths \subseteq Nat

VARIABLES tw,      \* the twin-width of the graph
          lb, ub,  \* the bounds, as the loop narrows them
          best,    \* best: an upper bound, and the width of its sequence
          pc,      \* "search" in the loop, "returned" after it
          result   \* the width of the sequence returned

vars == <<tw, lb, ub, best, pc, result>>

\* No sequence: the empty vector best is initialised with.
NoSequence == -1

\* Mutant of mid: rounded up.
mid_rounded_up == lb + (ub - lb + 1) \div 2

mid == lb + (ub - lb) \div 2

\* copy.solve() == 10, after copy.add_cardinality_constraints(bound, lb).
Satisfiable(bound) == tw <= bound

\* The widths of the sequences a model for that bound may decode to.
Decoded(bound) == tw .. bound

TypeOK ==
  /\ tw \in Nat /\ lb \in Nat /\ ub \in Nat
  /\ best.bound \in Nat /\ best.width \in Int
  /\ pc \in {"search", "returned"}
  /\ result \in Int

\* solve calls solve_sat with bounds that bracket the twin-width and differ.
Init ==
  /\ tw \in Widths /\ lb \in Widths /\ ub \in Widths
  /\ lb <= tw /\ tw <= ub /\ lb < ub
  /\ best = [bound |-> ub + 1, width |-> NoSequence]
  /\ pc = "search"
  /\ result = NoSequence

\* One iteration that finds a model; it is decoded only if it improves best.
Found ==
  /\ pc = "search" /\ lb < ub
  /\ Satisfiable(mid)
  /\ ub' = mid
  /\ IF mid < best.bound
     THEN \E w \in Decoded(mid) : best' = [bound |-> mid, width |-> w]
     ELSE UNCHANGED best
  /\ UNCHANGED <<tw, lb, pc, result>>

\* Mutant of Refuted: the other bound is moved.
Refuted_from_above ==
  /\ pc = "search" /\ lb < ub
  /\ ~Satisfiable(mid)
  /\ ub' = mid
  /\ UNCHANGED <<tw, lb, best, pc, result>>

Refuted ==
  /\ pc = "search" /\ lb < ub
  /\ ~Satisfiable(mid)
  /\ lb' = mid + 1
  /\ UNCHANGED <<tw, ub, best, pc, result>>

\* Mutant of ReturnBest: whatever best holds is returned.
ReturnBest_unchecked ==
  /\ pc = "search" /\ ~(lb < ub)
  /\ result' = best.width
  /\ pc' = "returned"
  /\ UNCHANGED <<tw, lb, ub, best>>

\* After the loop: the sequence at hand, or one more call of the solver,
\* which the code asserts to succeed.
ReturnBest ==
  /\ pc = "search" /\ ~(lb < ub)
  /\ best.bound = lb
  /\ result' = best.width
  /\ pc' = "returned"
  /\ UNCHANGED <<tw, lb, ub, best>>

ReturnSolved ==
  /\ pc = "search" /\ ~(lb < ub)
  /\ best.bound # lb
  /\ \E w \in Decoded(lb) : result' = w
  /\ pc' = "returned"
  /\ UNCHANGED <<tw, lb, ub, best>>

Next == Found \/ Refuted \/ ReturnBest \/ ReturnSolved

Spec == Init /\ [][Next]_vars /\ WF_vars(Next)

------------------------------------------------------------------------------
\* The interval never loses the twin-width, and never turns inside out.
Bracketed == lb <= tw /\ tw <= ub

\* The sequence kept in best always belongs to the current upper bound: when
\* the loop ends at a bound that was probed, best holds a sequence for it,
\* and otherwise no sequence was kept at all.
BestMatchesBound ==
  \/ best.bound = ub /\ tw <= best.width /\ best.width <= ub
  \/ best.bound = ub + 1 /\ best.width = NoSequence

\* The last call of the solver, made when no probe succeeded, cannot fail:
\* assert(solver.solve() == 10).
LastCallSucceeds ==
  pc = "search" /\ lb >= ub /\ best.bound # lb => Satisfiable(lb)

\* assert(G.width(seq) == lb): the sequence returned has the twin-width as
\* its width, not merely at most the final bound.
ReturnsOptimum == pc = "returned" => result = lb /\ result = tw

\* Each call of the solver at least halves the interval, whatever it answers.
ProbesHalve ==
  [][pc' = "search" => ub' - lb' <= (ub - lb) \div 2]_vars

\* The search ends: each of its steps is enabled until it has returned.
Returns == <>(pc = "returned")
==============================================================================
