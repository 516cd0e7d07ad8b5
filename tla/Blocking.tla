------------------------------ MODULE Blocking -------------------------------
(***************************************************************************)
(* Removal of irredundant clauses that do not follow from the others but   *)
(* can be satisfied by flipping literals of a model: blocked clauses, pure *)
(* literals, covered clauses and globally blocked clauses.                 *)
(***************************************************************************)
EXTENDS ClauseDatabase

(* A removed clause and the entries that reconstruct it.                   *)
RemovePushing(c, entries) ==
    /\ Update(irredundant \ {c}, redundant, Unmarked)
    /\ push_on_extension_stack(entries)

-----------------------------------------------------------------------------
(* Blocked clauses.                                                        *)

is_blocked_clause(c, lit) ==
    \A d \in Occurring(irredundant, -lit) : Tautological(Resolvent(c, d, lit))

(* A single clause with the negation is marked and compared with all.      *)
block_literal_with_one_negative_occ(lit) ==
    \E d \in Occurring(irredundant, -lit) :
       /\ Occurring(irredundant, -lit) = {d}
       /\ \E c \in Occurring(irredundant, lit) :
             /\ \E other \in c \ {lit} : -other \in d
             /\ RemovePushing(c, <<Weakened({lit}, c)>>)

(* Candidates have a literal that is negated in a clause they resolve with.*)
block_candidates(lit) ==
    {c \in Occurring(irredundant, lit) :
        Negated(c \ {lit}) \cap UNION Occurring(irredundant, -lit) # {}}

(* Some such clause resolves with every candidate without a tautology.     *)
block_impossible(candidates, lit) ==
    \E d \in Occurring(irredundant, -lit) :
        Negated(d \ {-lit}) \cap UNION candidates = {}

block_literal_with_at_least_two_negative_occs(lit) ==
    /\ Cardinality(Occurring(irredundant, -lit)) > 1
    /\ LET candidates == block_candidates(lit) IN
       /\ Cardinality(candidates) > 1 => ~block_impossible(candidates, lit)
       /\ \E c \in candidates :
             /\ is_blocked_clause(c, lit)
             /\ RemovePushing(c, <<Weakened({lit}, c)>>)

block_pure_literal(lit) ==
    LET pure == Occurring(irredundant, lit) IN
    /\ Occurring(irredundant, -lit) = {}
    /\ Update(irredundant \ pure, {c \in redundant : {lit, -lit} \cap c = {}},
              Marked({vidx(lit)}, "pure"))
    /\ push_on_extension_stack(WeakenedOn(lit, pure))

block ==
    \E lit \in ActiveLiterals :
       /\ vidx(lit) \notin frozen
       /\ \/ block_pure_literal(lit)
          \/ block_literal_with_one_negative_occ(lit)
          \/ block_literal_with_at_least_two_negative_occs(lit)

-----------------------------------------------------------------------------
(* Covered clauses: the candidate is extended by asymmetric literals, whose *)
(* negations are implied when its literals are false, and by covered ones,  *)
(* which are in all clauses that it can be resolved with on a literal.      *)

(* What a search for a covering keeps: false is added, extend is what it   *)
(* would push.                                                             *)
CoverStates ==
    LET lits == SUBSET Literals(Vars) IN
    [false : lits, covered : lits, extend : Seq([witness : lits, clause : lits]), done : BOOLEAN]

CoverState(c) == [false |-> c, covered |-> c, extend |-> <<>>, done |-> FALSE]

(* cover_propagate_asymmetric, until nothing is left to propagate.          *)
Asymmetric(c, st) ==
    LET others == irredundant \ {c}
        A == Closure(others, Negated(st.false), Vars)
    IN  [st EXCEPT !.false = Negated(A),
                   !.done = \E d \in others : Falsified(d, A)]

(* cover_propagate_covered for a literal that is not frozen.               *)
Covered(st, lit) ==
    LET open == {d \ {-lit} : d \in {e \in Occurring(irredundant, -lit) :
                                        (e \ {-lit}) \cap Negated(st.false) = {}}}
        intersection == {k \in UNION open : k \notin st.false /\ \A d \in open : k \in d}
        pushed == Append(st.extend, Weakened({lit}, st.covered))
    IN  IF open = {} THEN {[st EXCEPT !.extend = pushed, !.done = TRUE]}
        ELSE IF intersection = {} THEN {}
        ELSE {[st EXCEPT !.extend = pushed, !.covered = @ \cup intersection,
                         !.false = @ \cup intersection]}

CoverStep(c, st) ==
    LET closed == Asymmetric(c, st) IN
    IF st.done \/ closed.done THEN {[closed EXCEPT !.done = TRUE]}
    ELSE UNION {Covered(closed, lit) : lit \in {k \in st.covered : vidx(k) \notin frozen}}

(* The ways in which the extended clause becomes satisfied by all clauses   *)
(* it can be resolved with.  Every step but the last adds a literal.        *)
CoverOutcomes(c) ==
    Iterated([S \in SUBSET CoverStates |-> S \cup UNION {CoverStep(c, st) : st \in S}],
             {CoverState(c)}, Cardinality(Vars) + 1)

cover_clause ==
    \E c \in irredundant : \E st \in {s \in CoverOutcomes(c) : s.done} :
       /\ \E lit \in c : vidx(lit) \notin frozen
       /\ RemovePushing(c, st.extend)

-----------------------------------------------------------------------------
(* Globally blocked clauses.  An assignment of the variables that are not  *)
(* frozen is split into a conditional part, the literals falsified in       *)
(* clauses with no true literal, and the rest, an autarky.  Conditional     *)
(* literals are unassigned unless the candidate has their negation, which   *)
(* can leave further clauses without a true literal.                        *)
InitialAssignments == Assignments(Active \ frozen)

(* The literals of A false in clauses that those still assigned leave open.*)
Negative(A, assigned) ==
    {lit \in A : \E d \in irredundant : ~Satisfied(d, assigned) /\ -lit \in d}

InitialConditional(A) == Negative(A, A)

Conditional(c, A) ==
    Iterated([K \in SUBSET A |-> K \cup Negative(A, A \ {k \in K : -k \notin c})],
             InitialConditional(A), Cardinality(Active))

condition ==
    \E A \in InitialAssignments : \E c \in irredundant :
       LET autarky == A \ Conditional(c, A) IN
       /\ Satisfied(c, autarky)
       /\ RemovePushing(c, <<Weakened(autarky, c)>>)
=============================================================================
