---------------------------- MODULE LocalSearch -----------------------------
(***************************************************************************)
(* Random walk local search (ProbSAT) over the irredundant clauses, with   *)
(* one watched true literal per satisfied clause.  Which broken clause and *)
(* which of its literals is flipped is random in the code and any choice   *)
(* here.                                                                   *)
(*                                                                         *)
(* walk is the state of a round:                                           *)
(*   vals      the literals that are true, assumed those fixed by the      *)
(*             assumptions (decision level one)                            *)
(*   front     the watched literal of every satisfied clause               *)
(*   broken    the falsified clauses                                       *)
(*   minimum   the least number of them so far                             *)
(*   failed    the assumptions contradict each other or falsify a clause   *)
(*   from      the caller: "local_search" or "rephase"                     *)
(* saved are the saved phases while they matter to a caller.               *)
(***************************************************************************)
EXTENDS ConflictAnalysis

VARIABLES walk, saved

Root == RootIn(s)

Active == Vars \ {vidx(lit) : lit \in Root}

NoWalk == [vals |-> {}, assumed |-> {}, front |-> <<>>, broken |-> {},
           minimum |-> 0, failed |-> FALSE, from |-> "none"]

(* Garbage collection at the root level: satisfied clauses go, falsified   *)
(* literals are flushed.  The watches of a clause that stays are kept.     *)
Flushed(C) == {c \ Negated(Root) : c \in {d \in C : ~Satisfied(d, Root)}}

FlushedWatches(C) ==
    [c \in Flushed(C) |->
        watched[CHOOSE d \in C : ~Satisfied(d, Root) /\ d \ Negated(Root) = c]]

-----------------------------------------------------------------------------

(* A mutant: an assumption fixed to true clashes.                          *)
AssumptionsClash_fixed ==
    \E i \in DOMAIN assumptions :
        \/ assumptions[i] \in Root
        \/ \E j \in 1..(i - 1) : assumptions[j] = -assumptions[i]

AssumptionsClash ==
    \E i \in DOMAIN assumptions :
        \/ -assumptions[i] \in Root
        \/ \E j \in 1..(i - 1) : assumptions[j] = -assumptions[i]

(* Phases are the target or saved ones.  A rephase has just cleared the    *)
(* target phases, so that the walk it starts begins with the saved phases. *)
WalkInit(from) ==
    LET C == Flushed(irredundant)
        fixed == {lit \in ToSet(assumptions) : vidx(lit) \in Active}
    IN /\ saved' \in Assignments(Active)
       /\ \E start \in IF from = "rephase" THEN {saved'} ELSE Assignments(Active) :
             LET vals == fixed \cup {lit \in start : -lit \notin fixed}
                 broken == {c \in C : ~Satisfied(c, vals)}
             IN \E front \in ChoiceFunctions([c \in C \ broken |-> c \cap vals]) :
                   walk' = IF AssumptionsClash \/ \E c \in broken : Falsified(c, fixed)
                           THEN [NoWalk EXCEPT !.failed = TRUE, !.from = from]
                           ELSE [vals |-> vals, assumed |-> fixed, front |-> front,
                                 broken |-> broken, minimum |-> Cardinality(broken),
                                 failed |-> FALSE, from |-> from]

(* What copy_phases copies are the saved phases, whatever the values.      *)
copy_phases(vals) == saved

(* A mutant: broken clauses that the flip satisfies stay broken.           *)
walk_flip_lit_unmade(lit) ==
    LET vals == (walk.vals \ {-lit}) \cup {lit}
        left == {d \in DOMAIN walk.front : walk.front[d] = -lit}
        lost == {d \in left : ~Satisfied(d, vals)}
        broken == walk.broken \cup lost
    IN \E front \in ChoiceFunctions([d \in left \ lost |-> d \cap vals]) :
          walk' = [walk EXCEPT
             !.vals = vals, !.broken = broken,
             !.front = [d \in DOMAIN walk.front \ lost |->
                           IF d \in left THEN front[d] ELSE walk.front[d]],
             !.minimum = Min({@, Cardinality(broken)})]

(* Broken clauses with the flipped literal are made.  A clause that        *)
(* watched its negation looks for another true literal to watch, and is    *)
(* broken when there is none.                                              *)
walk_flip_lit(lit) ==
    LET vals == (walk.vals \ {-lit}) \cup {lit}
        made == {d \in walk.broken : lit \in d}
        left == {d \in DOMAIN walk.front : walk.front[d] = -lit}
        lost == {d \in left : ~Satisfied(d, vals)}
        broken == (walk.broken \ made) \cup lost
    IN \E front \in ChoiceFunctions([d \in left \ lost |-> d \cap vals]) :
          walk' = [walk EXCEPT
             !.vals = vals,
             !.broken = broken,
             !.front = [d \in (DOMAIN walk.front \cup made) \ lost |->
                           IF d \in made THEN lit
                           ELSE IF d \in left THEN front[d] ELSE walk.front[d]],
             !.minimum = Min({@, Cardinality(broken)})]

(* walk_pick_clause, walk_pick_lit: never a literal set by an assumption.  *)
WalkFlip ==
    /\ ~walk.failed
    /\ \E c \in walk.broken : \E lit \in c :
          /\ -lit \notin walk.assumed
          /\ walk_flip_lit(lit)
    /\ saved' = IF walk'.minimum < walk.minimum THEN copy_phases(walk'.vals) ELSE saved

(* connect_watches after a walk: the walk has moved literals around, the   *)
(* watched true literal is still one of the first two.                     *)
Reconnected(C) ==
    ChoiceFunctions([c \in C |-> {pair \in kSubset(2, c) :
                              c \in DOMAIN walk.front => walk.front[c] \in pair}])

walk_result ==
    IF walk.failed THEN 20 ELSE IF walk.minimum = 0 THEN 10 ELSE 0
=============================================================================
