--------------------------- MODULE CadicalSearch ----------------------------
(***************************************************************************)
(* The solver's incremental search: clauses are added, assumptions made,   *)
(* and solve() runs through local search, lucky phases and the CDCL loop   *)
(* until it has an answer.  Inprocessing, which the loop calls at the root *)
(* level, is in Inprocessing; the branching heuristics' numbers are left   *)
(* out but for the order of the decision queue.                            *)
(*                                                                         *)
(* pc is where Internal::solve() stands.  Functions that propagate have a  *)
(* value of their own, in which the steps of propagate() interleave with   *)
(* nothing but a call of terminate() from outside.                         *)
(***************************************************************************)
EXTENDS LocalSearch

CONSTANT Scenarios      \* what happens to the solver, [calls, budget]:
    \* calls is a sequence of calls of solve() [add, assume, localsearch], the
    \* clauses and assumptions added before one and the rounds of local search
    \* asked for, none by default; budget bounds how often the search reduces,
    \* rephases, stabilizes and is terminated

ASSUME ScenariosTyped ==
    \A scenario \in Scenarios : scenario.calls \in
        Seq([add : Seq(Seq(Literals(Vars))), assume : Seq(Literals(Vars)), localsearch : Nat])

VARIABLES
    pc,
    plan,           \* calls of solve() still to be made
    input,          \* clauses of this call still to be added
    formula,        \* every clause added so far
    unsat,          \* the empty clause was derived
    result,         \* 10, 20, or 0 for an unknown answer; -1 while running
    failed,         \* the failed assumptions of answer 20
    luck,           \* number of the lucky strategy under way
    rounds,         \* local search rounds left
    recent,         \* schedules a conflict has made due again
    budget,         \* reduces, rephases and terminations left
    terminated      \* termination_forced

clauseVars == <<irredundant, redundant, watched>>
walkVars == <<walk, saved>>
userVars == <<plan, input, formula, assumptions>>
answerVars == <<result, failed>>
limitVars == <<luck, rounds, recent, budget, stable>>
scheduleVars == <<limitVars, terminated>>
vars == <<s, clauseVars, conflict, visiting, walkVars, userVars, pc, unsat,
          answerVars, scheduleVars>>

Oracle == INSTANCE SatOracle WITH
    model <- IF result = 10 THEN Holds ELSE {},
    Scenarios <- {scenario.calls : scenario \in Scenarios}

Init ==
    /\ Oracle!Init
    /\ budget \in {scenario.budget : scenario \in {sc \in Scenarios : sc.calls = plan}}
    /\ s = EmptyStack /\ irredundant = {} /\ redundant = {} /\ watched = <<>>
    /\ conflict = NoConflict /\ visiting = {}
    /\ walk = NoWalk /\ saved = {}
    /\ pc = "idle" /\ unsat = FALSE
    /\ luck = 0 /\ rounds = 0 /\ recent = {}
    /\ stable = FALSE /\ terminated = FALSE

-----------------------------------------------------------------------------
(* Adding clauses and assumptions.                                         *)

(* The next call: assumptions and failed literals of the last are reset,   *)
(* and the search returns to the root level.                               *)
BeginCall ==
    /\ pc = "idle" /\ plan # <<>>
    /\ plan' = Tail(plan)
    /\ input' = Head(plan).add
    /\ assumptions' = Oracle!assume(Head(plan).assume)
    /\ result' = Oracle!Running /\ failed' = {}
    /\ s' = backtrack(s, 0)
    /\ rounds' = Head(plan).localsearch
    /\ pc' = "add"
    /\ UNCHANGED <<clauseVars, conflict, visiting, walkVars, formula, unsat, luck,
                   recent, budget, stable, terminated>>

(* add_new_original_clause: root-satisfied clauses and tautologies are     *)
(* skipped, falsified literals dropped, units assigned and propagated.     *)
AddClause ==
    /\ pc = "add" /\ input # <<>>
    /\ LET original == ToSet(Head(input))
           clause == Subsequence(Head(input), {i \in FirstOccurrences(Head(input)) :
                                                 -Head(input)[i] \notin Root})
           c == ToSet(clause)
           skip == unsat \/ Tautological(original) \/ Satisfied(original, Root)
           unit == ~skip /\ Cardinality(c) = 1
       IN  /\ formula' = formula \cup {original}
           /\ unsat' = (unsat \/ (~skip /\ c = {}))
           /\ s' = IF unit THEN search_assign(s, clause[1], NoReason) ELSE s
           /\ pc' = IF unit THEN "unit" ELSE pc
           /\ IF skip \/ Cardinality(c) < 2 THEN UNCHANGED clauseVars
              ELSE /\ irredundant' = irredundant \cup {c}
                   /\ redundant' = redundant \ {c}
                   /\ watched' = [d \in Clauses \cup {c} |->
                                     IF d = c THEN {clause[1], clause[2]} ELSE watched[d]]
    /\ input' = Tail(input)
    /\ UNCHANGED <<conflict, visiting, assumptions, plan, walkVars, answerVars,
                   scheduleVars>>

learn_empty_clause ==
    /\ unsat' = TRUE /\ conflict' = NoConflict
    /\ UNCHANGED <<s, clauseVars, visiting, walkVars>>

Settled == Propagated /\ conflict = NoConflict /\ ~unsat

AddUnit ==
    /\ pc = "unit" /\ Propagated
    /\ IF conflict # NoConflict THEN learn_empty_clause
       ELSE UNCHANGED <<s, clauseVars, conflict, visiting, walkVars, unsat>>
    /\ pc' = "add"
    /\ UNCHANGED <<userVars, answerVars, scheduleVars>>

-----------------------------------------------------------------------------
(* solve().                                                                *)

Answer(r) == pc' = "idle" /\ result' = r /\ terminated' = FALSE

(* already_solved: propagate what is new at the root level.                *)
StartSolve ==
    /\ pc = "add" /\ input = <<>>
    /\ IF unsat THEN Answer(20) ELSE pc' = "root" /\ UNCHANGED <<result, terminated>>
    /\ UNCHANGED <<s, clauseVars, conflict, visiting, walkVars, userVars, unsat,
                   failed, limitVars>>

AlreadyRefuted ==
    /\ pc = "root" /\ Propagated /\ conflict # NoConflict
    /\ learn_empty_clause
    /\ Answer(20)
    /\ UNCHANGED <<userVars, failed, limitVars>>

(* Restarts, rephasing and the mode switch start again in every call, the  *)
(* limit of reductions is kept, init_search_limits.                        *)
StartSearch ==
    /\ pc = "root" /\ Settled
    /\ pc' = IF rounds > 0 THEN "start_walk" ELSE "lucky"
    /\ luck' = 1 /\ stable' = FALSE /\ recent' = recent \cap {"reduce"}
    /\ UNCHANGED <<s, clauseVars, conflict, visiting, walkVars, userVars, unsat,
                   answerVars, rounds, budget, terminated>>

(* failing(): two clashing assumptions, or one falsified on the lowest     *)
(* level with all assumptions that its falsification rests on.             *)
Because(t, seen) ==
    LET because[i \in 0..Len(t.trail)] ==
            IF i = 0 THEN seen
            ELSE LET before == because[i - 1]
                     lit == t.trail[Len(t.trail) - i + 1]
                 IN  IF lit \in before /\ LevelOf(t, lit) > 0
                     THEN before \cup Negated(t.reason[vidx(lit)] \ {lit}) ELSE before
    IN  because[Len(t.trail)]

failing(t) ==
    LET A == ToSet(assumptions)
        clash == {lit \in A : -lit \in A}
        false == {lit \in A : -lit \in HoldsIn(t)}
        lowest == {lit \in false : \A k \in false : LevelOf(t, lit) <= LevelOf(t, k)}
    IN  IF clash # {} THEN {{lit, -lit} : lit \in clash}
        ELSE {IF LevelOf(t, lit) = 0 THEN {lit}
              ELSE {lit} \cup (A \cap {k \in Because(t, {-lit}) :
                                  LevelOf(t, k) > 0 /\ t.reason[vidx(k)] = NoReason})
              : lit \in lowest}

(* A mutant: assumptions may still be undecided.                           *)
satisfied_early == Len(s.trail) = Cardinality(Vars)

satisfied ==
    /\ Level(s) >= Len(assumptions)
    /\ Len(s.trail) = Cardinality(Vars)

(* decide(): the next assumption, on a level of its own even when it holds *)
(* already, or a literal of the best variable.                             *)
decide(phases) ==
    IF Level(s) < Len(assumptions)
    THEN LET lit == assumptions[Level(s) + 1] IN
         /\ -lit \notin Holds
         /\ s' = IF lit \in Holds
                 THEN [s EXCEPT !.control = Append(@, Len(s.trail))]
                 ELSE search_assume_decision(s, lit)
    ELSE \E v \in IF stable THEN Free(s) ELSE {next_decision_variable_on_queue(s)} :
         \E lit \in {v, -v} \cap phases :
            LET t == IF stable \/ v = s.unassigned THEN s
                     ELSE update_queue_unassigned(s, v)
            IN  s' = search_assume_decision(t, lit)

AssumptionFails ==
    /\ Level(s) < Len(assumptions)
    /\ -assumptions[Level(s) + 1] \in Holds

-----------------------------------------------------------------------------
(* The CDCL loop.                                                          *)

Propagating == {"unit", "root", "start_walk", "start_rephase", "search", "saved",
                "produce", "lucky", "reduce"}

Propagate ==
    /\ pc \in Propagating /\ ~unsat
    /\ propagate
    /\ UNCHANGED <<irredundant, redundant, walkVars, userVars, pc, unsat, answerVars,
                   scheduleVars>>

Analyze ==
    /\ pc \in {"search", "produce"} /\ Propagated /\ conflict # NoConflict /\ ~unsat
    /\ \/ (AnalyzeForced \/ AnalyzeLearn) /\ UNCHANGED unsat
       \/ ConflictAtRoot /\ unsat' = TRUE /\ conflict' = NoConflict
          /\ UNCHANGED <<s, redundant, watched>>
    /\ recent' = {"restart", "stabilize", "reduce", "rephase"}
    /\ UNCHANGED <<irredundant, visiting, walkVars, userVars, pc, result, failed,
                   luck, rounds, budget, stable, terminated>>

LoopUnsat ==
    /\ pc \in {"search", "produce"} /\ unsat
    /\ Answer(20)
    /\ UNCHANGED <<s, clauseVars, conflict, visiting, walkVars, userVars, unsat,
                   failed, limitVars>>

LoopSatisfied ==
    /\ pc = "search" /\ Settled /\ satisfied
    /\ Answer(10)
    /\ UNCHANGED <<s, clauseVars, conflict, visiting, walkVars, userVars, unsat,
                   failed, limitVars>>

LoopTerminated ==
    /\ pc = "search" /\ Settled /\ ~satisfied /\ terminated
    /\ Answer(0)
    /\ UNCHANGED <<s, clauseVars, conflict, visiting, walkVars, userVars, unsat,
                   failed, limitVars>>

Looping == pc = "search" /\ Settled /\ ~satisfied /\ ~terminated

Restartable == Looping /\ Level(s) >= Len(assumptions) + 2

(* stabilizing(), asked for whenever a restart is considered.              *)
Stabilize ==
    /\ Restartable /\ "stabilize" \in recent /\ budget.stabilize > 0
    /\ stable' = ~stable
    /\ recent' = recent \ {"stabilize"}
    /\ budget' = [budget EXCEPT !.stabilize = @ - 1]
    /\ UNCHANGED <<s, clauseVars, conflict, visiting, walkVars, userVars, pc, unsat,
                   answerVars, luck, rounds, terminated>>

(* Restarts keep the decisions that would be made again.                   *)
reuse_trail ==
    LET n == Len(assumptions)
        next == next_decision_variable_on_queue(s)
        bumped(k) == s.place[vidx(s.trail[s.control[k] + 1])]
        reused == Max({k \in n..Level(s) : \A j \in (n + 1)..k : bumped(j) > s.place[next]})
    IN  IF stable THEN \E k \in n..Level(s) : s' = backtrack(s, k)
        ELSE s' = backtrack(update_queue_unassigned(s, next), reused)

Restart ==
    /\ Restartable /\ "restart" \in recent
    /\ reuse_trail
    /\ recent' = recent \ {"restart"}
    /\ UNCHANGED <<clauseVars, conflict, visiting, walkVars, userVars, pc, unsat,
                   answerVars, luck, rounds, budget, stable, terminated>>

Rephase ==
    /\ Looping /\ "rephase" \in recent /\ budget.rephase > 0
    /\ s' = backtrack(s, 0)
    /\ \/ pc' = "start_rephase"         \* rephase_walk
       \/ pc' = pc                      \* the other schedules set phases only
    /\ recent' = recent \ {"rephase"}
    /\ budget' = [budget EXCEPT !.rephase = @ - 1]
    /\ UNCHANGED <<clauseVars, conflict, visiting, walkVars, userVars, unsat,
                   result, failed, luck, rounds, stable, terminated>>

(* A mutant: units assigned out of order are not propagated first.         *)
Reduce_on_the_spot ==
    /\ Looping /\ "reduce" \in recent /\ budget.reduce > 0 /\ redundant # {}
    /\ pc' = "reduce"
    /\ recent' = recent \ {"reduce"}
    /\ budget' = [budget EXCEPT !.reduce = @ - 1]
    /\ UNCHANGED <<s, clauseVars, conflict, visiting, walkVars, userVars, unsat,
                   result, failed, luck, rounds, stable, terminated>>

(* Units assigned out of order are propagated at the root level first; no  *)
(* conflict is left for that to find (CollectKeepsWatches), so that the    *)
(* branch for one, here and before a walk, is left out.                    *)
Reduce ==
    /\ Looping /\ "reduce" \in recent /\ budget.reduce > 0 /\ redundant # {}
    /\ s' = IF \E i \in DOMAIN s.trail :
                  LevelOf(s, s.trail[i]) = 0 /\ Level(s) > 0 /\ i > s.control[1]
            THEN backtrack(s, 0) ELSE s
    /\ pc' = "reduce"
    /\ recent' = recent \ {"reduce"}
    /\ budget' = [budget EXCEPT !.reduce = @ - 1]
    /\ UNCHANGED <<clauseVars, conflict, visiting, walkVars, userVars, unsat,
                   result, failed, luck, rounds, stable, terminated>>

(* Any learned clause that is no reason may be marked as useless; then     *)
(* garbage is collected.                                                   *)
CollectGarbage ==
    /\ pc = "reduce" /\ Settled
    /\ LET reasons == {s.reason[v] : v \in Vars} IN
       \E useless \in SUBSET (redundant \ reasons) :
          LET red == redundant \ useless IN
          /\ irredundant' = Flushed(irredundant)
          /\ redundant' = Flushed(red) \ Flushed(irredundant)
          /\ watched' = FlushedWatches(irredundant \cup red)
          /\ s' = [s EXCEPT !.reason = [v \in Vars |-> @[v] \ Negated(Root)]]
    /\ pc' = "search"
    /\ UNCHANGED <<conflict, visiting, walkVars, userVars, unsat, result, failed,
                   limitVars, terminated>>

Decide ==
    /\ Looping
    /\ decide(Literals(Vars))
    /\ UNCHANGED <<clauseVars, conflict, visiting, walkVars, userVars, pc, unsat,
                   answerVars, scheduleVars>>

(* An assumption is false: the call fails.                                 *)
DecideFails ==
    /\ \/ Looping
       \/ pc \in {"saved", "produce"} /\ Settled /\ ~satisfied
    /\ AssumptionFails
    /\ failed' \in failing(s)
    /\ Answer(20)
    /\ saved' = {}
    /\ UNCHANGED <<s, clauseVars, conflict, visiting, walk, userVars, unsat,
                   limitVars>>

-----------------------------------------------------------------------------
(* Lucky phases: eight ways to guess a model, each by decisions with       *)
(* propagation from the root level, given up at the first conflict.  They  *)
(* are skipped under assumptions.                                          *)

Horn(sign) == {lit \in Literals(Vars) : vidx(lit) \in Free(s) /\ (lit > 0) = sign}

(* 1, 2: every clause has a literal of the sign.                           *)
Promising ==
    luck \in {1, 2} /\ Level(s) = 0 =>
        \A c \in irredundant : Satisfied(c, Holds) \/ c \cap Horn(luck = 2) # {}

(* 3 to 6 decide the variables in order; 7 and 8 first satisfy the clauses *)
(* by literals of one sign.                                                *)
LuckyLiterals ==
    LET open == {c \in irredundant : ~Satisfied(c, Holds)}
        first == Min(Free(s))
        last == Max(Free(s))
    IN  CASE luck \in {1, 4} -> {-first}
          [] luck \in {2, 3} -> {first}
          [] luck = 5 -> {-last}
          [] luck = 6 -> {last}
          [] luck \in {7, 8} -> IF open = {} THEN {IF luck = 7 THEN -first ELSE first}
                               ELSE (UNION open) \cap Horn(luck = 7)

Stuck ==
    /\ luck \in {7, 8}
    /\ \E c \in irredundant : ~Satisfied(c, Holds) /\ c \cap Horn(luck = 7) = {}

LuckyDecide ==
    /\ pc = "lucky" /\ luck < 9 /\ assumptions = <<>>
    /\ Settled /\ ~terminated /\ Free(s) # {} /\ Promising
    /\ \E lit \in LuckyLiterals : s' = search_assume_decision(s, lit)
    /\ UNCHANGED <<clauseVars, conflict, visiting, walkVars, userVars, pc, unsat,
                   answerVars, scheduleVars>>

LuckyFound ==
    /\ pc = "lucky" /\ luck < 9 /\ assumptions = <<>>
    /\ Settled /\ Free(s) = {} /\ Promising
    /\ Answer(10)
    /\ UNCHANGED <<s, clauseVars, conflict, visiting, walkVars, userVars, unsat,
                   failed, limitVars>>

(* A mutant: the strategy that has failed is tried again.                  *)
unlucky_again ==
    /\ pc = "lucky" /\ luck < 9 /\ assumptions = <<>> /\ Propagated
    /\ conflict # NoConflict \/ ~Promising \/ Stuck
    /\ luck' = IF conflict # NoConflict THEN luck ELSE luck + 1
    /\ s' = backtrack(s, 0)
    /\ conflict' = NoConflict
    /\ UNCHANGED <<clauseVars, visiting, walkVars, userVars, pc, unsat, answerVars,
                   rounds, recent, budget, stable, terminated>>

unlucky ==
    /\ pc = "lucky" /\ luck < 9 /\ assumptions = <<>> /\ Propagated
    /\ \/ terminated /\ luck' = 9
       \/ conflict # NoConflict /\ luck' = luck + 1
       \/ conflict = NoConflict /\ (~Promising \/ Stuck) /\ luck' = luck + 1
    /\ s' = backtrack(s, 0)
    /\ conflict' = NoConflict
    /\ UNCHANGED <<clauseVars, visiting, walkVars, userVars, pc, unsat, answerVars,
                   rounds, recent, budget, stable, terminated>>

EndLucky ==
    /\ pc = "lucky"
    /\ luck = 9 \/ assumptions # <<>>
    /\ pc' = "search" /\ luck' = 0
    /\ UNCHANGED <<s, clauseVars, conflict, visiting, walkVars, userVars, unsat,
                   answerVars, rounds, recent, budget, stable, terminated>>

-----------------------------------------------------------------------------
(* Local search before the search, and as a rephase.                       *)

StartWalk ==
    /\ pc \in {"start_walk", "start_rephase"} /\ Settled
    /\ irredundant' = Flushed(irredundant)
    /\ redundant' = Flushed(redundant) \ Flushed(irredundant)
    /\ watched' = FlushedWatches(Clauses)
    /\ WalkInit(IF pc = "start_walk" THEN "local_search" ELSE "rephase")
    /\ pc' = "walk"
    /\ UNCHANGED <<s, conflict, visiting, userVars, unsat, result, failed,
                   limitVars, terminated>>

Walk ==
    /\ pc = "walk"
    /\ WalkFlip
    /\ UNCHANGED <<s, clauseVars, conflict, visiting, userVars, pc, unsat, answerVars,
                   scheduleVars>>

(* The round ends when no clause is broken, or at its limit.               *)
EndWalk ==
    /\ pc = "walk"
    /\ watched' \in Reconnected(Clauses)
    /\ walk' = NoWalk
    /\ rounds' = IF walk.from = "local_search" THEN rounds - 1 ELSE rounds
    /\ pc' = IF walk.from = "rephase" THEN "search"
             ELSE IF walk_result = 10 THEN "saved"
             ELSE IF walk_result = 20 THEN "produce"
             ELSE IF rounds > 1 THEN "start_walk" ELSE "lucky"
    /\ saved' = IF pc' = "saved" THEN saved ELSE {}
    /\ UNCHANGED <<s, irredundant, redundant, conflict, visiting, userVars, unsat,
                   result, failed, luck, recent, budget, stable, terminated>>

(* try_to_satisfy_formula_by_saved_phases, produce_failed_assumptions.     *)
DecidePrepared ==
    /\ pc \in {"saved", "produce"} /\ Settled /\ ~satisfied
    /\ decide(IF pc = "saved" THEN saved ELSE Literals(Vars))
    /\ UNCHANGED <<clauseVars, conflict, visiting, walkVars, userVars, pc, unsat,
                   answerVars, scheduleVars>>

SavedSatisfied ==
    /\ pc = "saved" /\ Settled /\ satisfied
    /\ Answer(10)
    /\ saved' = {}
    /\ UNCHANGED <<s, clauseVars, conflict, visiting, walk, userVars, unsat, failed,
                   limitVars>>

SavedConflict ==
    /\ pc = "saved" /\ Propagated /\ conflict # NoConflict
    /\ s' = backtrack(s, 0)
    /\ conflict' = NoConflict
    /\ saved' = {}
    /\ pc' = "lucky"
    /\ UNCHANGED <<clauseVars, visiting, walk, userVars, unsat, result, failed,
                   limitVars, terminated>>
-----------------------------------------------------------------------------
(* terminate() may be called at any time, from another thread.             *)
Terminate ==
    /\ budget.terminate > 0 /\ ~terminated
    /\ terminated' = TRUE
    /\ budget' = [budget EXCEPT !.terminate = @ - 1]
    /\ UNCHANGED <<s, clauseVars, conflict, visiting, walkVars, userVars, pc, unsat,
                   answerVars, luck, rounds, recent, stable>>

Loop ==
    \/ Analyze \/ LoopUnsat \/ LoopSatisfied \/ LoopTerminated
    \/ Stabilize \/ Restart \/ Rephase \/ Reduce \/ CollectGarbage
    \/ Decide \/ DecideFails

Presolve ==
    \/ LuckyDecide \/ LuckyFound \/ unlucky \/ EndLucky
    \/ StartWalk \/ EndWalk
    \/ DecidePrepared \/ SavedSatisfied \/ SavedConflict

Solve == StartSolve \/ AlreadyRefuted \/ StartSearch \/ Presolve \/ Loop

Done == pc = "idle" /\ plan = <<>> /\ UNCHANGED vars

Next ==
    \/ BeginCall \/ AddClause \/ AddUnit
    \/ Propagate \/ Solve \/ Walk \/ Terminate \/ Done

(* solve() runs on its thread until it answers, and a local search round   *)
(* ends even when it could flip on for ever.  One of these steps can be    *)
(* taken whenever a call is under way, else the model would deadlock: the  *)
(* formula is weak fairness without the cost of ENABLED.                   *)
SolverStep ==
    /\ pc # "idle" /\ budget'.terminate = budget.terminate
    /\ pc = "walk" => pc' # "walk"

Spec == /\ Init /\ [][Next]_vars
        /\ []<>(pc = "idle") \/ []<><<SolverStep>>_vars

-----------------------------------------------------------------------------
TypeOK ==
    /\ pc \in {"idle", "add", "unit", "root", "start_walk", "start_rephase", "walk",
               "saved", "produce", "lucky", "search", "reduce"}
    /\ HoldsIn(s) \subseteq Literals(Vars) /\ ~Tautological(Holds)
    /\ s.propagated \in 0..Len(s.trail)
    /\ DOMAIN watched = Clauses
    /\ \A c \in Clauses : Cardinality(c) > 1 /\ watched[c] \in kSubset(2, c)
    /\ visiting \subseteq Clauses /\ conflict \in Clauses \cup {NoConflict}
    /\ result \in {-1, 0, 10, 20} /\ failed \subseteq ToSet(assumptions)

Searching == pc \in {"root", "lucky", "search", "saved", "produce"}

(* When propagation is complete, every clause has a true literal or two    *)
(* unassigned watched ones - also when literals were assigned out of order *)
(* and the solver has backtracked over some of them (propagate.cpp).       *)
WatchInvariant ==
    /\ TypeOK
    /\ Searching /\ Settled =>
        \A c \in Clauses : Satisfied(c, Holds) \/ \A lit \in watched[c] : vidx(lit) \in Free(s)

(* An assigned literal with a reason is the only true literal of it, and   *)
(* its level is the highest of the others, however often levels were left  *)
(* and literals kept (search_assign, backtrack, reduce).                   *)
LevelsExact ==
    pc # "walk" => \A lit \in Holds : s.reason[vidx(lit)] # NoReason =>
        LET r == s.reason[vidx(lit)] IN
        /\ lit \in r /\ Falsified(r \ {lit}, Holds)
        /\ LevelOf(s, lit) = assignment_level(s, lit, r)

(* All variables behind the decision queue's pointer are assigned          *)
(* (queue.hpp): those bumped after its time stamp are, and the time stamp  *)
(* may be stale but never too new.                                         *)
QueuePointerSound ==
    /\ Behind(s, s.unassigned) \subseteq s.beyond
    /\ s.beyond \cap Free(s) = {}

(* A learned clause follows from the clauses by unit propagation, which is *)
(* what the proof checker accepts (checker.cpp, check_learned_clause).     *)
LearnedByPropagation ==
    [][\A c \in redundant' \ redundant :
          Refuted(Clauses \cup Units(Root), Negated(c), Vars)]_vars

(* Propagation at the root level before garbage collection finds no        *)
(* conflict, and after it no false literal that is flushed is watched.     *)
CollectKeepsWatches ==
    pc \in {"reduce", "start_walk", "start_rephase"} /\ Propagated =>
        /\ conflict = NoConflict
        /\ \A c \in Clauses : Satisfied(c, Root) \/ watched[c] \cap Negated(Root) = {}

(* The walk's broken clauses are the falsified ones, and the watched       *)
(* literal of every other clause is true (walk_flip_lit).                  *)
BrokenExact ==
    pc = "walk" /\ ~walk.failed =>
        /\ walk.broken = {c \in irredundant : ~Satisfied(c, walk.vals)}
        /\ DOMAIN walk.front = irredundant \ walk.broken
        /\ \A c \in DOMAIN walk.front : walk.front[c] \in c \cap walk.vals

(* The assignment of least falsified clauses is exported to the saved      *)
(* phases (rephase.cpp: "use local search to find phases which minimize    *)
(* the number of falsified clauses"; internal.hpp says of copy_phases      *)
(* "copy 'vals' to 'argument'").  The code does not do so.                 *)
WalkExportsMinimum ==
    pc = "walk" /\ ~walk.failed /\ walk.minimum = 0 =>
        \A c \in irredundant : Satisfied(c, walk.assumed \cup
                                  {lit \in saved : -lit \notin walk.assumed})

(* When local search says that the assumptions fail, deciding them never   *)
(* satisfies the formula (assertion of produce_failed_assumptions).        *)
AssumptionsDoFail == pc = "produce" /\ Settled => ~satisfied

(* Every call of solve() is answered.                                      *)
CallsAnswered == result = Oracle!Running ~> result # Oracle!Running

(* A satisfying assignment satisfies every clause ever added and the       *)
(* assumptions, the failed assumptions of a negative answer contradict     *)
(* them: the search implements the incremental solver's promise.           *)
ImplementsOracle == Oracle!Spec
=============================================================================
