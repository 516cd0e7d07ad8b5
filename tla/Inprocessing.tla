----------------------------- MODULE Inprocessing ----------------------------
(***************************************************************************)
(* The solver between its calls and searches: clauses and assumptions come *)
(* in through the interface, clauses removed earlier are restored where    *)
(* they matter again, techniques change the clauses in any order, and a    *)
(* model of what is left is extended to a model of everything added.       *)
(*                                                                         *)
(* The search itself, in CadicalSearch, is here a step that learns or      *)
(* forgets a clause, or answers.  Limits can end every technique after     *)
(* each of its steps.                                                      *)
(***************************************************************************)
EXTENDS Elimination, Blocking, Probing

CONSTANTS
    LearnedLength,      \* the search learns clauses of at most so many literals
    Scenarios           \* what happens to the solver, [calls, options]: calls
    \* of solve() [add, assume, freeze, steps], with the variables that the
    \* user has frozen and a bound on the steps taken before the answer, and
    \* the techniques enabled

ASSUME LearnedLengthAssumption == LearnedLength \in Nat

ASSUME ScenariosTyped ==
    \A scenario \in Scenarios :
        scenario.calls \in Seq([add : Seq(Seq(Literals(Vars))), assume : Seq(Literals(Vars)),
                               freeze : SUBSET Vars, steps : Nat])

VARIABLES
    pc,
    plan, input,    \* calls, and clauses of this one, still to come
    formula,        \* every clause added so far
    assumptions,
    result, model, failed,
    tainted,        \* literals whose negation was a witness when they came in
    cursor,         \* where restoring stands on the extension stack
    options, steps

answerVars == <<result, model, failed>>
userVars == <<plan, input, formula, assumptions, options>>
vars == <<clauseVars, stackVars, frozen, eliminating, pc, userVars, answerVars,
          tainted, cursor, steps>>

Oracle == INSTANCE SatOracle WITH
    Scenarios <- {scenario.calls : scenario \in Scenarios}

Init ==
    /\ Oracle!Init
    /\ options \in {scenario.options : scenario \in {sc \in Scenarios : sc.calls = plan}}
    /\ irredundant = {} /\ redundant = {} /\ root = {} /\ unsat = FALSE
    /\ status = [v \in Vars |-> "unused"]
    /\ extension = <<>> /\ witness = {} /\ frozen = {}
    /\ eliminating = NotEliminating
    /\ pc = "idle" /\ tainted = {} /\ cursor = 0 /\ steps = 0

-----------------------------------------------------------------------------
(* The interface, external.cpp.                                            *)

(* freeze, melt and assume internalize their literals; assumptions are     *)
(* frozen until the next call.                                             *)
BeginCall ==
    LET call == Head(plan)
        assumed == ToSet(call.assume)
        lits == assumed \cup call.freeze \cup frozen
    IN  /\ pc = "idle" /\ plan # <<>>
        /\ plan' = Tail(plan) /\ input' = call.add
        /\ assumptions' = Oracle!assume(call.assume)
        /\ frozen' = call.freeze \cup {vidx(lit) : lit \in assumed}
        /\ status' = WithMarks(Internalized(lits))
        /\ tainted' = tainted \cup Taints(lits)
        /\ result' = Oracle!Running /\ model' = {} /\ failed' = {}
        /\ steps' = call.steps
        /\ pc' = "add"
        /\ UNCHANGED <<irredundant, redundant, root, unsat, stackVars, eliminating, formula,
                       options, cursor>>

AddClause ==
    LET c == ToSet(Head(input)) IN
    /\ pc = "add" /\ input # <<>>
    /\ add_original_clause(c)
    /\ tainted' = tainted \cup Taints(c)
    /\ formula' = formula \cup {c}
    /\ input' = Tail(input)
    /\ UNCHANGED <<stackVars, frozen, eliminating, pc, plan, assumptions, options, answerVars,
                   cursor, steps>>

-----------------------------------------------------------------------------
(* solve(): restore clauses if there are tainted literals, restore.cpp.    *)

Answer(r) == result' = r /\ pc' = "idle"

StartSolve ==
    /\ pc = "add" /\ input = <<>>
    /\ IF unsat THEN Answer(20)
       ELSE pc' = (IF tainted = {} THEN "run" ELSE "restore") /\ UNCHANGED result
    /\ cursor' = 1
    /\ UNCHANGED <<clauseVars, stackVars, frozen, eliminating, userVars, model, failed,
                   tainted, steps>>

(* A mutant: a restored clause taints no further literals.                 *)
RestoreClause_untainted ==
    /\ pc = "restore" /\ cursor <= Len(extension)
    /\ LET e == extension[cursor] IN
       IF Negated(e.witness) \cap tainted # {}
       THEN /\ extension' = RemoveAt(extension, cursor)
            /\ add_original_clause(e.clause)
            /\ UNCHANGED <<cursor, tainted>>
       ELSE /\ cursor' = cursor + 1
            /\ UNCHANGED <<clauseVars, extension, tainted>>
    /\ UNCHANGED <<witness, frozen, eliminating, pc, userVars, answerVars, steps>>

(* Clauses are restored in the order of their removal, and taint literals   *)
(* in turn: the witness bits are those from before.                        *)
RestoreClause ==
    /\ pc = "restore" /\ cursor <= Len(extension)
    /\ LET e == extension[cursor] IN
       IF Negated(e.witness) \cap tainted # {}
       THEN /\ extension' = RemoveAt(extension, cursor)
            /\ tainted' = tainted \cup Taints(e.clause)
            /\ add_original_clause(e.clause)
            /\ UNCHANGED cursor
       ELSE /\ cursor' = cursor + 1
            /\ UNCHANGED <<clauseVars, extension, tainted>>
    /\ UNCHANGED <<witness, frozen, eliminating, pc, userVars, answerVars, steps>>

EndRestore ==
    /\ pc = "restore" /\ cursor > Len(extension)
    /\ tainted' = {}
    /\ witness' = UNION {e.witness : e \in ToSet(extension)}
    /\ pc' = "run" /\ cursor' = 0
    /\ UNCHANGED <<clauseVars, extension, frozen, eliminating, userVars, answerVars, steps>>

-----------------------------------------------------------------------------
(* A step of a technique that is enabled.                                  *)

Plain ==
    \/ "subsume" \in options /\ subsume_round
    \/ "transred" \in options /\ transred
    \/ "ternary" \in options /\ ternary
    \/ "probe" \in options /\ (hyper_unary_resolve \/ probe)
    \/ "vivify" \in options /\ vivify

Pushing ==
    \/ "block" \in options /\ block
    \/ "cover" \in options /\ cover_clause
    \/ "condition" \in options /\ condition
    \/ "decompose" \in options /\ decompose

(* A variable is tried to the end whatever the limits.                     *)
Inprocess ==
    /\ pc = "run" /\ ~unsat /\ (steps > 0 \/ Trying)
    /\ \/ Idle /\ Plain /\ UNCHANGED <<stackVars, eliminating>>
       \/ Idle /\ Pushing /\ UNCHANGED eliminating
       \/ "elim" \in options /\ Eliminate
       \/ "instantiate" \in options /\ instantiate_candidate
    /\ steps' = IF steps > 0 THEN steps - 1 ELSE 0
    /\ UNCHANGED <<frozen, pc, userVars, answerVars, tainted, cursor>>

EndRound ==
    /\ pc = "run" /\ ~unsat /\ end_elim_round
    /\ UNCHANGED <<frozen, pc, userVars, answerVars, tainted, cursor, steps>>

(* The search learns a clause that unit propagation verifies, or reduces    *)
(* the learned clauses.                                                    *)
Learn ==
    /\ pc = "run" /\ ~unsat /\ steps > 0 /\ Idle /\ "learn" \in options
    /\ \/ \E c \in SUBSET ActiveLiterals :
             /\ c # {} /\ Cardinality(c) <= LearnedLength
             /\ ~Tautological(c) /\ Refuted(Database, Negated(c), Vars)
             /\ ~\E d \in Database : d \subseteq c
             /\ Update(irredundant, redundant \cup {c}, Unmarked)
       \/ \E c \in redundant : Update(irredundant, redundant \ {c}, Unmarked)
    /\ steps' = steps - 1
    /\ UNCHANGED <<stackVars, frozen, eliminating, pc, userVars, answerVars, tainted, cursor>>

(* The literals of variables that are gone, or were never used, have any    *)
(* value before the assignment is extended.                                *)
AnswerSatisfiable ==
    /\ ~unsat
    /\ \E A \in Models(Database \cup Units(root \cup ToSet(assumptions)), Vars) :
          model' = extend(A)
    /\ Answer(10)
    /\ UNCHANGED failed

AnswerUnsatisfiable ==
    /\ failed' \in SUBSET ToSet(assumptions)
    /\ unsat \/ ~Satisfiable(Database \cup Units(root \cup failed'), Vars)
    /\ unsat => failed' = {}
    /\ Answer(20)
    /\ UNCHANGED model

EndSolve ==
    /\ pc = "run" /\ (Idle \/ unsat)
    /\ \/ AnswerSatisfiable
       \/ AnswerUnsatisfiable
       \/ Answer(0) /\ UNCHANGED <<model, failed>>
    /\ eliminating' = NotEliminating
    /\ UNCHANGED <<clauseVars, stackVars, frozen, userVars, tainted, cursor, steps>>

Done == pc = "idle" /\ plan = <<>> /\ UNCHANGED vars

Next ==
    \/ BeginCall \/ AddClause
    \/ StartSolve \/ RestoreClause \/ EndRestore
    \/ Inprocess \/ EndRound \/ Learn \/ EndSolve
    \/ Done

Spec == Init /\ [][Next]_vars

-----------------------------------------------------------------------------
TypeOK ==
    /\ \A c \in Database : c \subseteq Literals(Vars) /\ Cardinality(c) > 1 /\ ~Tautological(c)
    /\ irredundant \cap redundant = {}
    /\ root \subseteq Literals(Vars) /\ ~Tautological(root)
    /\ status \in [Vars -> {"unused", "active", "fixed"} \cup Gone]
    /\ witness \cup tainted \subseteq Literals(Vars)
    /\ pc \in {"idle", "add", "restore", "run"} /\ cursor \in Nat /\ steps \in Nat

(* Clauses have active literals only, whatever was eliminated, substituted, *)
(* pure, fixed and reactivated before - the redundant ones also literals   *)
(* eliminated or fixed in the round of elimination under way; frozen       *)
(* variables are never gone; and propagation at the root level is complete.*)
ActiveOnly ==
    /\ TypeOK
    /\ ~unsat =>
        /\ \A c \in irredundant : \A lit \in c : status[vidx(lit)] = "active"
        /\ \A c \in redundant : \A lit \in c :
              status[vidx(lit)] \in {"active"} \cup
                  (IF eliminating.round THEN {"fixed", "eliminated"} ELSE {})
        /\ \A v \in frozen : status[v] \notin Gone
        /\ \A v \in Vars : status[v] = "fixed" <=> {v, -v} \cap root # {}

(* While no literal is tainted, every model of the irredundant clauses can *)
(* be extended to a model of all clauses ever added, whatever values the   *)
(* variables have that are gone (extend.cpp, check_assignment).            *)
ExtensionReconstructs ==
    tainted = {} /\ ~unsat /\ ~Trying =>
        \A A \in Models(irredundant \cup Units(root), Vars) :
            \A c \in formula : Satisfied(c, extend(A))

(* What a technique adds follows from the clauses before by unit            *)
(* propagation, one literal or clause at a time, as the proof checker       *)
(* demands (checker.cpp, add_derived).                                     *)
DerivedByPropagation ==
    [][pc = "run" /\ pc' = "run" /\ ~unsat' =>
          /\ root' = root \cup FoldSet(LAMBDA v, U :
                        U \cup {lit \in root' \ (root \cup U) :
                                   Refuted(Database, root \cup U \cup {-lit}, Vars)},
                        {}, Vars)
          /\ \A c \in Database' \ Database :
                Refuted(Database \cup Units(root'), Negated(c), Vars)]_vars

(* Satisfying assignments and failed assumptions are right for the clauses *)
(* as they were added, over several calls.                                 *)
ImplementsOracle == Oracle!Spec
=============================================================================
