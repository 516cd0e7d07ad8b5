----------------------------- MODULE SatOracle ------------------------------
(***************************************************************************)
(* What an incremental SAT solver promises its user.  Clauses are added    *)
(* and assumptions made between calls of solve(), and every call ends with *)
(* an answer: 10 with an assignment that satisfies the formula and the     *)
(* assumptions, 20 with a subset of the assumptions that the formula       *)
(* refutes, or 0 when it was stopped.                                      *)
(***************************************************************************)
EXTENDS Clauses

CONSTANTS Vars, Scenarios   \* scenarios: sequences of [add, assume]

VARIABLES
    plan,           \* the calls still to be made
    input,          \* clauses of the present call still to be added
    formula,        \* the clauses added so far
    assumptions,    \* of the present call
    result,         \* its answer, Running before it is known
    model,          \* the satisfying assignment of answer 10
    failed          \* the failed assumptions of answer 20

oracleVars == <<plan, input, formula, assumptions, result, model, failed>>

Running == -1
Unasked == 0

Init ==
    /\ plan \in Scenarios
    /\ input = <<>> /\ formula = {} /\ assumptions = <<>>
    /\ result = Unasked /\ model = {} /\ failed = {}

(* Assuming a literal twice is assuming it once.                           *)
assume(lits) == Subsequence(lits, FirstOccurrences(lits))

Begin ==
    /\ plan # <<>> /\ result # Running
    /\ plan' = Tail(plan)
    /\ input' = Head(plan).add
    /\ assumptions' = assume(Head(plan).assume)
    /\ result' = Running /\ model' = {} /\ failed' = {}
    /\ UNCHANGED formula

Add ==
    /\ result = Running /\ input # <<>>
    /\ formula' = formula \cup {ToSet(Head(input))}
    /\ input' = Tail(input)
    /\ UNCHANGED <<plan, assumptions, result, model, failed>>

AnswerSatisfiable ==
    /\ model' \in Models(formula \cup Units(ToSet(assumptions)), Vars)
    /\ result' = 10
    /\ UNCHANGED failed

AnswerUnsatisfiable ==
    /\ failed' \in SUBSET ToSet(assumptions)
    /\ ~Satisfiable(formula \cup Units(failed'), Vars)
    /\ result' = 20
    /\ UNCHANGED model

AnswerUnknown == result' = 0 /\ UNCHANGED <<model, failed>>

Solve ==
    /\ result = Running /\ input = <<>>
    /\ AnswerSatisfiable \/ AnswerUnsatisfiable \/ AnswerUnknown
    /\ UNCHANGED <<plan, input, formula, assumptions>>

Next == Begin \/ Add \/ Solve

Spec == Init /\ [][Next]_oracleVars
=============================================================================
