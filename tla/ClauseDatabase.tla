--------------------------- MODULE ClauseDatabase ---------------------------
(***************************************************************************)
(* The clauses of the solver between two searches, as the inprocessing     *)
(* techniques see and change them, and the stack of removed clauses from   *)
(* which a model of the remaining ones is extended to a model of all.      *)
(*                                                                         *)
(* Internal and external literals are the same here: compacting the        *)
(* variables renames them.  Copies of a clause are kept as one clause, the *)
(* irredundant one if there is one.                                        *)
(***************************************************************************)
EXTENDS Clauses

CONSTANT Vars

ASSUME VarsAssumption == Vars \subseteq Nat \ {0} /\ IsFiniteSet(Vars)

VARIABLES
    irredundant,    \* clauses of the formula, of two literals or more
    redundant,      \* clauses that can be dropped at any time
    root,           \* literals fixed at the root level
    unsat,          \* the empty clause was derived
    status,         \* of every variable, Flags::status
    extension,      \* removed clauses with their witness literals, in order
    witness,        \* witness bits of the literals
    frozen          \* variables frozen by the user or by an assumption

clauseVars == <<irredundant, redundant, root, unsat, status>>
stackVars == <<extension, witness>>

Gone == {"eliminated", "substituted", "pure"}

Database == irredundant \cup redundant

Active == {v \in Vars : status[v] = "active"}

ActiveLiterals == Literals(Active)

Occurring(F, lit) == {c \in F : lit \in c}

Binary(F) == {c \in F : Cardinality(c) = 2}

Ternary(F) == {c \in F : Cardinality(c) = 3}

(* Garbage collection: clauses satisfied at the root level go, false       *)
(* literals are removed.                                                   *)
Flushed(F, A) == {c \ Negated(A) : c \in {d \in F : ~Satisfied(d, A)}}

(* The status of the variables, new for those that are marked.             *)
WithMarks(marked) == [v \in Vars |-> IF v \in DOMAIN marked THEN marked[v] ELSE status[v]]

(* The clauses become I and R - units among them - and what follows at the *)
(* root level is propagated; marked gives variables a new status, unless   *)
(* they are fixed.  A refutation ends everything.  The redundant clauses K *)
(* are not connected: they are neither propagated nor flushed.             *)
UpdateConnected(I, R, K, marked) ==
    \E A \in {Closure(I \cup R, root, Vars)} :
       IF Tautological(A) \/ \E c \in I \cup R : Falsified(c, A)
       THEN unsat' = TRUE /\ UNCHANGED <<irredundant, redundant, root, status>>
       ELSE /\ root' = A
            /\ irredundant' = Flushed(I, A)
            /\ redundant' = (Flushed(R, A) \cup K) \ Flushed(I, A)
            /\ status' = [v \in Vars |-> IF {v, -v} \cap A # {} THEN "fixed"
                                         ELSE WithMarks(marked)[v]]
            /\ UNCHANGED unsat

Update(I, R, marked) == UpdateConnected(I, R, {}, marked)

(* F with c replaced by e.                                                 *)
Replaced(F, c, e) == IF c \in F THEN (F \ {c}) \cup {e} ELSE F

Unmarked == <<>>

Marked(variables, st) == [v \in variables |-> st]

-----------------------------------------------------------------------------
(* The extension stack.                                                    *)

Weakened(w, c) == [witness |-> w, clause |-> c]

push_on_extension_stack(entries) ==
    /\ extension' = extension \o entries
    /\ witness' = witness \cup UNION {e.witness : e \in ToSet(entries)}

(* Clauses that are pushed with one witness literal, in any order.         *)
WeakenedOn(lit, F) == SetToSeq({Weakened({lit}, c) : c \in F})

(* The false witness literals of a clause that is not satisfied are        *)
(* flipped, backward over the stack.                                       *)
Flipped(e, A) ==
    IF Satisfied(e.clause, A) THEN A ELSE (A \ Negated(e.witness)) \cup e.witness

extend(A) ==
    LET B[i \in 0..Len(extension)] ==
            IF i = Len(extension) THEN A ELSE Flipped(extension[i + 1], B[i + 1])
    IN  B[0]

-----------------------------------------------------------------------------
(* Literals that come in through the interface.                            *)

(* An unused variable becomes active, one that is gone is reactivated; a   *)
(* literal is tainted when its negation is a witness.                      *)
Internalized(lits) ==
    Marked({v \in Vars : {v, -v} \cap lits # {} /\ status[v] # "fixed"}, "active")

Taints(lits) == {lit \in lits : -lit \in witness}

(* add_new_original_clause: false literals are dropped, tautologies and    *)
(* satisfied clauses skipped.                                              *)
add_original_clause(c) ==
    LET kept == IF Tautological(c) THEN {} ELSE Flushed({c}, root)
    IN  Update(irredundant \cup kept, redundant \ kept, Internalized(c))

-----------------------------------------------------------------------------
(* Subsumption, strengthening and removal of clauses that follow from      *)
(* binary and ternary ones.  Which of the possible steps is taken is up to *)
(* schedules and limits: an action allows each of them.                    *)

(* A redundant clause that subsumes an irredundant one takes its place.    *)
subsume_clause(c, d) ==
    LET promoted == IF c \in irredundant THEN {d} ELSE {} IN
    Update((irredundant \ {c}) \cup promoted, redundant \ ({c} \cup promoted), Unmarked)

strengthen_clause(c, remove) ==
    LET e == c \ {remove} IN
    Update(Replaced(irredundant, c, e), Replaced(redundant, c, e), Unmarked)

try_to_subsume_clause(c) ==
    \E d \in Database \ {c} :
       \/ d \subseteq c /\ subsume_clause(c, d)
       \/ \E lit \in d : Strengthens(d, c, lit) /\ strengthen_clause(c, -lit)

subsume_round == \E c \in Database \ Binary(Database) : try_to_subsume_clause(c)

(* Hyper unary resolution of two binary clauses, deduplicate.cpp.          *)
hyper_unary_resolve ==
    \E c, d \in Binary(Database) : \E lit \in c :
       /\ Strengthens(d, c, -lit)
       /\ Update(irredundant \cup {c \ {lit}}, redundant, Unmarked)

-----------------------------------------------------------------------------
(* Transitive reduction.                                                   *)

(* Literals reached from src by the implications of the binary clauses F,  *)
(* without going on from dst.                                              *)
Reached(F, src, dst) ==
    Iterated([S \in SUBSET Literals(Vars) |->
                 S \cup UNION {UNION {c \ {-k} : c \in Occurring(F, -k)} : k \in S \ {dst}}],
             {src}, Cardinality(Literals(Vars)))

transred ==
    \E c \in Binary(Database) : \E src \in Negated(c) :
       LET dst == CHOOSE lit \in c : lit # -src
           implications == Binary(IF c \in irredundant THEN irredundant ELSE Database) \ {c}
           S == Reached(implications, src, dst)
       IN  \/ dst \in S /\ Update(irredundant \ {c}, redundant \ {c}, Unmarked)
           \/ Tautological(S \ {dst}) /\ Update(irredundant \cup {{-src}}, redundant, Unmarked)

-----------------------------------------------------------------------------
(* Hyper ternary resolution.  A binary resolvent is irredundant when one   *)
(* of its antecedents is, and both are subsumed by it.                     *)

(* The resolvent is short and says something new.                          *)
hyper_ternary_resolve(c, pivot, d) ==
    LET r == Resolvent(c, d, pivot) IN
    /\ ~Tautological(r) /\ Cardinality(r) \in {2, 3}
    /\ ~\E e \in Binary(Database) \cup Ternary(Database) : e \subseteq r

ternary_lit(pivot) ==
    \E c \in Occurring(Ternary(Database), pivot) :
    \E d \in Occurring(Ternary(Database), -pivot) :
       LET r == Resolvent(c, d, pivot)
           subsumed == IF Cardinality(r) = 2 THEN {c, d} ELSE {}
           red == Cardinality(r) = 3 \/ {c, d} \subseteq redundant
       IN  /\ hyper_ternary_resolve(c, pivot, d)
           /\ Update((irredundant \ subsumed) \cup (IF red THEN {} ELSE {r}),
                     (redundant \ subsumed) \cup (IF red THEN {r} ELSE {}), Unmarked)

ternary == \E pivot \in ActiveLiterals : ternary_lit(pivot)
=============================================================================
