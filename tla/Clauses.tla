------------------------------ MODULE Clauses -------------------------------
(***************************************************************************)
(* Propositional clauses as the solver's code sees them: a literal is a    *)
(* non-zero integer, -lit its negation, a clause the set of its literals   *)
(* and an assignment a consistent set of literals.                         *)
(***************************************************************************)
EXTENDS Integers, FiniteSets, FiniteSetsExt, SequencesExt, TLC

vidx(lit) == IF lit < 0 THEN -lit ELSE lit

Negated(L) == {-lit : lit \in L}

Literals(V) == V \cup Negated(V)

Tautological(c) == \E lit \in c : -lit \in c

Falsified(c, A) == Negated(c) \subseteq A

Satisfied(c, A) == c \cap A # {}

(* Every total assignment of the variables V, and those among them that    *)
(* satisfy all clauses of F.                                               *)
Assignments(V) == {P \cup Negated(V \ P) : P \in SUBSET V}

Models(F, V) == {A \in Assignments(V) : \A c \in F : Satisfied(c, A)}

Satisfiable(F, V) == \E A \in Assignments(V) : \A c \in F : Satisfied(c, A)

Implies(F, V, c) ==
    \A A \in Assignments(V) : (\A d \in F : Satisfied(d, A)) => Satisfied(c, A)

Units(L) == {{lit} : lit \in L}

(* What n applications of the function step make of A.                     *)
Iterated(step, A, n) ==
    LET B[i \in 0..n] == IF i = 0 THEN A ELSE step[B[i - 1]]
    IN  B[n]

(* The literals that unit propagation derives from the assignment A.  A    *)
(* literal is derived in at most one round per variable; a conflict shows  *)
(* as a falsified clause.                                                  *)
Round(F, A) ==
    A \cup UNION {{lit \in c : -lit \notin A /\ Negated(c \ {lit}) \subseteq A} : c \in F}

Closure(F, A, V) == Iterated([B \in SUBSET Literals(V) |-> Round(F, B)], A, Cardinality(V))

(* Propagating A runs into a conflict: the literals of A cannot all hold.  *)
Refuted(F, A, V) ==
    LET B == Closure(F, A, V)
    IN  \/ \E c \in F : Falsified(c, B)
        \/ Tautological(B)

(* The functions that map every argument to one of its options, enumerated *)
(* argument by argument.                                                   *)
Combinations(options) ==
    FoldSet(LAMBDA c, F : {f @@ (c :> choice) : f \in F, choice \in options[c]},
            {<<>>}, DOMAIN options)

ChoiceFunctions(options) ==
    {f \in Combinations(options) :
        /\ f \in [DOMAIN options -> UNION {options[c] : c \in DOMAIN options}]
        /\ \A c \in DOMAIN options : f[c] \in options[c]}

(* The elements of a sequence at the positions P, in their order, and the  *)
(* positions at which something occurs first.                              *)
Nth(P, i) == CHOOSE p \in P : Cardinality({q \in P : q < p}) = i - 1

Subsequence(seq, P) == [i \in 1..Cardinality(P) |-> seq[Nth(P, i)]]

FirstOccurrences(seq) == {i \in DOMAIN seq : \A j \in 1..(i - 1) : seq[j] # seq[i]}

(* The resolvent of two clauses on a literal of the first.                 *)
Resolvent(c, d, lit) == (c \ {lit}) \cup (d \ {-lit})

(* subsume_check: the literal of d whose negation can be removed from c.   *)
Strengthens(d, c, lit) == lit \in d /\ -lit \in c /\ d \ {lit} \subseteq c \ {-lit}
=============================================================================
