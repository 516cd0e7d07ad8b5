------------------------------- MODULE Probing -------------------------------
(***************************************************************************)
(* Simplification by propagation of temporary decisions: failed literal    *)
(* probing with hyper binary resolution, substitution of equivalent        *)
(* literals and vivification.  Where the outcome depends on the order in   *)
(* which literals are propagated or decided, any order is allowed.         *)
(***************************************************************************)
EXTENDS ClauseDatabase

-----------------------------------------------------------------------------
(* Binary implication trees, in which probe_propagate assigns the literals *)
(* that a probe implies: every literal but the probe has a parent.         *)

(* The literals implied by lit through the binary clauses F.               *)
Reachable(F, lit) ==
    Iterated([S \in SUBSET ActiveLiterals |->
                 S \cup UNION {UNION {c \ {-k} : c \in Occurring(F, -k)} : k \in S}],
             {lit}, Cardinality(ActiveLiterals))

AncestorsOf(parent, lit) ==
    Iterated([S \in SUBSET ActiveLiterals |-> S \cup {parent[k] : k \in S \cap DOMAIN parent}],
             {lit}, Cardinality(ActiveLiterals))

(* The trees on the literals L that start at the probe.                    *)
ImplicationTrees(probe, L) ==
    LET parents(lit) == {k \in L : {-k, lit} \in Binary(Database)}
    IN  {tree \in ChoiceFunctions([lit \in L \ {probe} |-> parents(lit)]) :
            \A lit \in L : probe \in AncestorsOf(tree, lit)}

(* probe_dominator: the last common ancestor of the literals L.            *)
Dominator(tree, L) ==
    LET common == {k \in AncestorsOf(tree, CHOOSE lit \in L : TRUE) :
                      \A lit \in L : k \in AncestorsOf(tree, lit)}
    IN  CHOOSE dom \in common : common \subseteq AncestorsOf(tree, dom)

(* Probes imply other literals.  They are roots of the binary implication   *)
(* graph when they are scheduled, but a clause found by an earlier probe    *)
(* can imply them when their turn comes.                                   *)
Probes == {lit \in ActiveLiterals : Occurring(Binary(Database), -lit) # {}}

-----------------------------------------------------------------------------
(* Binary clauses imply no more and no conflict, and a long clause forces  *)
(* one literal: it becomes implied by the dominator of the negations of    *)
(* the others.  The new clause replaces one that it subsumes.              *)
hyper_binary_resolve(probe) ==
    LET L == Reachable(Binary(Database), probe) IN
    /\ ~Tautological(L)
    /\ \E tree \in ImplicationTrees(probe, L) :
       \E c \in Database \ Binary(Database) : \E lit \in c :
          LET dom == Dominator(tree, Negated(c \ {lit}))
              contained == -dom \in c
              red == ~contained \/ c \in redundant
              subsumed == IF contained THEN {c} ELSE {}
              binary == {-dom, lit}
          IN  /\ {lit, -lit} \cap L = {} /\ Negated(c \ {lit}) \subseteq L
              /\ Update((irredundant \ subsumed) \cup (IF red THEN {} ELSE {binary}),
                        (redundant \ subsumed) \cup (IF red THEN {binary} ELSE {}), Unmarked)

(* A conflict makes the dominator of the literals that are falsified, and  *)
(* its ancestors, false at the root level.                                 *)
failed_literal(probe) ==
    \E L \in {S \in SUBSET Reachable(Binary(Database), probe) : probe \in S /\ ~Tautological(S)} :
    \E tree \in ImplicationTrees(probe, L) : \E conflict \in Database :
       LET uip == Dominator(tree, Negated(conflict)) IN
       /\ Falsified(conflict, L)
       /\ Update(irredundant \cup Units(Negated(AncestorsOf(tree, uip))), redundant, Unmarked)

probe == \E lit \in Probes : hyper_binary_resolve(lit) \/ failed_literal(lit)

-----------------------------------------------------------------------------
(* Equivalent literals, the strongly connected components of the binary    *)
(* implications.  A literal is represented by the one of smallest index,   *)
(* unless it is frozen.                                                    *)

EquivalentTo(lit) ==
    {k \in Reachable(Binary(Database), lit) : lit \in Reachable(Binary(Database), k)}

Representatives ==
    [lit \in ActiveLiterals |->
        IF vidx(lit) \in frozen THEN lit
        ELSE CHOOSE k \in EquivalentTo(lit) : \A m \in EquivalentTo(lit) : vidx(k) <= vidx(m)]

(* The clauses that are left when literals are substituted in F.           *)
Substituted(F, repr) ==
    {c \in {{repr[lit] : lit \in d} : d \in F} : ~Tautological(c)}

(* A mutant: one direction of the equivalence only.                        *)
Equivalence_half(v, lit) == <<Weakened({v}, {v, -lit}), Weakened({v}, {v, -lit})>>

(* Both directions of the equivalence of a substituted variable.           *)
Equivalence(v, lit) == <<Weakened({-v}, {-v, lit}), Weakened({v}, {v, -lit})>>

(* Variable after variable, in their order.                                *)
EquivalencesOf(replaced, repr) ==
    [i \in 1..(2 * Cardinality(replaced)) |->
        LET v == Nth(replaced, (i + 1) \div 2) IN Equivalence(v, repr[v])[2 - (i % 2)]]

(* What follows from a unit is propagated while the substituted binary     *)
(* clauses are still there.  A variable that is not fixed by that is       *)
(* pushed, and gone unless the literal that represents it is fixed.        *)
decompose ==
    \E repr \in {Representatives} :
       LET I == Substituted(irredundant, repr)
           R == Substituted(redundant, repr) \ I
           watched == I \cup R \cup Binary(Database)
       IN  IF \/ \E lit \in ActiveLiterals : -lit \in EquivalentTo(lit)
              \/ Refuted(watched, root, Vars)
           THEN unsat' = TRUE /\ UNCHANGED <<irredundant, redundant, root, status, stackVars>>
           ELSE /\ \E lit \in ActiveLiterals : repr[lit] # lit
                /\ \E A \in {Closure(watched, root, Vars)} :
                      LET replaced == {v \in Active : repr[v] # v /\ {v, -v} \cap A = {}}
                          gone == {v \in replaced : {repr[v], -repr[v]} \cap A = {}}
                      IN  /\ Update(I \cup Units(A), R, Marked(gone, "substituted"))
                          /\ push_on_extension_stack(EquivalencesOf(replaced, repr))

-----------------------------------------------------------------------------
(* Vivification: the negations of literals of a clause of three or more    *)
(* literals are decided and propagated without it, over the irredundant    *)
(* clauses for an irredundant clause and over all for a redundant one.     *)

Vivifiable == {c \in Database : Cardinality(c) > 2}

OtherClauses(c) == (IF c \in irredundant THEN irredundant ELSE Database) \ {c}

(* A conflict, or a literal that is implied: an irredundant clause is not  *)
(* needed, a redundant one only if binary clauses do not suffice for that. *)
vivify_remove(c) ==
    /\ Refuted(IF c \in irredundant THEN OtherClauses(c) ELSE Binary(Database), Negated(c), Vars)
    /\ Update(irredundant \ {c}, redundant \ {c}, Unmarked)

(* The literals decided imply the negation of the others: they are the new *)
(* clause.                                                                 *)
Implying(c) ==
    IF Refuted(OtherClauses(c), Negated(c), Vars) THEN {}
    ELSE {e \in SUBSET c : Negated(c) \subseteq Closure(OtherClauses(c), Negated(e), Vars)}

(* A redundant clause is also strengthened to the decisions that a         *)
(* conflict rests on, with the literal they imply if there is one.         *)
vivify_analyze_redundant(c) ==
    {e \in SUBSET c : c \in redundant /\ Refuted(OtherClauses(c), Negated(e), Vars)}

vivify_strengthen(c, e) ==
    Update(Replaced(irredundant, c, e), Replaced(redundant, c, e), Unmarked)

vivify_clause(c) ==
    \/ vivify_remove(c)
    \/ \E e \in (Implying(c) \cup vivify_analyze_redundant(c)) \ {{}, c} :
          vivify_strengthen(c, e)

(* Scheduled clauses that another one of their kind subsumes are flushed.  *)
flush_vivification_schedule(c) ==
    /\ \E d \in Vivifiable \ {c} : d \subseteq c /\ (d \in irredundant <=> c \in irredundant)
    /\ Update(irredundant \ {c}, redundant \ {c}, Unmarked)

vivify ==
    \E c \in Vivifiable : vivify_clause(c) \/ flush_vivification_schedule(c)
=============================================================================
