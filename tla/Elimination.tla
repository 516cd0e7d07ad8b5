----------------------------- MODULE Elimination -----------------------------
(***************************************************************************)
(* Bounded variable elimination and instantiation.  A variable is tried in *)
(* several steps: a gate that defines it is searched for, its clauses are  *)
(* resolved - which can shorten them or yield units before anything is     *)
(* eliminated - and if few resolvents are left, they replace its clauses.  *)
(*                                                                         *)
(* Variables are tried one after the other in a round, in which only the   *)
(* irredundant clauses are connected.  Redundant clauses keep literals of  *)
(* variables that are eliminated or fixed until the round ends.            *)
(***************************************************************************)
EXTENDS ClauseDatabase

VARIABLE eliminating    \* whether a round is under way, and the variable being
                        \* tried: its literal pivot that occurs less often, or
                        \* 0, the number of its clauses, whether a gate was
                        \* found, and the clauses of it left

elimVars == <<eliminating>>

NotEliminating ==
    [round |-> FALSE, pivot |-> 0, clauses |-> 0, substitute |-> FALSE, gate |-> {}]

BetweenTries == [NotEliminating EXCEPT !.round = TRUE]

Idle == eliminating = NotEliminating

Trying == eliminating.pivot # 0

(* elim_propagate: redundant clauses are not connected in a round.          *)
elim_update(I, marked) == UpdateConnected(I, {}, redundant, marked)

ElimBounds == {0, 1, 2, 4, 8, 16}   \* lim.elimbound, from elimboundmin to elimboundmax
ElimXorLimit == 5                   \* elimxorlim
InstantiateOccLimit == 1            \* instantiateocclim

Occs(lit) == Occurring(irredundant, lit)

-----------------------------------------------------------------------------
(* Gates of a pivot.                                                       *)

Equivalences(pivot) ==
    {{{pivot, -s}, {-pivot, s}} :
        s \in {k \in ActiveLiterals : {{pivot, -k}, {-pivot, k}} \subseteq irredundant}}

AndGates(pivot) ==
    {{c} \cup {{pivot, -lit} : lit \in c \ {-pivot}} :
        c \in {d \in Occs(-pivot) : /\ Cardinality(d) > 2
                                    /\ \A lit \in d \ {-pivot} : {pivot, -lit} \in irredundant}}

IfThenElses(pivot) ==
    LET triples == Ternary(Occs(pivot))
        pairs == {p \in triples \X triples : Cardinality({vidx(lit) : lit \in p[1] \cup p[2]}) = 4}
        flipped(d, b) == {b} \cup Negated(d \ {b})
        gates(di, dj) == {{di, dj, flipped(di, b), flipped(dj, -b)} : b \in di \cap Negated(dj)}
    IN  {g \in UNION {gates(p[1], p[2]) : p \in pairs} : g \subseteq irredundant}

XorGates(pivot) ==
    LET Even(c) == {{IF lit \in N THEN -lit ELSE lit : lit \in c} :
                       N \in {M \in SUBSET c : Cardinality(M) % 2 = 0}}
    IN  {Even(c) : c \in {d \in Occs(pivot) : /\ Cardinality(d) \in 3..(ElimXorLimit + 1)
                                              /\ Even(d) \subseteq irredundant}}

(* The first kind of gate found is taken.  Whether an if-then-else is found *)
(* depends on the order of the literals in its clauses.                    *)
Gates(pivot) ==
    LET first(G, H) == IF G # {} THEN G ELSE H IN
    first(Equivalences(pivot),
    first(AndGates(pivot),
    first(AndGates(-pivot),
          IfThenElses(pivot) \cup first(XorGates(pivot), {{}}))))

(* A mutant: the literals that a gate would make equivalent are units.     *)
GateUnits_crossed(pivot) ==
    {lit \in ActiveLiterals : {{pivot, lit}, {-pivot, -lit}} \subseteq irredundant}

(* The units that marking the binary clauses of a pivot finds: two other    *)
(* literals clash, or one is the same on both sides.  The clauses of the    *)
(* negated pivot are marked only when there is no gate so far.              *)
Clashing(lit) == \E k \in ActiveLiterals : {{lit, k}, {lit, -k}} \subseteq irredundant

GateUnits(pivot) ==
    LET shared == {lit \in ActiveLiterals : {{pivot, lit}, {-pivot, lit}} \subseteq irredundant}
        gates == Equivalences(pivot) \cup AndGates(pivot)
    IN  IF Clashing(pivot) THEN {pivot}
        ELSE IF shared # {} THEN shared
        ELSE {lit \in {-pivot} : Clashing(lit) /\ gates = {}}

-----------------------------------------------------------------------------
(* try_to_eliminate_variable.                                              *)

(* A shared literal and an equivalence are found in any order.              *)
find_gate_clauses ==
    /\ ~Trying
    /\ \E v \in Active \ frozen :
          LET pivot == IF Cardinality(Occs(v)) > Cardinality(Occs(-v)) THEN -v ELSE v
              clauses == Cardinality(Occs(v)) + Cardinality(Occs(-v))
              units == IF Occs(pivot) = {} THEN {} ELSE GateUnits(pivot)
              gates == IF Occs(pivot) = {} THEN {{}} ELSE Gates(pivot)
          IN  \/ /\ \E lit \in units : elim_update(irredundant \cup {{lit}}, Unmarked)
                 /\ eliminating' = BetweenTries
              \/ /\ units = {} \/ (~Clashing(pivot) /\ Equivalences(pivot) # {})
                 /\ \E gate \in gates :
                       eliminating' = [round |-> TRUE, pivot |-> pivot, clauses |-> clauses,
                                       substitute |-> gate # {}, gate |-> gate]
                 /\ UNCHANGED clauseVars
    /\ UNCHANGED stackVars

(* Two clauses are resolved on the pivot, but not two gate clauses nor two  *)
(* others if a gate was found.                                             *)
Resolvable ==
    {p \in Occs(eliminating.pivot) \X Occs(-eliminating.pivot) :
        /\ eliminating.substitute =>
              (p[1] \in eliminating.gate) # (p[2] \in eliminating.gate)
        /\ ~Tautological(Resolvent(p[1], p[2], eliminating.pivot))}

(* The resolvent of such a pair, and the antecedents it subsumes.           *)
Resolved(p) == Resolvent(p[1], p[2], eliminating.pivot)
Shortened(p) == {c \in {p[1], p[2]} : Resolved(p) \subseteq c}

(* A resolvent that subsumes an antecedent takes its place, a unit is       *)
(* assigned: neither counts as a resolvent.  The gate keeps the clauses of  *)
(* it that are still there.                                                *)
resolve_clauses ==
    /\ Trying
    /\ \E p \in Resolvable :
          /\ Shortened(p) # {}
          /\ elim_update((irredundant \ Shortened(p)) \cup {Resolved(p)}, Unmarked)
    /\ eliminating' = [eliminating EXCEPT !.gate = Flushed(@ \cap irredundant, root')
                                                   \cap irredundant']
    /\ UNCHANGED stackVars

(* The clauses pushed, those with the pivot first.                          *)
Pushed(lit) ==
    WeakenedOn(lit, IF eliminating.substitute THEN Occs(lit) \cap eliminating.gate ELSE Occs(lit))

eliminate ==
    LET pivot == eliminating.pivot
        resolvents == {p \in Resolvable : Shortened(p) = {}}
        old == Occs(pivot) \cup Occs(-pivot)
    IN  /\ Trying /\ vidx(pivot) \in Active
        /\ resolvents = Resolvable
        /\ \E bound \in ElimBounds : Cardinality(resolvents) <= eliminating.clauses + bound
        /\ elim_update((irredundant \ old) \cup {Resolved(p) : p \in resolvents},
                       Marked({vidx(pivot)}, "eliminated"))
        /\ push_on_extension_stack(Pushed(pivot) \o Pushed(-pivot))
        /\ eliminating' = BetweenTries

(* Too many or too long resolvents, or the pivot was fixed.                 *)
give_up ==
    /\ Trying
    /\ eliminating' = BetweenTries
    /\ UNCHANGED <<clauseVars, stackVars>>

(* Resolvents subsume or strengthen other irredundant clauses.              *)
elim_backward_clause ==
    /\ eliminating = BetweenTries
    /\ \E c \in irredundant : \E d \in irredundant \ {c} :
          \/ c \subseteq d /\ elim_update(irredundant \ {d}, Unmarked)
          \/ \E lit \in c : /\ Strengthens(c, d, lit)
                            /\ elim_update((irredundant \ {d}) \cup {d \ {-lit}}, Unmarked)
    /\ UNCHANGED <<stackVars, eliminating>>

(* The end of a round, and the propagation that follows it: the other      *)
(* redundant clauses are connected again, but not those with a variable    *)
(* that is gone.                                                           *)
mark_redundant_clauses_with_eliminated_variables_as_garbage ==
    {c \in redundant : \E lit \in c : status[vidx(lit)] \in {"eliminated", "pure"}}

(* A mutant: redundant clauses with an eliminated variable stay.           *)
end_elim_round_all ==
    /\ eliminating = BetweenTries
    /\ Update(irredundant, redundant, Unmarked)
    /\ eliminating' = NotEliminating
    /\ UNCHANGED stackVars

end_elim_round ==
    /\ eliminating = BetweenTries
    /\ Update(irredundant,
              redundant \ mark_redundant_clauses_with_eliminated_variables_as_garbage, Unmarked)
    /\ eliminating' = NotEliminating
    /\ UNCHANGED stackVars

-----------------------------------------------------------------------------
(* Instantiation: a literal of few occurrences is removed from a clause     *)
(* when it is refuted together with the negation of the other literals.     *)
instantiate_candidate ==
    /\ Idle
    /\ \E c \in irredundant : \E lit \in c :
          /\ vidx(lit) \notin frozen
          /\ Cardinality(c) > 2 /\ Cardinality(Occs(lit)) <= InstantiateOccLimit
          /\ Refuted(Database, {lit} \cup Negated(c \ {lit}), Vars)
          /\ Update((irredundant \ {c}) \cup {c \ {lit}}, redundant, Unmarked)
    /\ UNCHANGED <<stackVars, eliminating>>

Eliminate ==
    \/ find_gate_clauses \/ resolve_clauses \/ eliminate \/ give_up
    \/ elim_backward_clause
=============================================================================
