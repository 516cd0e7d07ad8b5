---------------------------- MODULE Propagation -----------------------------
(***************************************************************************)
(* The assignment trail of the solver and its unit propagation over        *)
(* watched literals, with chronological backtracking: a literal may sit on *)
(* the trail out of order, at a level below the one it was assigned in.    *)
(*                                                                         *)
(* s is the assignment stack together with the VMTF decision queue:        *)
(*   trail, control   assigned literals; trail height below each decision  *)
(*   level, reason    per variable (0 and NoReason when unassigned)        *)
(*   propagated       how many literals of the trail are propagated        *)
(*   place            per variable, its rank in bump order (btab)          *)
(*   unassigned       the queue's pointer, queue.unassigned                *)
(*   beyond           the variables bumped after queue.bumped              *)
(***************************************************************************)
EXTENDS Clauses, FiniteSetsExt

CONSTANT Vars           \* the variables 1..max_var

ASSUME VarsAssumption == Vars \subseteq Nat \ {0} /\ IsFiniteSet(Vars)

VARIABLES
    s,              \* the assignment stack
    irredundant,    \* clauses of the formula
    redundant,      \* learned clauses
    watched,        \* the two watched literals of every clause
    conflict,       \* the falsified clause, or NoConflict
    visiting        \* watches of the literal under propagation, not yet seen

NoReason == {}
DecisionReason == {0}
NoConflict == {}

Holds == ToSet(s.trail)
HoldsIn(t) == ToSet(t.trail)
Free(t) == {v \in Vars : {v, -v} \cap HoldsIn(t) = {}}
Level(t) == Len(t.control)
LevelOf(t, lit) == t.level[vidx(lit)]
RootIn(t) == {lit \in HoldsIn(t) : LevelOf(t, lit) = 0}
Clauses == irredundant \cup redundant

EmptyStack ==
    [trail |-> <<>>, control |-> <<>>, propagated |-> 0,
     level |-> [v \in Vars |-> 0], reason |-> [v \in Vars |-> NoReason],
     place |-> [v \in Vars |-> Cardinality({w \in Vars : w <= v})],
     unassigned |-> Max(Vars), beyond |-> {}]

-----------------------------------------------------------------------------
(* The decision queue.                                                     *)

Behind(t, v) == {w \in Vars : t.place[w] > t.place[v]}

LastBumped(t, B) == CHOOSE v \in B : \A w \in B : t.place[w] <= t.place[v]

update_queue_unassigned(t, v) ==
    [t EXCEPT !.unassigned = v, !.beyond = Behind(t, v)]

(* The variables B move to the end of the queue, in their present order.   *)
Requeued(t, B) ==
    [v \in Vars |->
        IF v \in B THEN Cardinality(Vars \ B) + Cardinality({w \in B : t.place[w] <= t.place[v]})
        ELSE Cardinality({w \in Vars \ B : t.place[w] <= t.place[v]})]

(* bump_queue for each of them: the last of the queue alone is left there. *)
bump_queue(t, B) ==
    LET moved == [t EXCEPT !.place = Requeued(t, B), !.beyond = @ \cup B]
    IN  IF \E v \in Vars : B \subseteq {v} /\ Behind(t, v) = {} THEN t
        ELSE IF B \cap Free(t) = {} THEN moved
        ELSE update_queue_unassigned(moved, LastBumped(moved, B \cap Free(t)))

(* The pointer walks down the queue to the first unassigned variable.      *)
next_decision_variable_on_queue(t) ==
    LastBumped(t, Free(t) \ Behind(t, t.unassigned))

-----------------------------------------------------------------------------
(* Assigning and unassigning.                                              *)

assignment_level(t, lit, c) == Max({LevelOf(t, k) : k \in c \ {lit}} \cup {0})

(* A mutant: every literal is assigned on the current level.               *)
search_assign_current(t, lit, c) ==
    LET lvl == IF c = NoReason THEN 0 ELSE Level(t)
    IN  [t EXCEPT !.trail = Append(@, lit),
                  !.level[vidx(lit)] = lvl,
                  !.reason[vidx(lit)] =
                      IF lvl = 0 \/ c = DecisionReason THEN NoReason ELSE c]

search_assign(t, lit, c) ==
    LET lvl == IF c = NoReason THEN 0
               ELSE IF c = DecisionReason THEN Level(t)
               ELSE assignment_level(t, lit, c)
    IN  [t EXCEPT !.trail = Append(@, lit),
                  !.level[vidx(lit)] = lvl,
                  !.reason[vidx(lit)] =
                      IF lvl = 0 \/ c = DecisionReason THEN NoReason ELSE c]

search_assume_decision(t, lit) ==
    search_assign([t EXCEPT !.control = Append(@, Len(t.trail))], lit, DecisionReason)

(* A mutant: the queue's pointer stays where it is.                        *)
unassign_pointer_kept(t, gone) ==
    [t EXCEPT !.level = [v \in Vars |-> IF v \in gone THEN 0 ELSE @[v]],
              !.reason = [v \in Vars |-> IF v \in gone THEN NoReason ELSE @[v]]]

(* Unassigning moves the queue's pointer up to a variable bumped later.    *)
unassign(t, gone) ==
    LET u == [t EXCEPT !.level = [v \in Vars |-> IF v \in gone THEN 0 ELSE @[v]],
                       !.reason = [v \in Vars |-> IF v \in gone THEN NoReason ELSE @[v]]]
    IN  IF gone \cap t.beyond = {} THEN u
        ELSE update_queue_unassigned(u, LastBumped(t, gone \cap t.beyond))

(* Above the height of level n: the literals of levels that stay.          *)
Kept(t, n) == {i \in (t.control[n + 1] + 1)..Len(t.trail) : LevelOf(t, t.trail[i]) <= n}

Gone(t, n) == {vidx(t.trail[i]) : i \in ((t.control[n + 1] + 1)..Len(t.trail)) \ Kept(t, n)}

(* A mutant: the literals that are kept are not propagated again.          *)
backtrack_propagated(t, n) ==
    IF n = Level(t) THEN t
    ELSE [unassign(t, Gone(t, n)) EXCEPT
             !.trail = Subsequence(@, (1..t.control[n + 1]) \cup Kept(t, n)),
             !.control = SubSeq(@, 1, n),
             !.propagated = Min({@, t.control[n + 1] + Cardinality(Kept(t, n))})]

(* Literals of a level that stays are put back above the kept trail, to be *)
(* propagated again.                                                       *)
backtrack(t, n) ==
    IF n = Level(t) THEN t
    ELSE [unassign(t, Gone(t, n)) EXCEPT
             !.trail = Subsequence(@, (1..t.control[n + 1]) \cup Kept(t, n)),
             !.control = SubSeq(@, 1, n),
             !.propagated = Min({@, t.control[n + 1]})]

-----------------------------------------------------------------------------
(* propagate(), one step per watch.                                        *)

propagationVars == <<s, watched, conflict, visiting>>

Propagated ==
    /\ visiting = {}
    /\ conflict # NoConflict \/ s.propagated = Len(s.trail)

(* The literal that just became false.                                     *)
Falsum == -s.trail[s.propagated]

OtherWatch(c) == CHOOSE k \in watched[c] : k # Falsum

NextLiteral ==
    /\ visiting = {} /\ conflict = NoConflict
    /\ s.propagated < Len(s.trail)
    /\ LET lit == -s.trail[s.propagated + 1]
       IN  visiting' = {c \in DOMAIN watched : lit \in watched[c]}
    /\ s' = [s EXCEPT !.propagated = @ + 1]
    /\ UNCHANGED <<watched, conflict>>

VisitBinary(c) ==
    /\ Cardinality(c) = 2
    /\ visiting' = visiting \ {c}
    /\ LET other == OtherWatch(c) IN
       \/ other \in Holds /\ UNCHANGED <<s, conflict>>
       \/ -other \in Holds /\ conflict' = c /\ UNCHANGED s
       \/ vidx(other) \in Free(s) /\ s' = search_assign(s, other, c) /\ UNCHANGED conflict
    /\ UNCHANGED watched

(* A binary clause was falsified already: the first long clause ends the   *)
(* loop.                                                                   *)
StopAtLong(c) ==
    /\ Cardinality(c) > 2 /\ conflict # NoConflict
    /\ visiting' = {}
    /\ UNCHANGED <<s, watched, conflict>>

(* The blocking literal, the other watch or the replacement is true.       *)
VisitSatisfied(c) ==
    /\ Cardinality(c) > 2 /\ conflict = NoConflict
    /\ Satisfied(c, Holds)
    /\ visiting' = visiting \ {c}
    /\ UNCHANGED <<s, watched, conflict>>

ReplaceWatch(c) ==
    /\ Cardinality(c) > 2 /\ conflict = NoConflict
    /\ OtherWatch(c) \notin Holds
    /\ \E r \in c \ watched[c] :
          /\ vidx(r) \in Free(s)
          /\ watched' = [watched EXCEPT ![c] = {OtherWatch(c), r}]
    /\ visiting' = visiting \ {c}
    /\ UNCHANGED <<s, conflict>>

VisitUnit(c) ==
    LET other == OtherWatch(c) IN
    /\ Cardinality(c) > 2 /\ conflict = NoConflict
    /\ vidx(other) \in Free(s)
    /\ Falsified(c \ {other}, Holds)
    /\ s' = search_assign(s, other, c)
    /\ visiting' = visiting \ {c}
    /\ UNCHANGED <<watched, conflict>>

VisitConflict(c) ==
    /\ Cardinality(c) > 2 /\ conflict = NoConflict
    /\ Falsified(c, Holds)
    /\ conflict' = c
    /\ visiting' = {}
    /\ UNCHANGED <<s, watched>>

propagate ==
    \/ NextLiteral
    \/ \E c \in visiting :
          \/ VisitBinary(c) \/ StopAtLong(c) \/ VisitSatisfied(c)
          \/ ReplaceWatch(c) \/ VisitUnit(c) \/ VisitConflict(c)
=============================================================================
