-------------------------- MODULE ConflictAnalysis --------------------------
(***************************************************************************)
(* What a conflict does: find its level, derive the first unique           *)
(* implication point clause, minimise it, learn it, backtrack - as far as  *)
(* the clause allows, or chronologically - and assign the flipped literal. *)
(***************************************************************************)
EXTENDS Propagation

CONSTANT ChronoLevelLimit   \* opts.chronolevelim: longer jumps are chronological

VARIABLES
    assumptions,    \* sequence of assumed literals
    stable          \* stable mode: EVSIDS scores are used instead of the queue

-----------------------------------------------------------------------------
(* find_conflict_level: the level of the conflict, the literal it forces   *)
(* when only one is assigned there, and the two watches it moves to the    *)
(* highest levels.  Old watches stay when they are as high, except that a  *)
(* watch swapped away for a literal of the conflict level has no advantage *)
(* in the choice of the second one.                                        *)

conflict_level(t, c) == Max({LevelOf(t, lit) : lit \in c})

forced(t, c) ==
    {lit \in c : LevelOf(t, lit) = conflict_level(t, c)
                 /\ \A k \in c \ {lit} : LevelOf(t, k) < conflict_level(t, c)}

HighestPairs(t, c) ==
    {W \in kSubset(2, c) : \A k \in W, j \in c \ W : LevelOf(t, j) <= LevelOf(t, k)}

RewatchedPairs(t, c) ==
    LET kept(W) == Cardinality(W \cap watched[c])
        high == watched[c] \cap UNION HighestPairs(t, c)
        conflicting == {lit \in watched[c] : LevelOf(t, lit) = conflict_level(t, c)}
    IN  {W \in HighestPairs(t, c) :
            conflicting # {} \/ high = watched[c] =>
                \A U \in HighestPairs(t, c) : kept(U) <= kept(W)}

-----------------------------------------------------------------------------
(* analyze_reason marks the literals of a reason as seen; those of the     *)
(* current level stay open until their own reason is analyzed.             *)

analyze_reason(t, a, c, uip) ==
    LET fresh == {lit \in c \ {uip} : LevelOf(t, lit) > 0 /\ lit \notin a.seen}
        here == {lit \in fresh : LevelOf(t, lit) = Level(t)}
    IN  [a EXCEPT !.seen = @ \cup fresh, !.open = @ + Cardinality(here)]

(* One literal of the trail, met from its end, until one stays open.       *)
analyze_literal(t, a, lit) ==
    IF a.uip # 0 \/ -lit \notin a.seen \/ LevelOf(t, lit) < Level(t) THEN a
    ELSE IF a.open = 1 THEN [a EXCEPT !.uip = lit]
    ELSE analyze_reason(t, [a EXCEPT !.open = @ - 1], t.reason[vidx(lit)], lit)

Analyzed(t, c) ==
    LET a[i \in 0..Len(t.trail)] ==
            IF i = 0 THEN analyze_reason(t, [seen |-> {}, open |-> 0, uip |-> 0], c, 0)
            ELSE analyze_literal(t, a[i - 1], t.trail[Len(t.trail) - i + 1])
    IN  a[Len(t.trail)]

(* The literals of the clause other than the flipped one.                  *)
Lower(t, a) == {lit \in a.seen : LevelOf(t, lit) < Level(t)}

-----------------------------------------------------------------------------
(* minimize_literal, along the trail: a literal is redundant when its      *)
(* reason is covered by the clause, root-level literals and literals so    *)
(* covered.  Levels with a single literal, and literals at or below the    *)
(* first one of their level, are given up early.                           *)

TrailPlace(t, lit) == CHOOSE i \in DOMAIN t.trail : vidx(t.trail[i]) = vidx(lit)

(* A mutant: every implied literal is redundant.                  *)
CoveredBy_some(t, covered, lower, lit) ==
    t.reason[vidx(lit)] # NoReason /\ LevelOf(t, lit) # Level(t)

CoveredBy(t, covered, lower, lit) ==
    LET r == t.reason[vidx(lit)] IN
    /\ r # NoReason /\ LevelOf(t, lit) # Level(t)
    /\ \E k \in lower : LevelOf(t, k) = LevelOf(t, lit)
                        /\ TrailPlace(t, k) < TrailPlace(t, lit)
    /\ Negated(r \ {lit}) \subseteq covered

(* The literals covered among the first i of the trail.                    *)
Covered(t, lower) ==
    LET covered[i \in 0..Len(t.trail)] ==
            IF i = 0 THEN {}
            ELSE LET before == covered[i - 1]
                     lit == t.trail[i]
                 IN  IF \/ LevelOf(t, lit) = 0 \/ -lit \in lower
                        \/ CoveredBy(t, before, lower, lit)
                     THEN before \cup {lit} ELSE before
    IN  covered

minimize_clause(t, lower) ==
    {k \in lower : ~CoveredBy(t, Covered(t, lower)[TrailPlace(t, k) - 1], lower, -k)}

-----------------------------------------------------------------------------
(* Bumping, learning and the level to return to.                           *)

(* With the variables seen, those in the reasons of the clause's literals.  *)
bump_also_all_reason_literals(t, a) ==
    LET reasons == {t.reason[vidx(lit)] \ {-lit} : lit \in Lower(t, a) \cup {-a.uip}}
    IN  a.seen \cup {lit \in UNION reasons : LevelOf(t, lit) > 0}

(* Analyzed variables move to the end of the queue in their present order. *)
bump_variables(t, seen) ==
    IF stable THEN t ELSE bump_queue(t, {v \in Vars : {v, -v} \cap seen # {}})

(* The literals of the clause assigned last: highest level, then latest.   *)
LastAssigned(t, L) ==
    CHOOSE k \in L : \A j \in L \ {k} :
        \/ LevelOf(t, j) < LevelOf(t, k)
        \/ LevelOf(t, j) = LevelOf(t, k) /\ TrailPlace(t, j) < TrailPlace(t, k)

jump_level(t, lower) == IF lower = {} THEN 0 ELSE LevelOf(t, LastAssigned(t, lower))

(* Reusing the trail: stop below the decision level that holds the best    *)
(* variable above the jump level.                                          *)
ReuseLevels(t, jump) ==
    LET top == (t.control[jump + 1] + 1)..Len(t.trail)
        best == IF stable THEN top
                ELSE {i \in top : \A j \in top :
                        t.place[vidx(t.trail[j])] <= t.place[vidx(t.trail[i])]}
    IN  {Max({jump} \cup {k \in (jump + 1)..(Level(t) - 1) : t.control[k] < i}) : i \in best}

determine_actual_backtrack_level(t, jump) ==
    IF jump >= Level(t) - 1 \/ jump < Len(assumptions) THEN {jump}
    ELSE IF Level(t) - jump > ChronoLevelLimit THEN {Level(t) - 1}
    ELSE ReuseLevels(t, jump)

(* Learned clauses that the new one subsumes are dropped at once.          *)
eagerly_subsume(red, c) == {d \in red : ~(c \subseteq d /\ c # d)}

analyzeVars == <<s, redundant, watched, conflict>>

(* A conflict with one literal on its highest level drives that literal.   *)
AnalyzeForced ==
    /\ forced(s, conflict) # {}
    /\ conflict_level(s, conflict) > 0
    /\ \E lit \in forced(s, conflict), W \in RewatchedPairs(s, conflict) :
          /\ s' = search_assign(backtrack(s, conflict_level(s, conflict) - 1), lit, conflict)
          /\ watched' = [watched EXCEPT ![conflict] = W]
    /\ conflict' = NoConflict
    /\ UNCHANGED redundant

(* Bound by \E rather than LET, a value is computed once.                  *)
AnalyzeLearn ==
    /\ forced(s, conflict) = {}
    /\ conflict_level(s, conflict) > 0
    /\ \E t \in {backtrack(s, conflict_level(s, conflict))} :
       \E a \in {Analyzed(t, conflict)} :
       \E lower \in {minimize_clause(t, Lower(t, a))} :
       \E b \in {bump_variables(t, bump_also_all_reason_literals(t, a))} :
       \E n \in determine_actual_backtrack_level(b, jump_level(t, lower)),
          W \in RewatchedPairs(s, conflict) :
          LET c == {-a.uip} \cup lower
              unit == lower = {}
              moved == [watched EXCEPT ![conflict] = W]
          IN  /\ s' = search_assign(backtrack(b, n), -a.uip, IF unit THEN NoReason ELSE c)
              /\ redundant' = IF unit THEN redundant
                              ELSE eagerly_subsume(redundant, c) \cup ({c} \ irredundant)
              /\ watched' = [d \in irredundant \cup redundant' |->
                                IF d = c /\ ~unit THEN {-a.uip, LastAssigned(t, lower)}
                                ELSE moved[d]]
    /\ conflict' = NoConflict

ConflictAtRoot == conflict # NoConflict /\ conflict_level(s, conflict) = 0
=============================================================================
