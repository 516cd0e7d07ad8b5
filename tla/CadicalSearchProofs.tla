------------------------ MODULE CadicalSearchProofs -------------------------
(***************************************************************************)
(* Proofs about the search of the solver, for every set of variables and   *)
(* every sequence of calls: propagation misses no clause although levels   *)
(* are left out of order, levels and reasons are exact, the decision       *)
(* queue's pointer is sound, the counters of local search are exact, all   *)
(* that is learned follows, and every answer is one that an incremental    *)
(* solver may give: the search implements SatOracle.                       *)
(***************************************************************************)
EXTENDS CadicalSearch, FiniteSetTheorems, SequenceTheorems,
        WellFoundedInduction, TLAPS

-----------------------------------------------------------------------------
(* The inductive invariant: the assignment stack by itself.                *)

Stacks ==
    [trail : Seq(Literals(Vars)), control : Seq(Nat), propagated : Nat,
     level : [Vars -> Nat], reason : [Vars -> SUBSET Literals(Vars)],
     place : [Vars -> Nat], unassigned : Vars \cup {Max(Vars)}, beyond : SUBSET Vars]

(* No variable is on the trail twice.                                      *)
Single(t) ==
    \A i, j \in 1..Len(t.trail) : vidx(t.trail[i]) = vidx(t.trail[j]) => i = j

(* The control stack climbs, and what lies below the last decision has     *)
(* been propagated.                                                        *)
Heights(t) ==
    /\ t.propagated <= Len(t.trail)
    /\ \A k \in 1..Level(t) : t.control[k] <= t.propagated
    /\ \A j, k \in 1..Level(t) : j <= k => t.control[j] <= t.control[k]

(* A literal may sit above the height of its level, but never below it.    *)
Levels(t) ==
    \A i \in 1..Len(t.trail) :
        /\ LevelOf(t, t.trail[i]) <= Level(t)
        /\ \A k \in 1..LevelOf(t, t.trail[i]) : t.control[k] < i

ReasonOf(t, i) == t.reason[vidx(t.trail[i])]

(* The other literals of a reason became false earlier on the trail.       *)
Reasons(t) ==
    \A i \in 1..Len(t.trail) : ReasonOf(t, i) # NoReason =>
        /\ t.trail[i] \in ReasonOf(t, i)
        /\ LevelOf(t, t.trail[i]) > 0
        /\ LevelOf(t, t.trail[i]) = assignment_level(t, t.trail[i], ReasonOf(t, i))
        /\ \A k \in ReasonOf(t, i) \ {t.trail[i]} : \E j \in 1..(i - 1) : t.trail[j] = -k

(* A literal without a reason is the decision that opens its level.        *)
Decisions(t) ==
    \A i \in 1..Len(t.trail) :
        ReasonOf(t, i) = NoReason /\ LevelOf(t, t.trail[i]) > 0 =>
            /\ i = t.control[LevelOf(t, t.trail[i])] + 1
            /\ \A k \in (LevelOf(t, t.trail[i]) + 1)..Level(t) : i <= t.control[k]

(* The variables bumped after queue.bumped are the last of the queue.      *)
Queue(t) ==
    /\ \A v, w \in Vars : t.place[v] = t.place[w] => v = w
    /\ \A v \in t.beyond, w \in Vars : t.place[w] >= t.place[v] => w \in t.beyond
    /\ Behind(t, t.unassigned) \subseteq t.beyond
    /\ t.beyond \cap Free(t) = {}

Stack(t) ==
    /\ t \in Stacks
    /\ Single(t) /\ Heights(t) /\ Levels(t) /\ Reasons(t) /\ Decisions(t) /\ Queue(t)

-----------------------------------------------------------------------------
(* The inductive invariant: clauses and their watches.                     *)

LongClauses == {c \in SUBSET Literals(Vars) : Cardinality(c) > 1}

Database ==
    /\ irredundant \subseteq LongClauses /\ redundant \subseteq LongClauses
    /\ watched \in [Clauses -> SUBSET Literals(Vars)]
    /\ \A c \in Clauses : watched[c] \in kSubset(2, c)

Quiet == visiting = {} /\ conflict = NoConflict

(* A visited watch is that of the literal propagated last, which lies      *)
(* above the last decision; so does the cause of a conflict.               *)
Visits ==
    /\ visiting \subseteq Clauses
    /\ ~Quiet =>
        s.propagated >= 1 /\ \A k \in 1..Level(s) : s.control[k] < s.propagated
    /\ \A c \in visiting : Falsum \in watched[c]
    /\ conflict # NoConflict => conflict \in Clauses /\ Falsified(conflict, Holds)

(* Whatever watch is false among the first m literals of the trail, the    *)
(* clause has a true literal that is left no sooner: when the level k goes *)
(* and the false literal stays, then so does the true one, because of its  *)
(* place on the trail or because of its level.                             *)
Guarded(t, c, W, m) ==
    \A w \in W : \A i \in 1..m : t.trail[i] = -w =>
        \E j \in 1..Len(t.trail) :
            /\ t.trail[j] \in c
            /\ \A k \in 1..Level(t) : i <= t.control[k] =>
                  j <= t.control[k] \/ LevelOf(t, t.trail[j]) < k

Visited(c) ==
    IF conflict # NoConflict \/ c \in visiting THEN s.propagated - 1 ELSE s.propagated

Watches == ~unsat => \A c \in Clauses : Guarded(s, c, watched[c], Visited(c))

Core == Stack(s) /\ Database /\ Visits /\ Watches

-----------------------------------------------------------------------------
(* The inductive invariant: where the solver stands.                       *)

Typed ==
    /\ pc \in {"idle", "add", "unit", "root", "start_walk", "start_rephase", "walk",
               "saved", "produce", "lucky", "search", "reduce"}
    /\ plan \in Seq([add : Seq(Seq(Literals(Vars))), assume : Seq(Literals(Vars)),
                     localsearch : Nat])
    /\ input \in Seq(Seq(Literals(Vars)))
    /\ assumptions \in Seq(Literals(Vars))
    /\ result \in {-1, 0, 10, 20} /\ failed \subseteq ToSet(assumptions)
    /\ DOMAIN walk = DOMAIN NoWalk
    /\ pc \in {"lucky", "start_walk", "saved"} => luck \in 1..9
    /\ pc = "walk" /\ walk.from # "rephase" => luck \in 1..9

(* The level of an assumption has its literal, or a lower level has it.    *)
Assumed ==
    \A k \in 1..Level(s) : k <= Len(assumptions) =>
        assumptions[k] \in Holds /\ LevelOf(s, assumptions[k]) <= k

Complete == Quiet /\ s.propagated = Len(s.trail)

(* The root level literals are those below the first decision.             *)
RootBelow ==
    \A i \in 1..Len(s.trail) : LevelOf(s, s.trail[i]) = 0 =>
        \A k \in 1..Level(s) : i <= s.control[k]

Consistent(A) == \A lit \in A : -lit \notin A

(* Propagation will only assign literals of A, and run into no conflict.   *)
Extends(A) ==
    /\ Consistent(A) /\ Holds \subseteq A
    /\ \A c \in Clauses : c \cap A # {} \/ \E k, l \in c : k # l /\ -k \notin A /\ -l \notin A

(* The assumptions contradict each other or falsify a clause.              *)
Hopeless ==
    \/ \E i \in 1..Len(assumptions) : -assumptions[i] \in Root
    \/ \E i, j \in 1..Len(assumptions) : assumptions[j] = -assumptions[i]
    \/ \E c \in irredundant : Falsified(c, ToSet(assumptions))

Phases ==
    /\ pc \in {"idle", "add"} \/ unsat => Quiet
    /\ pc \in {"add", "unit", "root", "start_walk", "start_rephase", "walk"} => Level(s) = 0
    /\ pc \in {"start_walk", "start_rephase", "walk", "saved", "lucky", "reduce"} => ~unsat
    /\ pc \in {"saved", "lucky"} => RootBelow /\ (Level(s) = 0 => Complete)
    /\ pc = "reduce" /\ Level(s) > 0 => RootBelow /\ Complete
    /\ pc \in {"start_walk", "start_rephase", "reduce"} =>
        conflict = NoConflict /\ \E A \in SUBSET Literals(Vars) : Extends(A)
    /\ pc = "walk" => Complete /\ \A c \in Clauses : \A lit \in c : vidx(lit) \in Free(s)
    /\ pc = "walk" /\ walk.failed => Hopeless
    /\ pc = "produce" => Hopeless

(* Nothing that was added is lost.                                         *)
Formula ==
    ~unsat => \A A \in Assignments(Vars) :
        Root \subseteq A /\ (\A c \in irredundant : Satisfied(c, A)) =>
            \A c \in formula : Satisfied(c, A)

(* A satisfies what the stack t has fixed and why.                         *)
Obeys(t, A) ==
    /\ RootIn(t) \subseteq A
    /\ \A lit \in HoldsIn(t) : t.reason[vidx(lit)] # NoReason =>
          Satisfied(t.reason[vidx(lit)], A)

(* Nothing that was derived rules A out.                                   *)
Fits(A) == ~unsat /\ Obeys(s, A) /\ \A c \in Clauses : Satisfied(c, A)

(* Nothing is derived that does not follow from what was added.            *)
Follows == \A A \in Models(formula, Vars) : Fits(A)

(* The decisions on the levels of the assumptions are the assumptions.     *)
Assumes ==
    \A lit \in Holds :
        s.reason[vidx(lit)] = NoReason /\ LevelOf(s, lit) \in 1..Len(assumptions) =>
            lit = assumptions[LevelOf(s, lit)]

(* A call is under way until it has an answer.                             *)
Calls ==
    /\ pc = "idle" <=> result # Oracle!Running
    /\ pc \notin {"add", "unit"} => input = <<>>

(* Answer 10.                                                              *)
ModelFound ==
    result = 10 =>
        pc = "idle" /\ Holds \in Models(formula \cup Units(ToSet(assumptions)), Vars)

IInv ==
    /\ Core /\ Typed /\ Assumed /\ Phases /\ BrokenExact /\ Formula /\ ModelFound
    /\ Follows /\ Assumes /\ Calls

-----------------------------------------------------------------------------
(* Literals, numbers, and subsequences.                                    *)

(* A literal is a variable or its negation, and never zero.                *)
LEMMA LiteralFacts ==
    /\ \A v \in Vars : /\ v \in Nat /\ v > 0 /\ v \in Literals(Vars) /\ -v \in Literals(Vars)
                       /\ vidx(v) = v /\ vidx(-v) = v
    /\ \A lit \in Literals(Vars) :
          /\ lit \in Int /\ lit # 0 /\ -lit \in Literals(Vars) /\ -(-lit) = lit
          /\ vidx(lit) \in Vars /\ vidx(-lit) = vidx(lit)
          /\ lit = vidx(lit) \/ lit = -vidx(lit)
    /\ \A k, lit \in Literals(Vars) : vidx(k) = vidx(lit) => k = lit \/ k = -lit
<1>1. \A v \in Vars : v \in Nat /\ v > 0
  BY VarsAssumption
<1>2. \A lit \in Literals(Vars) : \E v \in Vars : lit = v \/ lit = -v
  BY DEF Literals, Negated
<1>3. \A v \in Vars : v \in Literals(Vars) /\ -v \in Literals(Vars)
  BY DEF Literals, Negated
<1> QED BY <1>1, <1>2, <1>3 DEF vidx

(* A bounded set of numbers has a largest element, which Max denotes.      *)
LEMMA MaxOfNats ==
    ASSUME NEW S, S \subseteq Nat, S # {}, NEW b \in Nat, \A x \in S : x <= b
    PROVE  Max(S) \in S /\ \A y \in S : y <= Max(S)
<1> DEFINE T == {b - x : x \in S}
           R == OpToRel(<, Nat)
<1>1. T \subseteq Nat /\ T # {}
  OBVIOUS
<1>2. PICK t \in T : \A y \in T : <<y, t>> \notin R
  BY <1>1, NatLessThanWellFounded, WFMin
<1>3. PICK m \in S : t = b - m
  OBVIOUS
<1>4. ASSUME NEW y \in S
      PROVE  m >= y
  <2>1. ~(b - y < b - m)
    BY <1>1, <1>2, <1>3 DEF OpToRel
  <2> QED BY <2>1
<1>5. \E x \in S : \A y \in S : x >= y
  BY <1>4
<1> QED BY <1>5 DEF Max

(* A set of numbers has a least element, which Min denotes.                *)
LEMMA MinOfNats ==
    ASSUME NEW S, S \subseteq Nat, S # {}
    PROVE  Min(S) \in S /\ \A y \in S : Min(S) <= y
<1> DEFINE R == OpToRel(<, Nat)
<1>1. PICK m \in S : \A y \in S : <<y, m>> \notin R
  BY NatLessThanWellFounded, WFMin
<1>2. ASSUME NEW y \in S
      PROVE  m <= y
  <2>1. y \in Nat /\ m \in Nat
    OBVIOUS
  <2>2. ~(y < m)
    BY <1>1, <2>1 DEF OpToRel
  <2> QED BY <2>1, <2>2
<1>3. \E x \in S : \A y \in S : x <= y
  BY <1>2
<1> QED BY <1>3 DEF Min

(* The elements of a set of positions are numbered in ascending order.     *)
LEMMA NthFacts ==
    ASSUME NEW n \in Nat, NEW P, P \subseteq 1..n
    PROVE  /\ Cardinality(P) \in 0..n
           /\ \A i \in 1..Cardinality(P) : Nth(P, i) \in P
           /\ \A p \in P : LET i == Cardinality({q \in P : q < p}) + 1
                          IN  i \in 1..Cardinality(P) /\ Nth(P, i) = p
           /\ \A i, j \in 1..Cardinality(P) : i < j <=> Nth(P, i) < Nth(P, j)
<1> DEFINE m == Cardinality(P)
           below(v) == {w \in P : w < v}
           rank == [v \in P |-> Cardinality(below(v)) + 1]
<1>1. IsFiniteSet(P) /\ m \in Nat /\ m <= n /\ P \subseteq Nat
  <2>1. IsFiniteSet(1..n) /\ Cardinality(1..n) = n
    BY FS_Interval
  <2>2. IsFiniteSet(P) /\ Cardinality(P) <= n
    BY <2>1, FS_Subset, P \in SUBSET (1..n)
  <2>3. m \in Nat
    BY <2>2, FS_CardinalityType
  <2> QED BY <2>2, <2>3
<1>2. ASSUME NEW v \in P
      PROVE  IsFiniteSet(below(v)) /\ Cardinality(below(v)) \in 0..(m - 1)
  <2>1. IsFiniteSet(P \ {v}) /\ Cardinality(P \ {v}) = m - 1
    BY <1>1, FS_RemoveElement
  <2>2. below(v) \subseteq P \ {v}
    BY <1>1
  <2>3. IsFiniteSet(below(v)) /\ Cardinality(below(v)) <= m - 1
    BY <2>1, <2>2, FS_Subset
  <2> QED BY <1>1, <2>3, FS_CardinalityType
<1>3. ASSUME NEW v \in P, NEW u \in P, v < u
      PROVE  Cardinality(below(v)) < Cardinality(below(u))
  <2>1. \A w \in P : w \in Nat
    BY <1>1
  <2>2. \A w \in P : w < v => w < u
    BY <1>3, <2>1
  <2>3. below(v) \subseteq below(u)
    BY <2>2
  <2>4. v \in below(u) /\ v \notin below(v)
    BY <1>3, <2>1
  <2>6. IsFiniteSet(below(u)) /\ below(v) \in SUBSET below(u) /\ below(v) # below(u)
    BY <1>2, <2>3, <2>4
  <2>5. Cardinality(below(v)) \in Nat /\ Cardinality(below(u)) \in Nat
    BY <1>2, <1>1
  <2> HIDE DEF below
  <2> QED BY <2>5, <2>6, FS_Subset
<1>4. \A v, u \in P : Cardinality(below(v)) < Cardinality(below(u)) <=> v < u
  <2> SUFFICES ASSUME NEW v \in P, NEW u \in P
               PROVE  Cardinality(below(v)) < Cardinality(below(u)) <=> v < u
    OBVIOUS
  <2>1. v < u \/ u < v \/ u = v
    BY <1>1
  <2>2. Cardinality(below(v)) \in Nat /\ Cardinality(below(u)) \in Nat
    BY <1>1, <1>2
  <2>3. v \in Nat /\ u \in Nat
    BY <1>1
  <2> HIDE DEF below
  <2> QED BY <1>3, <2>1, <2>2, <2>3
<1>5. \A v, u \in P : Cardinality(below(v)) = Cardinality(below(u)) => v = u
  <2> SUFFICES ASSUME NEW v \in P, NEW u \in P, v # u
               PROVE  Cardinality(below(v)) # Cardinality(below(u))
    OBVIOUS
  <2>1. v < u \/ u < v
    BY <1>1
  <2>2. Cardinality(below(v)) \in Nat /\ Cardinality(below(u)) \in Nat
    BY <1>1, <1>2
  <2> HIDE DEF below
  <2> QED BY <1>3, <2>1, <2>2
<1>6. rank \in Injection(P, 1..m)
  <2>1. rank \in [P -> 1..m]
    BY <1>1, <1>2
  <2>2. \A v, u \in P : rank[v] = rank[u] => v = u
    <3> HIDE DEF below
    <3> QED BY <1>2, <1>5
  <2> HIDE DEF rank
  <2> QED BY <2>1, <2>2 DEF Injection, IsInjective
<1>7. rank \in Surjection(P, 1..m)
  <2>1. IsFiniteSet(1..m) /\ Cardinality(1..m) = m
    BY <1>1, FS_Interval
  <2> QED BY <1>6, <2>1, FS_Injection
<1>8. \A i \in 1..m : \E v \in P : rank[v] = i
  BY <1>7 DEF Surjection
<1>9. ASSUME NEW i \in 1..m
      PROVE  Nth(P, i) \in P /\ Cardinality(below(Nth(P, i))) = i - 1
  <2>1. Nth(P, i) = CHOOSE v \in P : Cardinality(below(v)) = i - 1
    BY DEF Nth
  <2>2. \E v \in P : Cardinality(below(v)) = i - 1
    <3>1. PICK v \in P : rank[v] = i
      BY <1>8
    <3>2. Cardinality(below(v)) \in Nat /\ rank[v] = Cardinality(below(v)) + 1
      BY <1>1, <1>2
    <3> HIDE DEF below, rank
    <3>3. Cardinality(below(v)) = i - 1
      BY <3>1, <3>2
    <3> QED BY <3>3
  <2> HIDE DEF below
  <2> QED BY <2>1, <2>2
<1>10. ASSUME NEW p \in P
       PROVE  Cardinality(below(p)) + 1 \in 1..m /\ Nth(P, Cardinality(below(p)) + 1) = p
  <2> DEFINE i == Cardinality(below(p)) + 1
  <2>1. i \in 1..m /\ Cardinality(below(p)) = i - 1
    BY <1>1, <1>2
  <2> HIDE DEF below, i
  <2>2. Nth(P, i) = p
    BY <1>5, <1>9, <2>1
  <2> QED BY <2>1, <2>2 DEF i
<1>11. ASSUME NEW i \in 1..m, NEW j \in 1..m
       PROVE  i < j <=> Nth(P, i) < Nth(P, j)
  <2> DEFINE u == Nth(P, i)
             v == Nth(P, j)
  <2>1. u \in P /\ v \in P /\ Cardinality(below(u)) = i - 1 /\ Cardinality(below(v)) = j - 1
    BY <1>9
  <2>2. i \in Int /\ j \in Int
    BY <1>1
  <2> HIDE DEF below, u, v
  <2>3. i - 1 < j - 1 <=> u < v
    BY <1>4, <2>1
  <2>4. i < j <=> u < v
    BY <2>2, <2>3
  <2> QED BY <2>4 DEF u, v
<1>12. m \in 0..n
  BY <1>1
<1>13. /\ m \in 0..n
       /\ \A i \in 1..m : Nth(P, i) \in P
       /\ \A p \in P : Cardinality(below(p)) + 1 \in 1..m
                       /\ Nth(P, Cardinality(below(p)) + 1) = p
       /\ \A i, j \in 1..m : i < j <=> Nth(P, i) < Nth(P, j)
  <2> HIDE DEF below
  <2> QED BY <1>9, <1>10, <1>11, <1>12
<1> QED BY <1>13, Zenon

(* Positions kept below the height a stay where they are.                  *)
LEMMA KeptPositions ==
    ASSUME NEW n \in Nat, NEW a \in 0..n, NEW K, K \subseteq (a + 1)..n
    PROVE  LET P == (1..a) \cup K IN
           /\ Cardinality(P) \in a..n
           /\ \A i \in 1..Cardinality(P) : Nth(P, i) \in P
           /\ \A i \in 1..a : Nth(P, i) = i
           /\ \A i \in (a + 1)..Cardinality(P) : Nth(P, i) \in K
           /\ \A p \in P : \E i \in 1..Cardinality(P) : Nth(P, i) = p
           /\ \A i, j \in 1..Cardinality(P) : i < j <=> Nth(P, i) < Nth(P, j)
<1> DEFINE P == (1..a) \cup K
           m == Cardinality(P)
           below(p) == {q \in P : q < p}
<1>1. P \subseteq 1..n
  OBVIOUS
<1>2. /\ m \in 0..n
      /\ \A i \in 1..m : Nth(P, i) \in P
      /\ \A p \in P : Cardinality(below(p)) + 1 \in 1..m /\ Nth(P, Cardinality(below(p)) + 1) = p
      /\ \A i, j \in 1..m : i < j <=> Nth(P, i) < Nth(P, j)
  <2> HIDE DEF P
  <2> QED BY <1>1, NthFacts
<1>3. ASSUME NEW i \in 1..a
      PROVE  i \in 1..m /\ Nth(P, i) = i
  <2>4. i \in P /\ i \in Nat
    OBVIOUS
  <2>5. \A q : q \in P /\ q < i <=> q \in 1..(i - 1)
    <3>1. ASSUME NEW q \in P, q < i
          PROVE  q \in 1..(i - 1)
      BY <3>1, q \in 1..n, q \in 1..a \/ q \in (a + 1)..n
    <3>2. ASSUME NEW q \in 1..(i - 1)
          PROVE  q \in P /\ q < i
      <4>1. q \in 1..a /\ q < i
        OBVIOUS
      <4> QED BY <4>1
    <3> HIDE DEF P
    <3> QED BY <3>1, <3>2
  <2>1. below(i) = 1..(i - 1)
    BY <2>5, Zenon
  <2>2. Cardinality(1..(i - 1)) = i - 1
    BY FS_Interval
  <2> HIDE DEF P, m, below
  <2>3. Cardinality(below(i)) + 1 = i
    BY <2>1, <2>2, <2>4
  <2> QED BY <1>2, <2>3, <2>4
<1>4. m \in a..n
  <2>1. CASE a = 0
    BY <1>2, <2>1
  <2>2. CASE a # 0
    <3>1. a \in 1..a
      BY <2>2
    <3>2. a \in 1..m
      BY <1>3, <3>1
    <3> HIDE DEF m
    <3> QED BY <1>2, <3>2
  <2> QED BY <2>1, <2>2
<1>5. ASSUME NEW i \in (a + 1)..m
      PROVE  Nth(P, i) \in K
  <2>1. i \in 1..m
    BY <1>4
  <2>2. Nth(P, i) \in P
    BY <1>2, <2>1
  <2>3. CASE a = 0
    BY <2>2, <2>3
  <2>4. CASE a # 0
    <3>1. a \in 1..a /\ a \in 1..m /\ a < i
      BY <1>3, <2>4
    <3>2. Nth(P, a) < Nth(P, i) /\ Nth(P, a) = a
      BY <1>2, <1>3, <2>1, <3>1
    <3> DEFINE p == Nth(P, i)
    <3>3. p \in P /\ a < p
      BY <2>2, <3>2
    <3> HIDE DEF p
    <3>4. p \in K
      BY <3>3
    <3> QED BY <3>4 DEF p
  <2> QED BY <2>3, <2>4
<1>6. \A p \in P : \E i \in 1..m : Nth(P, i) = p
  BY <1>2
<1> HIDE DEF P
<1>7. /\ m \in a..n
      /\ \A i \in 1..m : Nth(P, i) \in P
      /\ \A i \in 1..a : Nth(P, i) = i
      /\ \A i \in (a + 1)..m : Nth(P, i) \in K
      /\ \A p \in P : \E i \in 1..m : Nth(P, i) = p
      /\ \A i, j \in 1..m : i < j <=> Nth(P, i) < Nth(P, j)
  BY <1>2, <1>3, <1>4, <1>5, <1>6
<1> QED BY <1>7 DEF P

-----------------------------------------------------------------------------
(* The assignment stack: its fields and levels.                            *)

(* What the type of a stack says of its parts.                             *)
LEMMA StackFields ==
    ASSUME NEW t \in Stacks
    PROVE  /\ t.trail \in Seq(Literals(Vars)) /\ t.control \in Seq(Nat) /\ t.propagated \in Nat
           /\ t.level \in [Vars -> Nat] /\ t.reason \in [Vars -> SUBSET Literals(Vars)]
           /\ t.place \in [Vars -> Nat] /\ t.unassigned \in Vars \cup {Max(Vars)}
           /\ t.beyond \subseteq Vars
           /\ Len(t.trail) \in Nat /\ Level(t) \in Nat
           /\ \A i \in 1..Len(t.trail) : t.trail[i] \in Literals(Vars)
           /\ \A k \in 1..Level(t) : t.control[k] \in Nat
           /\ HoldsIn(t) = {t.trail[i] : i \in 1..Len(t.trail)}
           /\ HoldsIn(t) \subseteq Literals(Vars)
           /\ \A lit \in Literals(Vars) :
                 /\ LevelOf(t, lit) \in Nat /\ LevelOf(t, -lit) = LevelOf(t, lit)
                 /\ t.reason[vidx(lit)] \subseteq Literals(Vars)
                 /\ vidx(lit) \in Free(t) <=> lit \notin HoldsIn(t) /\ -lit \notin HoldsIn(t)
<1>1. /\ t.trail \in Seq(Literals(Vars)) /\ t.control \in Seq(Nat) /\ t.propagated \in Nat
      /\ t.level \in [Vars -> Nat] /\ t.reason \in [Vars -> SUBSET Literals(Vars)]
      /\ t.place \in [Vars -> Nat] /\ t.unassigned \in Vars \cup {Max(Vars)}
      /\ t.beyond \subseteq Vars
  BY DEF Stacks
<1>2. /\ Len(t.trail) \in Nat /\ DOMAIN t.trail = 1..Len(t.trail)
      /\ \A i \in 1..Len(t.trail) : t.trail[i] \in Literals(Vars)
  BY <1>1, LenProperties, ElementOfSeq
<1>3. Level(t) \in Nat /\ \A k \in 1..Level(t) : t.control[k] \in Nat
  BY <1>1, LenProperties, ElementOfSeq DEF Level
<1>4. HoldsIn(t) = {t.trail[i] : i \in 1..Len(t.trail)}
  BY <1>2 DEF HoldsIn, ToSet
<1>5. HoldsIn(t) \subseteq Literals(Vars)
  BY <1>2, <1>4
<1>6. ASSUME NEW lit \in Literals(Vars)
      PROVE  /\ LevelOf(t, lit) \in Nat /\ LevelOf(t, -lit) = LevelOf(t, lit)
             /\ t.reason[vidx(lit)] \subseteq Literals(Vars)
             /\ vidx(lit) \in Free(t) <=> lit \notin HoldsIn(t) /\ -lit \notin HoldsIn(t)
  <2>1. vidx(lit) \in Vars /\ vidx(-lit) = vidx(lit)
    BY LiteralFacts
  <2>2. lit = vidx(lit) \/ lit = -vidx(lit)
    BY LiteralFacts
  <2>3. lit \in Int /\ vidx(lit) \in Int
    BY LiteralFacts
  <2>4. {vidx(lit), -vidx(lit)} = {lit, -lit}
    <3> DEFINE v == vidx(lit)
    <3>1. lit \in Int /\ v \in Int /\ (lit = v \/ lit = -v)
      BY <2>2, <2>3
    <3> HIDE DEF v
    <3>2. {v, -v} = {lit, -lit}
      BY <3>1
    <3> QED BY <3>2 DEF v
  <2>5. vidx(lit) \in Free(t) <=> {lit, -lit} \cap HoldsIn(t) = {}
    BY <2>1, <2>4, Zenon DEF Free
  <2> QED BY <1>1, <2>1, <2>5 DEF LevelOf
<1> QED BY <1>1, <1>2, <1>3, <1>4, <1>5, <1>6

(* The assignment level of a literal is the highest level of the other     *)
(* literals of its reason, and no higher than the present one.             *)
LEMMA AssignmentLevel ==
    ASSUME NEW t \in Stacks, Levels(t), NEW lit \in Literals(Vars),
           NEW r \in SUBSET Literals(Vars), \A k \in r \ {lit} : -k \in HoldsIn(t)
    PROVE  /\ assignment_level(t, lit, r) \in 0..Level(t)
           /\ \A k \in r \ {lit} : LevelOf(t, k) <= assignment_level(t, lit, r)
           /\ assignment_level(t, lit, r) # 0 =>
                 \E k \in r \ {lit} : LevelOf(t, k) = assignment_level(t, lit, r)
<1> DEFINE S == {LevelOf(t, k) : k \in r \ {lit}} \cup {0}
<1>1. ASSUME NEW k \in r \ {lit}
      PROVE  LevelOf(t, k) \in 0..Level(t)
  <2>1. PICK i \in 1..Len(t.trail) : t.trail[i] = -k
    BY StackFields
  <2>2. LevelOf(t, -k) <= Level(t)
    BY <2>1 DEF Levels
  <2>3. LevelOf(t, k) \in Nat /\ LevelOf(t, -k) = LevelOf(t, k) /\ Level(t) \in Nat
    BY StackFields
  <2> QED BY <2>2, <2>3
<1>2. Level(t) \in Nat
  BY StackFields
<1>3. S \subseteq 0..Level(t) /\ 0 \in S
  BY <1>1, <1>2
<1>4. Max(S) \in S /\ \A y \in S : y <= Max(S)
  <2>1. S \subseteq Nat /\ S # {} /\ \A x \in S : x <= Level(t)
    BY <1>2, <1>3
  <2> HIDE DEF S
  <2> QED BY <1>2, <2>1, MaxOfNats
<1>5. assignment_level(t, lit, r) = Max(S)
  BY DEF assignment_level
<1> DEFINE m == Max(S)
<1> HIDE DEF m
<1>6. /\ m \in S /\ \A y \in S : y <= m
  BY <1>4 DEF m
<1>7. m \in 0..Level(t) /\ (\A k \in r \ {lit} : LevelOf(t, k) <= m)
      /\ (m # 0 => \E k \in r \ {lit} : LevelOf(t, k) = m)
  BY <1>3, <1>6
<1> QED BY <1>5, <1>7 DEF m

(* It depends on the levels of the other literals only.                    *)
LEMMA SameAssignmentLevel ==
    ASSUME NEW t, NEW u, NEW lit, NEW r, NEW q, r \ {lit} = q \ {lit},
           \A k \in r \ {lit} : LevelOf(u, k) = LevelOf(t, k)
    PROVE  assignment_level(u, lit, q) = assignment_level(t, lit, r)
<1>1. {LevelOf(u, k) : k \in q \ {lit}} = {LevelOf(t, k) : k \in r \ {lit}}
  OBVIOUS
<1> QED BY <1>1, Zenon DEF assignment_level

(* search_assign: the fields of the stack after it.                        *)
LEMMA AssignFields ==
    ASSUME NEW t \in Stacks, NEW lit \in Literals(Vars), NEW c,
           NEW lvl, lvl = IF c = NoReason THEN 0
                          ELSE IF c = DecisionReason THEN Level(t)
                          ELSE assignment_level(t, lit, c),
           NEW r, r = IF lvl = 0 \/ c = DecisionReason THEN NoReason ELSE c
    PROVE  LET u == search_assign(t, lit, c) IN
           /\ u.trail = Append(t.trail, lit) /\ u.control = t.control
           /\ u.propagated = t.propagated
           /\ u.level = [t.level EXCEPT ![vidx(lit)] = lvl]
           /\ u.reason = [t.reason EXCEPT ![vidx(lit)] = r]
           /\ u.place = t.place /\ u.unassigned = t.unassigned /\ u.beyond = t.beyond
           /\ lvl \in Nat /\ r \in SUBSET Literals(Vars) => u \in Stacks
<1> DEFINE u == [t EXCEPT !.trail = Append(t.trail, lit),
                          !.level = [t.level EXCEPT ![vidx(lit)] = lvl],
                          !.reason = [t.reason EXCEPT ![vidx(lit)] = r]]
<1>1. search_assign(t, lit, c) = u
  BY DEF search_assign
<1>2. /\ u.trail = Append(t.trail, lit) /\ u.control = t.control
      /\ u.propagated = t.propagated
      /\ u.level = [t.level EXCEPT ![vidx(lit)] = lvl]
      /\ u.reason = [t.reason EXCEPT ![vidx(lit)] = r]
      /\ u.place = t.place /\ u.unassigned = t.unassigned /\ u.beyond = t.beyond
  BY DEF Stacks
<1>3. ASSUME lvl \in Nat, r \in SUBSET Literals(Vars)
      PROVE  u \in Stacks
  <2>1. Append(t.trail, lit) \in Seq(Literals(Vars))
    BY StackFields, AppendProperties
  <2>2. [t.level EXCEPT ![vidx(lit)] = lvl] \in [Vars -> Nat]
    BY StackFields, <1>3
  <2>3. [t.reason EXCEPT ![vidx(lit)] = r] \in [Vars -> SUBSET Literals(Vars)]
    BY StackFields, <1>3
  <2> QED BY <2>1, <2>2, <2>3 DEF Stacks
<1> QED BY <1>1, <1>2, <1>3

(* What may be assigned: a unit, the decision of a level just opened, or a *)
(* literal whose reason's other literals are false.                        *)
Assignable(t, lit, c) ==
    /\ lit \in Literals(Vars) /\ vidx(lit) \in Free(t)
    /\ \/ c = NoReason
       \/ c = DecisionReason /\ Level(t) > 0 /\ t.control[Level(t)] = Len(t.trail)
       \/ c \in SUBSET Literals(Vars) /\ lit \in c /\ \A k \in c \ {lit} : -k \in HoldsIn(t)

LevelFor(t, lit, c) ==
    IF c = NoReason THEN 0
    ELSE IF c = DecisionReason THEN Level(t) ELSE assignment_level(t, lit, c)

ReasonFor(t, lit, c) ==
    IF LevelFor(t, lit, c) = 0 \/ c = DecisionReason THEN NoReason ELSE c

(* The level and the reason that search_assign records.                    *)
LEMMA AssignTypes ==
    ASSUME NEW t \in Stacks, Levels(t), NEW lit, NEW c, Assignable(t, lit, c)
    PROVE  /\ LevelFor(t, lit, c) \in 0..Level(t)
           /\ ReasonFor(t, lit, c) \in SUBSET Literals(Vars)
           /\ c # NoReason /\ c # DecisionReason =>
                 /\ LevelFor(t, lit, c) = assignment_level(t, lit, c)
                 /\ c \in SUBSET Literals(Vars) /\ lit \in c
                 /\ \A k \in c \ {lit} : -k \in HoldsIn(t)
<1>1. Level(t) \in Nat /\ lit \in Literals(Vars)
  BY StackFields DEF Assignable
<1>2. CASE c = NoReason
  <2>1. LevelFor(t, lit, c) = 0
    BY <1>2 DEF LevelFor
  <2> QED BY <1>1, <1>2, <2>1 DEF ReasonFor, NoReason
<1>3. CASE c = DecisionReason
  <2>1. c # NoReason
    BY <1>3 DEF DecisionReason, NoReason
  <2>2. LevelFor(t, lit, c) = Level(t)
    BY <1>3, <2>1 DEF LevelFor
  <2> QED BY <1>1, <1>3, <2>2 DEF ReasonFor, NoReason
<1>4. CASE c # NoReason /\ c # DecisionReason
  <2>1. c \in SUBSET Literals(Vars) /\ lit \in c /\ \A k \in c \ {lit} : -k \in HoldsIn(t)
    BY <1>4 DEF Assignable
  <2>2. LevelFor(t, lit, c) = assignment_level(t, lit, c)
    BY <1>4 DEF LevelFor
  <2>3. assignment_level(t, lit, c) \in 0..Level(t)
    BY <1>1, <2>1, AssignmentLevel
  <2> QED BY <2>1, <2>2, <2>3 DEF ReasonFor, NoReason
<1> QED BY <1>2, <1>3, <1>4

(* What search_assign does to a stack.                                     *)
LEMMA AssignResult ==
    ASSUME NEW t \in Stacks, Levels(t), NEW lit, NEW c, Assignable(t, lit, c)
    PROVE  LET u == search_assign(t, lit, c) IN
           /\ u \in Stacks
           /\ u.control = t.control /\ Level(u) = Level(t) /\ u.propagated = t.propagated
           /\ u.place = t.place /\ u.unassigned = t.unassigned /\ u.beyond = t.beyond
           /\ Len(u.trail) = Len(t.trail) + 1
           /\ \A i \in 1..Len(t.trail) : u.trail[i] = t.trail[i]
           /\ u.trail[Len(t.trail) + 1] = lit
           /\ HoldsIn(u) = HoldsIn(t) \cup {lit} /\ Free(u) \subseteq Free(t)
           /\ LevelOf(u, lit) = LevelFor(t, lit, c) /\ u.reason[vidx(lit)] = ReasonFor(t, lit, c)
           /\ \A k \in Literals(Vars) : k \in HoldsIn(t) \/ -k \in HoldsIn(t) =>
                 /\ vidx(k) # vidx(lit) /\ LevelOf(u, k) = LevelOf(t, k)
                 /\ u.reason[vidx(k)] = t.reason[vidx(k)]
<1> DEFINE u == search_assign(t, lit, c)
           n == Len(t.trail)
<1>1. lit \in Literals(Vars) /\ vidx(lit) \in Free(t) /\ vidx(lit) \in Vars
  BY LiteralFacts DEF Assignable
<1>2. LevelFor(t, lit, c) \in Nat /\ ReasonFor(t, lit, c) \in SUBSET Literals(Vars)
  <2>1. Level(t) \in Nat
    BY StackFields
  <2> QED BY <2>1, AssignTypes
<1>3. /\ u.trail = Append(t.trail, lit) /\ u.control = t.control
      /\ u.propagated = t.propagated
      /\ u.level = [t.level EXCEPT ![vidx(lit)] = LevelFor(t, lit, c)]
      /\ u.reason = [t.reason EXCEPT ![vidx(lit)] = ReasonFor(t, lit, c)]
      /\ u.place = t.place /\ u.unassigned = t.unassigned /\ u.beyond = t.beyond
      /\ u \in Stacks
  BY <1>1, <1>2, AssignFields DEF LevelFor, ReasonFor
<1> HIDE DEF u
<1>4. n \in Nat /\ Len(u.trail) = n + 1 /\ u.trail[n + 1] = lit
      /\ \A i \in 1..n : u.trail[i] = t.trail[i]
  <2>1. t.trail \in Seq(Literals(Vars)) /\ n \in Nat
    BY StackFields
  <2> QED BY <1>1, <1>3, <2>1, AppendProperties
<1>5. HoldsIn(u) = HoldsIn(t) \cup {lit}
  <2>1. HoldsIn(u) = {u.trail[i] : i \in 1..(n + 1)} /\ HoldsIn(t) = {t.trail[i] : i \in 1..n}
    BY <1>3, <1>4, StackFields
  <2>2. \A i \in 1..(n + 1) : i \in 1..n \/ i = n + 1
    BY <1>4
  <2>3. (\A i \in 1..n : i \in 1..(n + 1)) /\ n + 1 \in 1..(n + 1)
    BY <1>4
  <2> HIDE DEF n
  <2>4. \A k \in HoldsIn(u) : k \in HoldsIn(t) \cup {lit}
    BY <1>4, <2>1, <2>2
  <2>5. \A k \in HoldsIn(t) \cup {lit} : k \in HoldsIn(u)
    BY <1>4, <2>1, <2>3
  <2> QED BY <2>4, <2>5
<1>6. Free(u) \subseteq Free(t)
  BY <1>5 DEF Free
<1>7. Level(u) = Level(t)
  BY <1>3 DEF Level
<1>8. LevelOf(u, lit) = LevelFor(t, lit, c) /\ u.reason[vidx(lit)] = ReasonFor(t, lit, c)
  BY <1>1, <1>3, StackFields DEF LevelOf
<1>9. ASSUME NEW k \in Literals(Vars), k \in HoldsIn(t) \/ -k \in HoldsIn(t)
      PROVE  /\ vidx(k) # vidx(lit) /\ LevelOf(u, k) = LevelOf(t, k)
             /\ u.reason[vidx(k)] = t.reason[vidx(k)]
  <2>1. vidx(k) \in Vars /\ vidx(k) \notin Free(t)
    BY <1>9, LiteralFacts, StackFields
  <2>2. vidx(k) # vidx(lit)
    BY <1>1, <2>1
  <2> QED BY <1>3, <2>1, <2>2, StackFields DEF LevelOf
<1> QED BY <1>3, <1>4, <1>5, <1>6, <1>7, <1>8, <1>9 DEF u

(* search_assign keeps a stack in order.                                   *)
LEMMA AssignKeeps ==
    ASSUME NEW t, Stack(t), NEW lit, NEW c, Assignable(t, lit, c)
    PROVE  Stack(search_assign(t, lit, c))
<1>1. t \in Stacks /\ Single(t) /\ Heights(t) /\ Levels(t) /\ Reasons(t) /\ Decisions(t) /\ Queue(t)
  BY DEF Stack
<1> DEFINE n == Len(t.trail)
<1>2. PICK u : u = search_assign(t, lit, c)
  OBVIOUS
<1>3. /\ u \in Stacks
      /\ u.control = t.control /\ Level(u) = Level(t) /\ u.propagated = t.propagated
      /\ u.place = t.place /\ u.unassigned = t.unassigned /\ u.beyond = t.beyond
      /\ Len(u.trail) = n + 1
      /\ \A i \in 1..n : u.trail[i] = t.trail[i]
      /\ u.trail[n + 1] = lit
      /\ HoldsIn(u) = HoldsIn(t) \cup {lit} /\ Free(u) \subseteq Free(t)
      /\ LevelOf(u, lit) = LevelFor(t, lit, c) /\ u.reason[vidx(lit)] = ReasonFor(t, lit, c)
      /\ \A k \in Literals(Vars) : k \in HoldsIn(t) \/ -k \in HoldsIn(t) =>
            /\ vidx(k) # vidx(lit) /\ LevelOf(u, k) = LevelOf(t, k)
            /\ u.reason[vidx(k)] = t.reason[vidx(k)]
  BY <1>1, <1>2, AssignResult
<1>4. /\ n \in Nat /\ Level(t) \in Nat /\ t.propagated \in Nat
      /\ \A i \in 1..n : t.trail[i] \in Literals(Vars) /\ t.trail[i] \in HoldsIn(t)
      /\ \A k \in 1..Level(t) : t.control[k] \in Nat
  BY <1>1, StackFields
<1>5. /\ lit \in Literals(Vars) /\ LevelFor(t, lit, c) \in 0..Level(t)
      /\ c # NoReason /\ c # DecisionReason =>
            /\ LevelFor(t, lit, c) = assignment_level(t, lit, c)
            /\ c \in SUBSET Literals(Vars) /\ lit \in c
            /\ \A k \in c \ {lit} : -k \in HoldsIn(t)
  BY <1>1, AssignTypes DEF Assignable
<1>6. ASSUME NEW i \in 1..n
      PROVE  /\ i \in 1..(n + 1) /\ u.trail[i] = t.trail[i]
             /\ vidx(u.trail[i]) # vidx(lit)
             /\ LevelOf(u, u.trail[i]) = LevelOf(t, t.trail[i])
             /\ ReasonOf(u, i) = ReasonOf(t, i)
  BY <1>3, <1>4 DEF ReasonOf
<1> HIDE DEF n
<1>7. \A i \in 1..(n + 1) : i \in 1..n \/ i = n + 1
  BY <1>4
<1>8. Single(u)
  <2> SUFFICES ASSUME NEW i \in 1..(n + 1), NEW j \in 1..(n + 1),
                      vidx(u.trail[i]) = vidx(u.trail[j])
               PROVE  i = j
    BY <1>3 DEF Single
  <2>1. CASE i \in 1..n /\ j \in 1..n
    BY <1>1, <1>6, <2>1 DEF Single, n
  <2>2. CASE i = n + 1 /\ j = n + 1
    BY <2>2
  <2>3. CASE i \in 1..n /\ j = n + 1
    BY <1>3, <1>6, <2>3
  <2>4. CASE i = n + 1 /\ j \in 1..n
    BY <1>3, <1>6, <2>4
  <2> QED BY <1>7, <2>1, <2>2, <2>3, <2>4
<1>9. Heights(u)
  BY <1>1, <1>3, <1>4 DEF Heights, n
<1>10. Levels(u)
  <2> SUFFICES ASSUME NEW i \in 1..(n + 1)
               PROVE  /\ LevelOf(u, u.trail[i]) <= Level(t)
                      /\ \A k \in 1..LevelOf(u, u.trail[i]) : t.control[k] < i
    BY <1>3 DEF Levels
  <2>1. CASE i \in 1..n
    BY <1>1, <1>6, <2>1 DEF Levels, n
  <2>2. CASE i = n + 1
    <3>1. LevelOf(u, u.trail[i]) = LevelFor(t, lit, c)
      BY <1>3, <2>2
    <3>2. ASSUME NEW k \in 1..LevelFor(t, lit, c)
          PROVE  t.control[k] < i
      <4>1. k \in 1..Level(t)
        BY <1>4, <1>5
      <4>2. t.control[k] <= t.propagated /\ t.propagated <= n
        BY <1>1, <4>1 DEF Heights, n
      <4> QED BY <1>4, <2>2, <4>1, <4>2
    <3> QED BY <1>4, <1>5, <3>1, <3>2
  <2> QED BY <1>7, <2>1, <2>2
<1>11. Reasons(u)
  <2> SUFFICES ASSUME NEW i \in 1..(n + 1), ReasonOf(u, i) # NoReason
               PROVE  /\ u.trail[i] \in ReasonOf(u, i)
                      /\ LevelOf(u, u.trail[i]) > 0
                      /\ LevelOf(u, u.trail[i]) = assignment_level(u, u.trail[i], ReasonOf(u, i))
                      /\ \A k \in ReasonOf(u, i) \ {u.trail[i]} :
                            \E j \in 1..(i - 1) : u.trail[j] = -k
    BY <1>3, Zenon DEF Reasons
  <2>1. CASE i \in 1..n
    <3> DEFINE r == ReasonOf(t, i)
    <3>1. ReasonOf(u, i) = r /\ u.trail[i] = t.trail[i]
          /\ LevelOf(u, u.trail[i]) = LevelOf(t, t.trail[i])
      BY <1>6, <2>1
    <3>2. /\ t.trail[i] \in r /\ LevelOf(t, t.trail[i]) > 0
          /\ LevelOf(t, t.trail[i]) = assignment_level(t, t.trail[i], r)
          /\ \A k \in r \ {t.trail[i]} : \E j \in 1..(i - 1) : t.trail[j] = -k
      BY <1>1, <2>1, <3>1 DEF Reasons, n
    <3>3. r \subseteq Literals(Vars)
      BY <1>1, <1>4, <2>1, StackFields DEF ReasonOf
    <3>4. ASSUME NEW k \in r \ {t.trail[i]}
          PROVE  /\ \E j \in 1..(i - 1) : u.trail[j] = -k
                 /\ LevelOf(u, k) = LevelOf(t, k)
      <4>1. PICK j \in 1..(i - 1) : t.trail[j] = -k
        BY <3>2
      <4>2. j \in 1..n
        BY <1>4, <2>1
      <4>3. -k \in HoldsIn(t)
        BY <1>4, <4>1, <4>2
      <4> QED BY <1>3, <3>3, <4>1, <4>2, <4>3
    <3>5. assignment_level(u, t.trail[i], r) = assignment_level(t, t.trail[i], r)
      BY <3>4, SameAssignmentLevel
    <3> QED BY <3>1, <3>2, <3>4, <3>5
  <2>2. CASE i = n + 1
    <3>1. ReasonOf(u, i) = ReasonFor(t, lit, c) /\ u.trail[i] = lit
      BY <1>3, <2>2 DEF ReasonOf
    <3>2. LevelFor(t, lit, c) # 0 /\ c # DecisionReason /\ c # NoReason /\ ReasonOf(u, i) = c
      BY <3>1, Zenon DEF ReasonFor, LevelFor
    <3>3. /\ LevelFor(t, lit, c) = assignment_level(t, lit, c)
          /\ c \in SUBSET Literals(Vars) /\ lit \in c
          /\ \A k \in c \ {lit} : -k \in HoldsIn(t)
      BY <1>5, <3>2
    <3>4. \A k \in c \ {lit} : LevelOf(u, k) = LevelOf(t, k)
      BY <1>3, <3>3
    <3>5. assignment_level(u, lit, c) = assignment_level(t, lit, c)
      BY <3>4, SameAssignmentLevel
    <3>6. ASSUME NEW k \in c \ {lit}
          PROVE  \E j \in 1..(i - 1) : u.trail[j] = -k
      <4>1. PICK j \in 1..n : t.trail[j] = -k
        BY <1>1, <3>3, StackFields DEF n
      <4> QED BY <1>3, <1>4, <2>2, <4>1
    <3>7. LevelFor(t, lit, c) > 0 /\ LevelOf(u, u.trail[i]) = LevelFor(t, lit, c)
      BY <1>3, <1>4, <1>5, <2>2, <3>2
    <3> QED BY <3>1, <3>2, <3>3, <3>5, <3>6, <3>7
  <2> QED BY <1>7, <2>1, <2>2
<1>12. Decisions(u)
  <2> SUFFICES ASSUME NEW i \in 1..(n + 1), ReasonOf(u, i) = NoReason,
                      LevelOf(u, u.trail[i]) > 0
               PROVE  /\ i = t.control[LevelOf(u, u.trail[i])] + 1
                      /\ \A k \in (LevelOf(u, u.trail[i]) + 1)..Level(t) : i <= t.control[k]
    BY <1>3 DEF Decisions
  <2>1. CASE i \in 1..n
    BY <1>1, <1>6, <2>1 DEF Decisions, n
  <2>2. CASE i = n + 1
    <3>1. ReasonOf(u, i) = ReasonFor(t, lit, c) /\ LevelOf(u, u.trail[i]) = LevelFor(t, lit, c)
      BY <1>3, <2>2 DEF ReasonOf
    <3>2. LevelFor(t, lit, c) # 0 /\ c # NoReason
      <4>1. LevelFor(t, lit, c) # 0
        BY <3>1
      <4> QED BY <4>1, Zenon DEF LevelFor
    <3>3. c = DecisionReason
      BY <3>1, <3>2, Zenon DEF ReasonFor
    <3>4. LevelFor(t, lit, c) = Level(t)
      BY <3>2, <3>3 DEF LevelFor
    <3>5. lit \notin c
      BY <1>5, <3>3, LiteralFacts DEF DecisionReason
    <3>6. t.control[Level(t)] = n
      BY <3>2, <3>5 DEF Assignable, n
    <3> QED BY <1>4, <2>2, <3>1, <3>4, <3>6
  <2> QED BY <1>7, <2>1, <2>2
<1>13. Queue(u)
  <2>1. \A v \in Vars : Behind(u, v) = Behind(t, v)
    BY <1>3 DEF Behind
  <2>2. Behind(u, u.unassigned) = Behind(t, t.unassigned)
    BY <1>3 DEF Behind
  <2> QED BY <1>1, <1>3, <2>2 DEF Queue
<1> QED BY <1>2, <1>3, <1>8, <1>9, <1>10, <1>11, <1>12, <1>13 DEF Stack

(* So does opening a level when everything has been propagated.            *)
LEMMA OpenKeeps ==
    ASSUME NEW t, Stack(t), t.propagated = Len(t.trail)
    PROVE  LET u == [t EXCEPT !.control = Append(@, Len(t.trail))] IN
           /\ Stack(u) /\ Level(u) = Level(t) + 1 /\ u.control[Level(u)] = Len(u.trail)
           /\ \A k \in 1..Level(t) : u.control[k] = t.control[k]
           /\ u.trail = t.trail /\ u.level = t.level /\ u.reason = t.reason
           /\ u.propagated = t.propagated /\ HoldsIn(u) = HoldsIn(t) /\ Free(u) = Free(t)
<1>1. t \in Stacks /\ Single(t) /\ Heights(t) /\ Levels(t) /\ Reasons(t) /\ Decisions(t) /\ Queue(t)
  BY DEF Stack
<1>2. PICK u : u = [t EXCEPT !.control = Append(@, Len(t.trail))]
  OBVIOUS
<1> DEFINE n == Len(t.trail)
<1>3. /\ n \in Nat /\ Level(t) \in Nat /\ t.control \in Seq(Nat)
      /\ \A k \in 1..Level(t) : t.control[k] \in Nat
      /\ \A i \in 1..n : t.trail[i] \in Literals(Vars) /\ LevelOf(t, t.trail[i]) \in Nat
  BY <1>1, StackFields
<1>4. /\ u.trail = t.trail /\ u.level = t.level /\ u.reason = t.reason
      /\ u.propagated = t.propagated /\ u.control = Append(t.control, n)
      /\ u.place = t.place /\ u.unassigned = t.unassigned /\ u.beyond = t.beyond
  BY <1>1, <1>2 DEF Stacks
<1>5. /\ Level(u) = Level(t) + 1 /\ u.control[Level(t) + 1] = n
      /\ \A k \in 1..Level(t) : u.control[k] = t.control[k]
      /\ u.control \in Seq(Nat)
  BY <1>3, <1>4, AppendProperties DEF Level
<1>6. u \in Stacks
  BY <1>1, <1>2, <1>3, <1>4, <1>5 DEF Stacks
<1>7. HoldsIn(u) = HoldsIn(t) /\ Free(u) = Free(t) /\ \A lit : LevelOf(u, lit) = LevelOf(t, lit)
  BY <1>4 DEF HoldsIn, Free, LevelOf
<1>8. \A i : ReasonOf(u, i) = ReasonOf(t, i)
  BY <1>4 DEF ReasonOf
<1>9. Single(u)
  BY <1>1, <1>4 DEF Single
<1> HIDE DEF n
<1>10. \A k \in 1..Level(u) : k \in 1..Level(t) \/ k = Level(t) + 1
  BY <1>3, <1>5
<1>11. Heights(u)
  <2>1. \A k \in 1..Level(t) : t.control[k] <= n
    BY <1>1 DEF Heights, n
  <2>2. ASSUME NEW k \in 1..Level(u)
        PROVE  u.control[k] <= n
    <3>1. CASE k \in 1..Level(t)
      BY <1>5, <2>1, <3>1
    <3>2. CASE k = Level(t) + 1
      BY <1>3, <1>5, <3>2
    <3> QED BY <1>10, <3>1, <3>2
  <2>3. ASSUME NEW j \in 1..Level(u), NEW k \in 1..Level(u), j <= k
        PROVE  u.control[j] <= u.control[k]
    <3>1. CASE k = Level(t) + 1
      BY <1>5, <2>2, <3>1
    <3>2. CASE k \in 1..Level(t)
      <4>1. j \in 1..Level(t)
        BY <1>3, <2>3, <3>2
      <4> QED BY <1>1, <1>5, <2>3, <3>2, <4>1 DEF Heights
    <3> QED BY <1>10, <3>1, <3>2
  <2>4. u.propagated = n /\ Len(u.trail) = n
    BY <1>4 DEF n
  <2> QED BY <1>3, <2>2, <2>3, <2>4 DEF Heights
<1>12. Levels(u)
  <2> SUFFICES ASSUME NEW i \in 1..n
               PROVE  /\ LevelOf(t, t.trail[i]) <= Level(u)
                      /\ \A k \in 1..LevelOf(t, t.trail[i]) : u.control[k] < i
    BY <1>4, <1>7 DEF Levels, n
  <2> DEFINE l == LevelOf(t, t.trail[i])
  <2>1. l <= Level(t) /\ \A k \in 1..l : t.control[k] < i
    BY <1>1 DEF Levels, n
  <2>2. l \in Nat
    BY <1>3
  <2> HIDE DEF l
  <2>3. \A k \in 1..l : k \in 1..Level(t)
    BY <1>3, <2>1, <2>2
  <2>4. l <= Level(u)
    BY <1>3, <1>5, <2>1, <2>2
  <2>5. \A k \in 1..l : u.control[k] < i
    BY <1>5, <2>1, <2>3
  <2> QED BY <2>4, <2>5 DEF l
<1>13. Reasons(u)
  <2>1. \A lit, r : assignment_level(u, lit, r) = assignment_level(t, lit, r)
    BY <1>7, SameAssignmentLevel
  <2> QED BY <1>1, <1>4, <1>7, <1>8, <2>1 DEF Reasons
<1>14. Decisions(u)
  <2> SUFFICES ASSUME NEW i \in 1..n, ReasonOf(t, i) = NoReason, LevelOf(t, t.trail[i]) > 0
               PROVE  /\ i = u.control[LevelOf(t, t.trail[i])] + 1
                      /\ \A k \in (LevelOf(t, t.trail[i]) + 1)..Level(u) : i <= u.control[k]
    BY <1>4, <1>7, <1>8 DEF Decisions, n
  <2> DEFINE l == LevelOf(t, t.trail[i])
  <2>1. i = t.control[l] + 1 /\ \A k \in (l + 1)..Level(t) : i <= t.control[k]
    BY <1>1 DEF Decisions, n
  <2>2. l \in 1..Level(t)
    BY <1>1, <1>3 DEF Levels, n
  <2> HIDE DEF l
  <2>3. ASSUME NEW k \in (l + 1)..Level(u)
        PROVE  i <= u.control[k]
    <3>1. CASE k = Level(t) + 1
      BY <1>3, <1>5, <3>1
    <3>2. CASE k # Level(t) + 1
      <4>1. k \in (l + 1)..Level(t) /\ k \in 1..Level(t)
        BY <1>3, <1>5, <2>2, <3>2, SMTT(20)
      <4> QED BY <1>5, <2>1, <4>1
    <3> QED BY <3>1, <3>2
  <2>4. i = u.control[l] + 1 /\ \A k \in (l + 1)..Level(u) : i <= u.control[k]
    BY <1>5, <2>1, <2>2, <2>3
  <2> QED BY <2>4 DEF l
<1>15. Queue(u)
  BY <1>1, <1>4, <1>7 DEF Queue, Behind
<1>16. Stack(u)
  BY <1>6, <1>9, <1>11, <1>12, <1>13, <1>14, <1>15 DEF Stack
<1>17. u.control[Level(u)] = Len(u.trail)
  BY <1>4, <1>5 DEF n
<1> QED BY <1>2, <1>4, <1>5, <1>7, <1>16, <1>17, Zenon

-----------------------------------------------------------------------------
(* The decision queue.                                                     *)

(* Some element of a finite set has the greatest rank.                     *)
LEMMA Greatest ==
    ASSUME NEW S, IsFiniteSet(S), S # {}, NEW f, \A x \in S : f[x] \in Nat
    PROVE  \E m \in S : \A x \in S : f[x] <= f[m]
<1> DEFINE Bad == {U \in SUBSET S : U # {} /\ ~\E m \in U : \A x \in U : f[x] <= f[m]}
           W == {Cardinality(U) : U \in Bad}
           R == OpToRel(<, Nat)
<1>1. \A U \in SUBSET S : IsFiniteSet(U) /\ Cardinality(U) \in Nat
  BY FS_Subset, FS_CardinalityType
<1>2. CASE Bad = {}
  BY <1>2
<1>3. CASE Bad # {}
  <2>1. W \subseteq Nat /\ W # {}
    BY <1>1, <1>3
  <2>2. PICK n \in W : \A k \in W : <<k, n>> \notin R
    BY <2>1, NatLessThanWellFounded, WFMin
  <2>3. PICK U \in Bad : n = Cardinality(U)
    BY <2>2
  <2>4. PICK x \in U : TRUE
    OBVIOUS
  <2> DEFINE Q == U \ {x}
  <2>5. IsFiniteSet(U) /\ Cardinality(U) \in Nat
    BY <1>1
  <2>6. Q \in SUBSET S /\ Cardinality(Q) = Cardinality(U) - 1 /\ Cardinality(Q) \in Nat
    BY <1>1, <2>4, <2>5, FS_RemoveElement
  <2>7. <<Cardinality(Q), n>> \in R
    <3>1. Cardinality(Q) < n
      BY <2>3, <2>5, <2>6
    <3> QED BY <2>3, <2>5, <2>6, <3>1 DEF OpToRel
  <2>8. Q \notin Bad
    BY <2>2, <2>7
  <2>9. CASE Q = {}
    <3>1. U = {x} /\ f[x] \in Nat
      BY <2>4, <2>9
    <3>2. \A y \in U : f[y] <= f[x]
      BY <3>1
    <3> QED BY <2>4, <3>2
  <2>10. CASE Q # {}
    <3>1. PICK m \in Q : \A y \in Q : f[y] <= f[m]
      BY <2>6, <2>8, <2>10
    <3>2. f[x] \in Nat /\ f[m] \in Nat /\ \A y \in U : f[y] \in Nat /\ (y \in Q \/ y = x)
      OBVIOUS
    <3>3. CASE f[x] <= f[m]
      <4>1. \A y \in U : f[y] <= f[m]
        BY <3>1, <3>2, <3>3
      <4> QED BY <4>1
    <3>4. CASE f[m] <= f[x]
      <4>1. \A y \in U : f[y] <= f[x]
        BY <3>1, <3>2, <3>4
      <4> QED BY <2>4, <4>1
    <3> QED BY <3>2, <3>3, <3>4
  <2> QED BY <2>9, <2>10
<1> QED BY <1>2, <1>3

(* The variables have a greatest one, and the queue a last one.            *)
LEMMA LastOfQueue ==
    ASSUME NEW t \in Stacks, NEW B \in SUBSET Vars, B # {}
    PROVE  LastBumped(t, B) \in B /\ \A w \in B : t.place[w] <= t.place[LastBumped(t, B)]
<1>1. IsFiniteSet(B)
  BY VarsAssumption, FS_Subset
<1>2. \A v \in B : t.place[v] \in Nat
  BY StackFields
<1>3. \E v \in B : \A w \in B : t.place[w] <= t.place[v]
  BY <1>1, <1>2, Greatest
<1> QED BY <1>3, Zenon DEF LastBumped

(* Bump order is total.                                                    *)
Ordered(t) == \A v, w \in Vars : t.place[v] = t.place[w] => v = w

(* A pointer with no unassigned variable behind it is sound.               *)
LEMMA PointerKeeps ==
    ASSUME NEW t \in Stacks, Ordered(t), NEW v \in Vars, Behind(t, v) \cap Free(t) = {}
    PROVE  LET u == update_queue_unassigned(t, v) IN
           /\ u \in Stacks /\ Queue(u)
           /\ u.trail = t.trail /\ u.control = t.control /\ u.propagated = t.propagated
           /\ u.level = t.level /\ u.reason = t.reason /\ u.place = t.place
<1>1. PICK u : u = update_queue_unassigned(t, v)
  OBVIOUS
<1>2. /\ u.trail = t.trail /\ u.control = t.control /\ u.propagated = t.propagated
      /\ u.level = t.level /\ u.reason = t.reason /\ u.place = t.place
      /\ u.unassigned = v /\ u.beyond = Behind(t, v)
  BY <1>1 DEF update_queue_unassigned, Stacks
<1>3. Behind(t, v) \subseteq Vars
  BY DEF Behind
<1>4. u \in Stacks
  BY <1>1, <1>3 DEF update_queue_unassigned, Stacks
<1>5. Free(u) = Free(t) /\ Behind(u, v) = Behind(t, v)
  BY <1>2 DEF Free, HoldsIn, Behind
<1>6. \A w \in Vars : t.place[w] \in Nat
  BY StackFields
<1>7. ASSUME NEW x \in Behind(t, v), NEW w \in Vars, t.place[w] >= t.place[x]
      PROVE  w \in Behind(t, v)
  <2>1. x \in Vars /\ t.place[x] > t.place[v]
    BY DEF Behind
  <2>2. t.place[w] > t.place[v]
    BY <1>6, <1>7, <2>1
  <2> QED BY <2>2 DEF Behind
<1>8. Queue(u)
  BY <1>2, <1>5, <1>7 DEF Queue, Ordered
<1> QED BY <1>1, <1>2, <1>4, <1>8, Zenon

(* Two stacks that differ in their queues only.                            *)
LEMMA SameTrail ==
    ASSUME NEW t, Stack(t), NEW u \in Stacks, Queue(u),
           u.trail = t.trail, u.control = t.control, u.propagated = t.propagated,
           u.level = t.level, u.reason = t.reason
    PROVE  /\ Stack(u) /\ HoldsIn(u) = HoldsIn(t) /\ Free(u) = Free(t) /\ Level(u) = Level(t)
           /\ \A lit : LevelOf(u, lit) = LevelOf(t, lit)
<1>1. /\ Level(u) = Level(t) /\ (\A lit : LevelOf(u, lit) = LevelOf(t, lit))
      /\ HoldsIn(u) = HoldsIn(t) /\ Free(u) = Free(t) /\ (\A i : ReasonOf(u, i) = ReasonOf(t, i))
  BY DEF Level, LevelOf, HoldsIn, Free, ReasonOf
<1>2. Single(u) /\ Heights(u)
  BY <1>1 DEF Stack, Single, Heights
<1>3. Levels(u)
  BY <1>1 DEF Stack, Levels
<1>4. \A lit, r : assignment_level(u, lit, r) = assignment_level(t, lit, r)
  BY <1>1, SameAssignmentLevel
<1>5. Reasons(u)
  BY <1>1, <1>4 DEF Stack, Reasons
<1>6. Decisions(u)
  BY <1>1 DEF Stack, Decisions
<1> QED BY <1>1, <1>2, <1>3, <1>5, <1>6 DEF Stack

(* The pointer finds the unassigned variable bumped last.                  *)
LEMMA NextVariable ==
    ASSUME NEW t, Stack(t), Free(t) # {}
    PROVE  LET v == next_decision_variable_on_queue(t) IN
           /\ v \in Free(t) /\ Behind(t, v) \cap Free(t) = {}
<1>1. t \in Stacks /\ Queue(t) /\ Free(t) \subseteq Vars
  BY DEF Stack, Free
<1>2. Free(t) \ Behind(t, t.unassigned) = Free(t)
  BY <1>1 DEF Queue
<1>3. PICK v : v = next_decision_variable_on_queue(t)
  OBVIOUS
<1>4. v \in Free(t) /\ \A w \in Free(t) : t.place[w] <= t.place[v]
  BY <1>1, <1>2, <1>3, LastOfQueue DEF next_decision_variable_on_queue
<1>5. ASSUME NEW w \in Free(t)
      PROVE  w \notin Behind(t, v)
  <2>1. t.place[w] \in Nat /\ t.place[v] \in Nat
    BY <1>1, <1>4, StackFields
  <2> QED BY <1>4, <2>1 DEF Behind
<1> QED BY <1>3, <1>4, <1>5

(* Counting ranks within a set of variables keeps their order.             *)
LEMMA RanksOrdered ==
    ASSUME NEW t \in Stacks, NEW S \in SUBSET Vars
    PROVE  LET rank(v) == Cardinality({w \in S : t.place[w] <= t.place[v]}) IN
           /\ Cardinality(S) \in Nat
           /\ \A v \in S : rank(v) \in 1..Cardinality(S)
           /\ \A v, u \in S : t.place[v] < t.place[u] => rank(v) < rank(u)
<1> DEFINE upto(v) == {w \in S : t.place[w] <= t.place[v]}
<1>1. IsFiniteSet(S) /\ Cardinality(S) \in Nat /\ \A v \in S : t.place[v] \in Nat
  BY VarsAssumption, FS_Subset, FS_CardinalityType, StackFields
<1>2. ASSUME NEW v \in S
      PROVE  IsFiniteSet(upto(v)) /\ Cardinality(upto(v)) \in 1..Cardinality(S)
  <2>1. upto(v) \in SUBSET S /\ v \in upto(v)
    BY <1>1
  <2> HIDE DEF upto
  <2>2. IsFiniteSet(upto(v)) /\ Cardinality(upto(v)) <= Cardinality(S)
    BY <1>1, <2>1, FS_Subset
  <2>3. Cardinality(upto(v)) \in Nat /\ Cardinality(upto(v)) # 0
    BY <2>1, <2>2, FS_CardinalityType, FS_EmptySet
  <2> QED BY <1>1, <2>2, <2>3
<1>3. ASSUME NEW v \in S, NEW u \in S, t.place[v] < t.place[u]
      PROVE  Cardinality(upto(v)) < Cardinality(upto(u))
  <2>1. ASSUME NEW w \in upto(v)
        PROVE  w \in upto(u)
    BY <1>1, <1>3
  <2>2. u \in upto(u) /\ u \notin upto(v)
    BY <1>1, <1>3
  <2> HIDE DEF upto
  <2>3. upto(v) \in SUBSET upto(u) /\ upto(v) # upto(u) /\ IsFiniteSet(upto(u))
    BY <1>2, <2>1, <2>2
  <2>4. Cardinality(upto(v)) <= Cardinality(upto(u)) /\ Cardinality(upto(v)) # Cardinality(upto(u))
    BY <2>3, FS_Subset
  <2>5. Cardinality(upto(v)) \in Nat /\ Cardinality(upto(u)) \in Nat
    BY <1>1, <1>2
  <2> QED BY <2>4, <2>5
<1>4. /\ Cardinality(S) \in Nat
      /\ \A v \in S : Cardinality(upto(v)) \in 1..Cardinality(S)
      /\ \A v, u \in S : t.place[v] < t.place[u] => Cardinality(upto(v)) < Cardinality(upto(u))
  <2> HIDE DEF upto
  <2> QED BY <1>1, <1>2, <1>3
<1> QED BY <1>4, Zenon

(* Bumped variables come after all others, else the order stays.           *)
LEMMA RequeuedOrder ==
    ASSUME NEW t \in Stacks, Ordered(t), NEW B \in SUBSET Vars
    PROVE  LET R == Requeued(t, B) IN
           /\ R \in [Vars -> Nat]
           /\ \A v \in Vars \ B, w \in B : R[v] < R[w]
           /\ \A v, w \in Vars : (v \in B <=> w \in B) => (R[v] < R[w] <=> t.place[v] < t.place[w])
           /\ \A v, w \in Vars : R[v] = R[w] => v = w
<1> DEFINE A == Vars \ B
           rankA(v) == Cardinality({w \in A : t.place[w] <= t.place[v]})
           rankB(v) == Cardinality({w \in B : t.place[w] <= t.place[v]})
<1>1. /\ Cardinality(A) \in Nat /\ \A v \in A : rankA(v) \in 1..Cardinality(A)
      /\ \A v, u \in A : t.place[v] < t.place[u] => rankA(v) < rankA(u)
  <2> A \in SUBSET Vars
    OBVIOUS
  <2> HIDE DEF A
  <2> QED BY RanksOrdered, Zenon
<1>2. /\ Cardinality(B) \in Nat /\ \A v \in B : rankB(v) \in 1..Cardinality(B)
      /\ \A v, u \in B : t.place[v] < t.place[u] => rankB(v) < rankB(u)
  BY RanksOrdered, Zenon
<1>3. PICK R : R = Requeued(t, B)
  OBVIOUS
<1>4. /\ \A v \in B : R[v] = Cardinality(A) + rankB(v)
      /\ \A v \in A : R[v] = rankA(v)
      /\ DOMAIN R = Vars /\ R = [v \in Vars |-> R[v]]
  BY <1>3 DEF Requeued
<1> HIDE DEF rankA, rankB
<1>5. ASSUME NEW v \in Vars
      PROVE  R[v] \in Nat /\ t.place[v] \in Nat /\ (v \in A \/ v \in B)
  <2>1. t.place[v] \in Nat /\ (v \in A \/ v \in B)
    BY StackFields
  <2>2. CASE v \in A
    <3>1. R[v] \in 1..Cardinality(A)
      BY <1>1, <1>4, <2>2
    <3> QED BY <1>1, <2>1, <3>1
  <2>3. CASE v \in B
    <3>1. R[v] = Cardinality(A) + rankB(v) /\ rankB(v) \in 1..Cardinality(B)
      BY <1>2, <1>4, <2>3
    <3> QED BY <1>1, <1>2, <2>1, <3>1
  <2> QED BY <2>1, <2>2, <2>3
<1>6. \A v \in A, w \in B : R[v] < R[w]
  <2> HIDE DEF A
  <2> QED BY <1>1, <1>2, <1>4
<1>7. ASSUME NEW v \in Vars, NEW w \in Vars, v \in B <=> w \in B
      PROVE  t.place[v] < t.place[w] => R[v] < R[w]
  <2>1. CASE v \in B /\ w \in B
    <3>1. rankB(v) \in Nat /\ rankB(w) \in Nat
      BY <1>2, <2>1
    <3> QED BY <1>1, <1>2, <1>4, <2>1, <3>1
  <2>2. CASE v \in A /\ w \in A
    BY <1>1, <1>4, <2>2
  <2> QED BY <1>7, <2>1, <2>2
<1>8. ASSUME NEW v \in Vars, NEW w \in Vars, v \in B <=> w \in B
      PROVE  R[v] < R[w] <=> t.place[v] < t.place[w]
  <2>1. t.place[v] < t.place[w] \/ t.place[w] < t.place[v] \/ v = w
    BY <1>5 DEF Ordered
  <2>2. t.place[v] < t.place[w] => R[v] < R[w]
    BY <1>7, <1>8
  <2>3. t.place[w] < t.place[v] => R[w] < R[v]
    BY <1>7, <1>8
  <2> QED BY <1>5, <2>1, <2>2, <2>3
<1>9. ASSUME NEW v \in Vars, NEW w \in Vars, R[v] = R[w]
      PROVE  v = w
  <2>1. ~(R[v] < R[w]) /\ ~(R[w] < R[v])
    BY <1>5, <1>9
  <2>2. v \in B <=> w \in B
    BY <1>5, <1>6, <2>1
  <2>3. ~(t.place[v] < t.place[w]) /\ ~(t.place[w] < t.place[v])
    BY <1>8, <2>1, <2>2
  <2> QED BY <1>5, <2>3 DEF Ordered
<1> HIDE DEF A
<1>10. R \in [Vars -> Nat]
  BY <1>4, <1>5
<1> QED BY <1>3, <1>6, <1>8, <1>9, <1>10 DEF A

(* bump_queue keeps the stack in order.                                    *)
LEMMA BumpKeeps ==
    ASSUME NEW t, Stack(t), NEW B \in SUBSET Vars
    PROVE  LET u == bump_queue(t, B) IN
           /\ Stack(u) /\ HoldsIn(u) = HoldsIn(t) /\ Free(u) = Free(t) /\ Level(u) = Level(t)
           /\ u.trail = t.trail /\ u.control = t.control /\ u.propagated = t.propagated
           /\ u.level = t.level /\ u.reason = t.reason
<1>1. t \in Stacks /\ Queue(t) /\ Ordered(t)
  BY DEF Stack, Queue, Ordered
<1> DEFINE m == [t EXCEPT !.place = Requeued(t, B), !.beyond = t.beyond \cup B]
           R == Requeued(t, B)
           v == LastBumped(m, B \cap Free(t))
<1>2. /\ R \in [Vars -> Nat]
      /\ \A x \in Vars \ B, w \in B : R[x] < R[w]
      /\ \A x, w \in Vars : (x \in B <=> w \in B) => (R[x] < R[w] <=> t.place[x] < t.place[w])
      /\ \A x, w \in Vars : R[x] = R[w] => x = w
  BY <1>1, RequeuedOrder
<1>3. /\ m \in Stacks /\ m.place = R /\ m.beyond = t.beyond \cup B /\ m.unassigned = t.unassigned
      /\ m.trail = t.trail /\ m.control = t.control /\ m.propagated = t.propagated
      /\ m.level = t.level /\ m.reason = t.reason
  BY <1>1, <1>2 DEF Stacks
<1>4. Ordered(m) /\ Free(m) = Free(t)
  <2>1. Ordered(m)
    BY <1>2, <1>3 DEF Ordered
  <2>2. HoldsIn(m) = HoldsIn(t)
    BY <1>3, Zenon DEF HoldsIn
  <2> QED BY <2>1, <2>2 DEF Free
<1>5. bump_queue(t, B) = IF \E x \in Vars : B \subseteq {x} /\ Behind(t, x) = {} THEN t
                         ELSE IF B \cap Free(t) = {} THEN m ELSE update_queue_unassigned(m, v)
  BY DEF bump_queue
<1>6. \A x \in Vars : t.place[x] \in Nat /\ R[x] \in Nat
  BY <1>1, <1>2, StackFields
<1> HIDE DEF m, R
<1>7. CASE \E x \in Vars : B \subseteq {x} /\ Behind(t, x) = {}
  BY <1>5, <1>7
<1>8. CASE ~(\E x \in Vars : B \subseteq {x} /\ Behind(t, x) = {}) /\ B \cap Free(t) = {}
  <2>1. bump_queue(t, B) = m
    BY <1>5, <1>8
  <2>2. ASSUME NEW x \in m.beyond, NEW w \in Vars, R[w] >= R[x]
        PROVE  w \in m.beyond
    <3>1. x \in Vars
      BY <1>3, StackFields
    <3>2. CASE w \in B
      BY <1>3, <3>2
    <3>3. CASE w \notin B
      <4>1. ~(R[w] < R[x])
        BY <1>6, <2>2, <3>1
      <4>2. x \notin B
        BY <1>2, <3>3, <4>1
      <4>3. ~(t.place[w] < t.place[x])
        BY <1>2, <3>1, <3>3, <4>1, <4>2
      <4>4. x \in t.beyond /\ t.place[w] >= t.place[x]
        BY <1>3, <1>6, <3>1, <4>2, <4>3
      <4>5. w \in t.beyond
        BY <1>1, <4>4 DEF Queue
      <4> QED BY <1>3, <4>5
    <3> QED BY <3>2, <3>3
  <2>3. ASSUME NEW w \in Behind(m, m.unassigned)
        PROVE  w \in m.beyond
    <3>1. w \in Vars /\ R[w] > R[t.unassigned]
      BY <1>3 DEF Behind
    <3>2. t.unassigned \in Vars
      <4>1. \A x \in Vars : x \in Nat
        BY VarsAssumption
      <4> DEFINE id == [x \in Vars |-> x]
      <4>2. \A x \in Vars : id[x] \in Nat
        BY <4>1
      <4>3. PICK g \in Vars : \A x \in Vars : id[x] <= id[g]
        BY <3>1, <4>2, VarsAssumption, Greatest
      <4>4. Vars \subseteq Nat /\ Vars # {} /\ g \in Nat /\ \A x \in Vars : x <= g
        BY <3>1, <4>1, <4>3
      <4>5. Max(Vars) \in Vars
        BY <4>4, MaxOfNats
      <4> QED BY <1>1, <4>5, StackFields
    <3>3. CASE w \in B
      BY <1>3, <3>3
    <3>4. CASE w \notin B
      <4>1. ~(R[w] < R[t.unassigned]) /\ R[t.unassigned] < R[w]
        BY <1>6, <3>1, <3>2
      <4>2. t.unassigned \notin B
        BY <1>2, <3>1, <3>4, <4>1
      <4>3. t.place[t.unassigned] < t.place[w]
        BY <1>2, <3>1, <3>2, <3>4, <4>1, <4>2
      <4>4. w \in Behind(t, t.unassigned)
        BY <1>6, <3>1, <3>2, <4>3 DEF Behind
      <4> QED BY <1>1, <1>3, <4>4 DEF Queue
    <3> QED BY <3>3, <3>4
  <2>4. m.beyond \cap Free(m) = {}
    BY <1>1, <1>3, <1>4, <1>8 DEF Queue
  <2>5. Queue(m)
    BY <1>3, <1>4, <2>2, <2>3, <2>4 DEF Queue, Ordered
  <2> QED BY <1>3, <2>1, <2>5, SameTrail
<1>9. CASE ~(\E x \in Vars : B \subseteq {x} /\ Behind(t, x) = {}) /\ B \cap Free(t) # {}
  <2>1. bump_queue(t, B) = update_queue_unassigned(m, v)
    BY <1>5, <1>9
  <2>2. v \in B \cap Free(t) /\ \A w \in B \cap Free(t) : R[w] <= R[v]
    BY <1>3, <1>9, LastOfQueue
  <2> HIDE DEF v
  <2>3. ASSUME NEW w \in Behind(m, v), w \in Free(m)
        PROVE  FALSE
    <3>1. w \in Vars /\ R[w] > R[v] /\ v \in Vars
      BY <1>3, <2>2 DEF Behind
    <3>2. ~(R[w] < R[v]) /\ ~(R[w] <= R[v])
      BY <1>6, <3>1
    <3>3. w \in B
      BY <1>2, <2>2, <3>1, <3>2
    <3> QED BY <1>4, <2>2, <2>3, <3>2, <3>3
  <2>4. v \in Vars /\ Behind(m, v) \cap Free(m) = {}
    BY <2>2, <2>3
  <2>5. PICK u : u = update_queue_unassigned(m, v)
    OBVIOUS
  <2>6. /\ u \in Stacks /\ Queue(u)
        /\ u.trail = m.trail /\ u.control = m.control /\ u.propagated = m.propagated
        /\ u.level = m.level /\ u.reason = m.reason
    BY <1>3, <1>4, <2>4, <2>5, PointerKeeps
  <2> QED BY <1>3, <2>1, <2>5, <2>6, SameTrail
<1> QED BY <1>7, <1>8, <1>9

-----------------------------------------------------------------------------
(* Backtracking.                                                           *)

(* unassign: levels and reasons are reset, the pointer moves up.           *)
LEMMA UnassignFields ==
    ASSUME NEW t \in Stacks, Queue(t), NEW gone \in SUBSET Vars
    PROVE  LET u == unassign(t, gone) IN
           /\ u \in Stacks /\ Ordered(u)
           /\ u.trail = t.trail /\ u.control = t.control /\ u.propagated = t.propagated
           /\ u.level = [v \in Vars |-> IF v \in gone THEN 0 ELSE t.level[v]]
           /\ u.reason = [v \in Vars |-> IF v \in gone THEN NoReason ELSE t.reason[v]]
           /\ \A v \in u.beyond, w \in Vars : u.place[w] >= u.place[v] => w \in u.beyond
           /\ Behind(u, u.unassigned) \subseteq u.beyond
           /\ u.beyond \cap (Free(t) \cup gone) = {}
<1> DEFINE m == [t EXCEPT !.level = [v \in Vars |-> IF v \in gone THEN 0 ELSE t.level[v]],
                          !.reason = [v \in Vars |-> IF v \in gone THEN NoReason ELSE t.reason[v]]]
           x == LastBumped(t, gone \cap t.beyond)
<1>1. /\ m \in Stacks /\ m.trail = t.trail /\ m.control = t.control
      /\ m.propagated = t.propagated /\ m.place = t.place
      /\ m.unassigned = t.unassigned /\ m.beyond = t.beyond
      /\ m.level = [v \in Vars |-> IF v \in gone THEN 0 ELSE t.level[v]]
      /\ m.reason = [v \in Vars |-> IF v \in gone THEN NoReason ELSE t.reason[v]]
  <2>1. [v \in Vars |-> IF v \in gone THEN 0 ELSE t.level[v]] \in [Vars -> Nat]
    BY StackFields
  <2>2. [v \in Vars |-> IF v \in gone THEN NoReason ELSE t.reason[v]]
            \in [Vars -> SUBSET Literals(Vars)]
    BY StackFields DEF NoReason
  <2> QED BY <2>1, <2>2 DEF Stacks
<1>2. unassign(t, gone) = IF gone \cap t.beyond = {} THEN m ELSE update_queue_unassigned(m, x)
  BY DEF unassign
<1>3. Ordered(m) /\ \A v \in Vars : m.place[v] \in Nat
  BY <1>1, StackFields DEF Queue, Ordered
<1> HIDE DEF m
<1>4. CASE gone \cap t.beyond = {}
  <2>1. unassign(t, gone) = m
    BY <1>2, <1>4
  <2>2. Behind(m, m.unassigned) = Behind(t, t.unassigned)
    BY <1>1 DEF Behind
  <2> QED BY <1>1, <1>3, <1>4, <2>1, <2>2 DEF Queue
<1>5. CASE gone \cap t.beyond # {}
  <2>1. x \in gone \cap t.beyond /\ \A w \in gone \cap t.beyond : t.place[w] <= t.place[x]
    BY <1>5, LastOfQueue
  <2> HIDE DEF x
  <2>2. PICK u : u = update_queue_unassigned(m, x)
    OBVIOUS
  <2>3. /\ u.trail = m.trail /\ u.control = m.control /\ u.propagated = m.propagated
        /\ u.level = m.level /\ u.reason = m.reason /\ u.place = m.place
        /\ u.unassigned = x /\ u.beyond = Behind(m, x)
    BY <1>1, <2>2 DEF update_queue_unassigned, Stacks
  <2>4. x \in Vars /\ Behind(m, x) \subseteq Vars
    BY <2>1 DEF Behind
  <2>5. u \in Stacks
    BY <1>1, <2>2, <2>4 DEF update_queue_unassigned, Stacks
  <2>6. \A w \in Vars : w \in u.beyond <=> t.place[w] > t.place[x]
    BY <1>1, <2>3 DEF Behind
  <2>7. u.beyond \subseteq Vars
    BY <2>3, <2>4
  <2>8. ASSUME NEW w \in u.beyond, w \in Free(t) \cup gone
        PROVE  FALSE
    <3>1. w \in Vars /\ t.place[w] > t.place[x]
      BY <2>6, <2>7
    <3>2. w \in t.beyond
      BY <1>1, <1>3, <2>1, <2>4, <3>1 DEF Queue
    <3>3. w \in gone
      BY <2>8, <3>2 DEF Queue
    <3> QED BY <1>1, <1>3, <2>1, <2>4, <3>1, <3>2, <3>3
  <2>9. ASSUME NEW v \in u.beyond, NEW w \in Vars, u.place[w] >= u.place[v]
        PROVE  w \in u.beyond
    <3>1. v \in Vars /\ t.place[v] > t.place[x] /\ t.place[w] >= t.place[v]
      BY <1>1, <2>3, <2>6, <2>7, <2>9
    <3> QED BY <1>1, <1>3, <2>4, <2>6, <3>1
  <2>10. Ordered(u) /\ Behind(u, u.unassigned) \subseteq u.beyond
    BY <1>3, <2>3 DEF Ordered, Behind
  <2>11. unassign(t, gone) = u
    BY <1>2, <1>5, <2>2
  <2> QED BY <1>1, <2>3, <2>5, <2>8, <2>9, <2>10, <2>11
<1> QED BY <1>4, <1>5

(* The height of the level that goes first.                                *)
Height(t, n) == t.control[n + 1]

(* The literals of T come, in their order, from the positions pos of the   *)
(* trail, which are those below the height and those of a lower level.     *)
Positions(t, n, T, pos) ==
    /\ \A i \in 1..Len(T) : T[i] = t.trail[pos[i]] /\ LevelOf(t, T[i]) <= n
    /\ \A i \in 1..Height(t, n) : pos[i] = i
    /\ \A i \in (Height(t, n) + 1)..Len(T) : pos[i] > Height(t, n)
    /\ \A i, j \in 1..Len(T) : i < j <=> pos[i] < pos[j]
    /\ \A j \in 1..Len(t.trail) : j <= Height(t, n) \/ LevelOf(t, t.trail[j]) <= n =>
          \E i \in 1..Len(T) : pos[i] = j

(* Which positions stay, and where.                                        *)
LEMMA KeptTrail ==
    ASSUME NEW t, Stack(t), NEW n \in 0..(Level(t) - 1)
    PROVE  LET h == Height(t, n)
               T == Subsequence(t.trail, (1..h) \cup Kept(t, n))
           IN  /\ h \in 0..t.propagated /\ h \in Nat /\ h <= Len(t.trail)
               /\ T \in Seq(Literals(Vars))
               /\ Len(T) \in h..Len(t.trail)
               /\ \E pos \in [1..Len(T) -> 1..Len(t.trail)] : Positions(t, n, T, pos)
<1> DEFINE h == Height(t, n)
           l == Len(t.trail)
           K == Kept(t, n)
           P == (1..h) \cup K
           T == Subsequence(t.trail, P)
           pos == [i \in 1..Cardinality(P) |-> Nth(P, i)]
<1>1. /\ t \in Stacks /\ l \in Nat /\ Level(t) \in Nat /\ t.propagated \in Nat
      /\ n + 1 \in 1..Level(t) /\ n \in Nat
      /\ \A i \in 1..l : t.trail[i] \in Literals(Vars) /\ LevelOf(t, t.trail[i]) \in Nat
      /\ \A k \in 1..Level(t) : t.control[k] \in Nat
  BY StackFields DEF Stack
<1>2. h \in Nat /\ h <= t.propagated /\ h <= l
  BY <1>1 DEF Stack, Heights, Height
<1>3. K = {i \in (h + 1)..l : LevelOf(t, t.trail[i]) <= n}
  BY DEF Kept, Height
<1>4. h \in 0..l /\ K \subseteq (h + 1)..l
  BY <1>1, <1>2, <1>3
<1> HIDE DEF h, K
<1>5. /\ Cardinality(P) \in h..l
      /\ \A i \in 1..Cardinality(P) : Nth(P, i) \in P
      /\ \A i \in 1..h : Nth(P, i) = i
      /\ \A i \in (h + 1)..Cardinality(P) : Nth(P, i) \in K
      /\ \A p \in P : \E i \in 1..Cardinality(P) : Nth(P, i) = p
      /\ \A i, j \in 1..Cardinality(P) : i < j <=> Nth(P, i) < Nth(P, j)
  BY <1>1, <1>4, KeptPositions
<1>6. P \subseteq 1..l
  <2>1. \A p \in 1..h : p \in 1..l
    BY <1>1, <1>2
  <2>2. \A p \in (h + 1)..l : p \in 1..l
    BY <1>1, <1>2
  <2> QED BY <1>4, <2>1, <2>2
<1>7. T = [i \in 1..Cardinality(P) |-> t.trail[Nth(P, i)]] /\ Cardinality(P) \in Nat
  BY <1>1, <1>2, <1>5 DEF Subsequence
<1> DEFINE m == Cardinality(P)
<1> HIDE DEF P
<1>8. \A i \in 1..m : Nth(P, i) \in 1..l /\ t.trail[Nth(P, i)] \in Literals(Vars)
  BY <1>1, <1>5, <1>6
<1> HIDE DEF m, T
<1>9. /\ T \in Seq(Literals(Vars)) /\ Len(T) = m
      /\ \A i \in 1..m : T[i] = t.trail[Nth(P, i)]
  BY <1>7, <1>8 DEF m
<1>10. pos \in [1..m -> 1..l] /\ \A i \in 1..m : pos[i] = Nth(P, i)
  BY <1>8 DEF m
<1> HIDE DEF pos
<1>11. m \in h..l /\ m \in Nat
  BY <1>1, <1>2, <1>5 DEF m
<1>12. ASSUME NEW p \in P
       PROVE  LevelOf(t, t.trail[p]) <= n
  <2>1. CASE p \in K
    BY <1>3, <2>1 DEF K
  <2>2. CASE p \in 1..h
    <3>1. p \in 1..l /\ p <= h /\ p \in Nat
      BY <1>6, <2>2
    <3>2. \A k \in 1..LevelOf(t, t.trail[p]) : t.control[k] < p
      BY <3>1 DEF Stack, Levels
    <3>3. LevelOf(t, t.trail[p]) \in Nat
      BY <1>1, <3>1
    <3>4. ~(n + 1 \in 1..LevelOf(t, t.trail[p]))
      BY <1>1, <1>2, <3>1, <3>2 DEF h, Height
    <3> QED BY <1>1, <3>3, <3>4
  <2> QED BY <2>1, <2>2 DEF P
<1>13. \A i \in 1..m : T[i] = t.trail[pos[i]] /\ LevelOf(t, T[i]) <= n
  BY <1>5, <1>9, <1>10, <1>12 DEF m
<1>14. \A i \in 1..h : pos[i] = i
  BY <1>2, <1>5, <1>10, <1>11
<1>15. \A i \in (h + 1)..m : pos[i] > h
  <2> SUFFICES ASSUME NEW i \in (h + 1)..m
               PROVE  pos[i] > h
    OBVIOUS
  <2>1. i \in 1..m
    BY <1>2, <1>11
  <2>2. pos[i] \in K
    BY <1>5, <1>10, <2>1 DEF m
  <2>3. pos[i] \in (h + 1)..l
    BY <1>4, <2>2
  <2> HIDE DEF l
  <2> QED BY <1>1, <1>2, <2>3
<1>16. \A i, j \in 1..m : i < j <=> pos[i] < pos[j]
  BY <1>5, <1>10 DEF m
<1>17. ASSUME NEW j \in 1..l, j <= h \/ LevelOf(t, t.trail[j]) <= n
       PROVE  \E i \in 1..m : pos[i] = j
  <2>1. j \in 1..h \/ j \in (h + 1)..l
    BY <1>1, <1>2
  <2>2. j \in P
    BY <1>2, <1>3, <1>17, <2>1 DEF P, K
  <2> QED BY <1>5, <1>10, <2>2 DEF m
<1>18. /\ h \in 0..t.propagated /\ h \in Nat /\ h <= l
       /\ T \in Seq(Literals(Vars)) /\ Len(T) \in h..l
       /\ \E f \in [1..Len(T) -> 1..l] : Positions(t, n, T, f)
  <2>1. h \in 0..t.propagated
    BY <1>1, <1>2
  <2>2. Positions(t, n, T, pos)
    BY <1>9, <1>13, <1>14, <1>15, <1>16, <1>17 DEF Positions, h
  <2> QED BY <1>2, <1>9, <1>10, <1>11, <2>1, <2>2
<1> QED BY <1>18 DEF h, T, P, K

(* The stack after backtracking: the literals of the levels that stay, at  *)
(* places in the same order as before.                                     *)
Retained(t, n, u) ==
    /\ u \in Stacks /\ Queue(u)
    /\ Level(u) = n /\ u.propagated = Height(t, n)
    /\ Height(t, n) \in 0..t.propagated
    /\ Height(t, n) <= Len(u.trail) /\ Len(u.trail) <= Len(t.trail)
    /\ \A k \in 1..n : u.control[k] = t.control[k]
    /\ HoldsIn(u) = {lit \in HoldsIn(t) : LevelOf(t, lit) <= n}
    /\ \A lit \in Literals(Vars) : lit \in HoldsIn(u) \/ -lit \in HoldsIn(u) =>
          /\ LevelOf(u, lit) = LevelOf(t, lit)
          /\ u.reason[vidx(lit)] = t.reason[vidx(lit)]
    /\ \E pos \in [1..Len(u.trail) -> 1..Len(t.trail)] : Positions(t, n, u.trail, pos)

(* What backtracking does to the stack.                                    *)
LEMMA BacktrackShape ==
    ASSUME NEW t, Stack(t), NEW n \in 0..(Level(t) - 1)
    PROVE  Retained(t, n, backtrack(t, n))
<1> DEFINE h == Height(t, n)
           gone == Gone(t, n)
           T == Subsequence(t.trail, (1..h) \cup Kept(t, n))
<1>1. /\ t \in Stacks /\ Queue(t) /\ Level(t) \in Nat /\ t.control \in Seq(Nat)
      /\ n \in Nat /\ n + 1 \in 1..Level(t) /\ n # Level(t) /\ t.propagated \in Nat
      /\ \A i \in 1..Len(t.trail) : t.trail[i] \in Literals(Vars)
      /\ HoldsIn(t) = {t.trail[i] : i \in 1..Len(t.trail)}
  <2>1. t \in Stacks /\ Queue(t) /\ Level(t) \in Nat
    BY StackFields DEF Stack
  <2>2. n \in Nat /\ n + 1 \in 1..Level(t) /\ n # Level(t)
    BY <2>1
  <2> QED BY <2>1, <2>2, StackFields
<1>2. /\ h \in 0..t.propagated /\ h \in Nat /\ h <= Len(t.trail)
      /\ T \in Seq(Literals(Vars)) /\ Len(T) \in h..Len(t.trail)
  BY KeptTrail
<1>20. PICK pos \in [1..Len(T) -> 1..Len(t.trail)] : Positions(t, n, T, pos)
  BY KeptTrail
<1>3. /\ \A i \in 1..Len(T) : T[i] = t.trail[pos[i]] /\ LevelOf(t, T[i]) <= n
      /\ \A i \in 1..h : pos[i] = i
      /\ \A j \in 1..Len(t.trail) : j <= h \/ LevelOf(t, t.trail[j]) <= n =>
            \E i \in 1..Len(T) : pos[i] = j
  BY <1>20, Zenon DEF Positions
<1>4. /\ gone \in SUBSET Vars
      /\ \A v \in gone : \E j \in 1..Len(t.trail) :
            v = vidx(t.trail[j]) /\ ~(LevelOf(t, t.trail[j]) <= n)
      /\ \A j \in 1..Len(t.trail) : ~(LevelOf(t, t.trail[j]) <= n) => vidx(t.trail[j]) \in gone
  <2> DEFINE l == Len(t.trail)
  <2>1. \A j \in (h + 1)..l : j \in 1..l
    BY <1>2
  <2>2. gone = {vidx(t.trail[j]) : j \in ((h + 1)..l) \ Kept(t, n)}
    BY DEF Gone, Height
  <2>3. Kept(t, n) = {j \in (h + 1)..l : LevelOf(t, t.trail[j]) <= n}
    BY DEF Kept, Height
  <2>4. \A j \in 1..l : vidx(t.trail[j]) \in Vars
    BY <1>1, LiteralFacts
  <2>5. ASSUME NEW j \in 1..l, ~(LevelOf(t, t.trail[j]) <= n)
        PROVE  vidx(t.trail[j]) \in gone
    <3>1. ~(j <= h)
      <4>1. ASSUME j <= h
            PROVE  FALSE
        <5>1. j \in 1..h
          BY <1>2, <4>1
        <5>2. j \in 1..Len(T)
          BY <1>1, <1>2, <5>1, StackFields
        <5> QED BY <1>3, <2>5, <5>1, <5>2
      <4> QED BY <4>1
    <3>2. j \in ((h + 1)..l) \ Kept(t, n)
      BY <1>2, <2>3, <2>5, <3>1
    <3> QED BY <2>2, <3>2
  <2> HIDE DEF gone, h, l
  <2> QED BY <2>1, <2>2, <2>3, <2>4, <2>5 DEF l
<1> HIDE DEF gone
<1>5. PICK m : m = unassign(t, gone)
  OBVIOUS
<1>6. /\ m \in Stacks /\ Ordered(m)
      /\ m.trail = t.trail /\ m.control = t.control /\ m.propagated = t.propagated
      /\ m.level = [v \in Vars |-> IF v \in gone THEN 0 ELSE t.level[v]]
      /\ m.reason = [v \in Vars |-> IF v \in gone THEN NoReason ELSE t.reason[v]]
      /\ \A v \in m.beyond, w \in Vars : m.place[w] >= m.place[v] => w \in m.beyond
      /\ Behind(m, m.unassigned) \subseteq m.beyond
      /\ m.beyond \cap (Free(t) \cup gone) = {}
  BY <1>1, <1>4, <1>5, UnassignFields
<1>7. PICK u : u = backtrack(t, n)
  OBVIOUS
<1>8. u = [m EXCEPT !.trail = T, !.control = SubSeq(t.control, 1, n),
                    !.propagated = Min({t.propagated, h})]
  BY <1>1, <1>5, <1>6, <1>7 DEF backtrack, Height, gone
<1>9. Min({t.propagated, h}) = h
  <2> DEFINE S == {t.propagated, h}
  <2>1. S \subseteq Nat /\ S # {}
    BY <1>1, <1>2
  <2>2. Min(S) \in S /\ \A y \in S : Min(S) <= y
    BY <2>1, MinOfNats
  <2> DEFINE x == Min(S)
  <2>3. x \in S /\ \A y \in S : x <= y
    BY <2>2
  <2> HIDE DEF x
  <2>4. x = h
    BY <1>1, <1>2, <2>3
  <2> QED BY <2>4 DEF x
<1> HIDE DEF T
<1>10. /\ u.trail = T /\ u.control = SubSeq(t.control, 1, n) /\ u.propagated = h
       /\ u.level = m.level /\ u.reason = m.reason
       /\ u.place = m.place /\ u.unassigned = m.unassigned /\ u.beyond = m.beyond
  BY <1>6, <1>8, <1>9 DEF Stacks
<1>11. /\ u.control \in Seq(Nat) /\ Level(u) = n
       /\ \A k \in 1..n : u.control[k] = t.control[k]
  <2>1. Len(t.control) \in Nat /\ n <= Len(t.control)
    BY <1>1 DEF Level
  <2>2. \A k \in 1..n : t.control[k] \in Nat
    BY <1>1, StackFields
  <2>3. u.control = [k \in 1..n |-> t.control[k]]
    BY <1>1, <1>10, <2>1
  <2> QED BY <1>1, <2>2, <2>3 DEF Level
<1>12. u \in Stacks
  BY <1>2, <1>6, <1>8, <1>9, <1>10, <1>11, ZenonT(30) DEF Stacks
<1>13. HoldsIn(u) = {lit \in HoldsIn(t) : LevelOf(t, lit) <= n}
  <2>1. HoldsIn(u) = {T[i] : i \in 1..Len(T)}
    <3>1. HoldsIn(u) = {u.trail[i] : i \in 1..Len(u.trail)}
      BY <1>12, StackFields
    <3> QED BY <1>10, <3>1
  <2>2. ASSUME NEW lit \in HoldsIn(u)
        PROVE  lit \in HoldsIn(t) /\ LevelOf(t, lit) <= n
    <3>1. PICK i \in 1..Len(T) : lit = T[i]
      BY <2>1
    <3> QED BY <1>1, <1>3, <3>1
  <2>3. ASSUME NEW lit \in HoldsIn(t), LevelOf(t, lit) <= n
        PROVE  lit \in HoldsIn(u)
    <3>1. PICK j \in 1..Len(t.trail) : lit = t.trail[j]
      BY <1>1
    <3>2. PICK i \in 1..Len(T) : pos[i] = j
      BY <1>3, <2>3, <3>1
    <3> QED BY <1>3, <2>1, <3>1, <3>2
  <2> QED BY <2>2, <2>3
<1>14. ASSUME NEW lit \in Literals(Vars), lit \in HoldsIn(u) \/ -lit \in HoldsIn(u)
       PROVE  /\ LevelOf(u, lit) = LevelOf(t, lit)
              /\ u.reason[vidx(lit)] = t.reason[vidx(lit)]
  <2>1. LevelOf(t, lit) <= n
    BY <1>1, <1>13, <1>14, StackFields
  <2>2. vidx(lit) \in Vars
    BY LiteralFacts
  <2>3. vidx(lit) \notin gone
    BY <1>4, <2>1 DEF LevelOf
  <2> QED BY <1>6, <1>10, <2>2, <2>3 DEF LevelOf
<1>15. Free(u) \subseteq Free(t) \cup gone
  <2>1. ASSUME NEW v \in Free(u), v \notin Free(t)
        PROVE  v \in gone
    <3>1. v \in Vars /\ v \notin HoldsIn(u) /\ -v \notin HoldsIn(u)
      BY DEF Free
    <3>2. PICK lit \in {v, -v} : lit \in HoldsIn(t)
      BY <2>1, <3>1 DEF Free
    <3>3. ~(LevelOf(t, lit) <= n)
      BY <1>13, <3>1, <3>2
    <3>4. vidx(lit) = v
      BY <3>1, <3>2, LiteralFacts
    <3>5. PICK j \in 1..Len(t.trail) : lit = t.trail[j]
      BY <1>1, <3>2
    <3> QED BY <1>4, <3>3, <3>4, <3>5
  <2> QED BY <2>1
<1>16. Queue(u)
  <2>1. Behind(u, u.unassigned) = Behind(m, m.unassigned)
    BY <1>10 DEF Behind
  <2> QED BY <1>6, <1>10, <1>15, <2>1 DEF Queue, Ordered
<1>17. h <= Len(u.trail) /\ Len(u.trail) <= Len(t.trail)
  BY <1>1, <1>2, <1>10, StackFields
<1> HIDE DEF h
<1>18. \E f \in [1..Len(u.trail) -> 1..Len(t.trail)] : Positions(t, n, u.trail, f)
  BY <1>10, <1>20
<1> QED BY <1>2, <1>7, <1>10, <1>11, <1>12, <1>13, <1>14, <1>16, <1>17, <1>18 DEF h, Retained

(* backtrack keeps a stack in order.                                       *)
LEMMA BacktrackKeeps ==
    ASSUME NEW t, Stack(t), NEW n \in 0..Level(t)
    PROVE  Stack(backtrack(t, n)) /\ Level(backtrack(t, n)) = n
<1>1. CASE n = Level(t)
  BY <1>1 DEF backtrack
<1>2. CASE n # Level(t)
  <2>1. /\ t \in Stacks /\ Level(t) \in Nat /\ n \in Nat /\ n + 1 \in 1..Level(t)
        /\ n \in 0..(Level(t) - 1) /\ t.propagated \in Nat
        /\ \A k \in 1..Level(t) : t.control[k] \in Nat
        /\ \A i \in 1..Len(t.trail) : t.trail[i] \in Literals(Vars)
                                      /\ LevelOf(t, t.trail[i]) \in Nat
                                      /\ t.trail[i] \in HoldsIn(t)
    <3>1. t \in Stacks /\ Level(t) \in Nat
      BY StackFields DEF Stack
    <3>2. n \in Nat /\ n + 1 \in 1..Level(t) /\ n \in 0..(Level(t) - 1)
      BY <1>2, <3>1
    <3>3. t.propagated \in Nat /\ \A k \in 1..Level(t) : t.control[k] \in Nat
      BY <3>1, StackFields
    <3>4. \A i \in 1..Len(t.trail) : t.trail[i] \in Literals(Vars) /\ t.trail[i] \in HoldsIn(t)
      BY <3>1, StackFields
    <3>5. \A i \in 1..Len(t.trail) : LevelOf(t, t.trail[i]) \in Nat
      BY <3>1, <3>4, StackFields
    <3> QED BY <3>1, <3>2, <3>3, <3>4, <3>5
  <2>2. PICK u : u = backtrack(t, n)
    OBVIOUS
  <2>3. PICK h : h = Height(t, n)
    OBVIOUS
  <2>14. Retained(t, n, u)
    BY <2>1, <2>2, BacktrackShape
  <2>4. /\ u \in Stacks /\ Queue(u)
        /\ Level(u) = n /\ u.propagated = h
        /\ h \in 0..t.propagated /\ h <= Len(u.trail) /\ Len(u.trail) <= Len(t.trail)
        /\ \A k \in 1..n : u.control[k] = t.control[k]
        /\ HoldsIn(u) = {lit \in HoldsIn(t) : LevelOf(t, lit) <= n}
        /\ \A lit \in Literals(Vars) : lit \in HoldsIn(u) \/ -lit \in HoldsIn(u) =>
              /\ LevelOf(u, lit) = LevelOf(t, lit)
              /\ u.reason[vidx(lit)] = t.reason[vidx(lit)]
    BY <2>3, <2>14 DEF Retained
  <2> DEFINE l == Len(u.trail)
  <2>15. PICK pos \in [1..l -> 1..Len(t.trail)] : Positions(t, n, u.trail, pos)
    BY <2>14 DEF Retained
  <2>5. /\ \A i \in 1..l : u.trail[i] = t.trail[pos[i]] /\ LevelOf(t, u.trail[i]) <= n
        /\ \A i \in 1..h : pos[i] = i
        /\ \A i \in (h + 1)..l : pos[i] > h
        /\ \A i, j \in 1..l : i < j <=> pos[i] < pos[j]
        /\ \A j \in 1..Len(t.trail) : j <= h \/ LevelOf(t, t.trail[j]) <= n =>
              \E i \in 1..l : pos[i] = j
    BY <2>3, <2>15, Zenon DEF Positions
  <2>6. l \in Nat /\ Len(t.trail) \in Nat /\ h \in Nat
    BY <2>1, <2>4, StackFields
  <2>7. ASSUME NEW i \in 1..l
        PROVE  /\ pos[i] \in 1..Len(t.trail) /\ pos[i] \in Nat /\ u.trail[i] = t.trail[pos[i]]
               /\ u.trail[i] \in Literals(Vars) /\ u.trail[i] \in HoldsIn(u)
               /\ LevelOf(u, u.trail[i]) = LevelOf(t, t.trail[pos[i]])
               /\ LevelOf(u, u.trail[i]) \in Nat /\ LevelOf(u, u.trail[i]) <= n
               /\ ReasonOf(u, i) = ReasonOf(t, pos[i])
    <3>1. pos[i] \in 1..Len(t.trail) /\ pos[i] \in Nat /\ u.trail[i] = t.trail[pos[i]]
      BY <2>5, <2>6
    <3>2. u.trail[i] \in Literals(Vars) /\ u.trail[i] \in HoldsIn(u)
      BY <2>4, StackFields
    <3> QED BY <2>1, <2>4, <2>5, <3>1, <3>2 DEF ReasonOf
  <2>8. \A k \in 1..n : k \in 1..Level(t) /\ t.control[k] \in Nat /\ t.control[k] <= h
    <3>1. ASSUME NEW k \in 1..n
          PROVE  k \in 1..Level(t) /\ t.control[k] \in Nat /\ t.control[k] <= h
      <4>1. k \in 1..Level(t) /\ k <= n + 1
        BY <2>1
      <4>2. t.control[k] <= t.control[n + 1]
        BY <2>1, <4>1 DEF Stack, Heights
      <4> QED BY <2>1, <2>3, <4>1, <4>2 DEF Height
    <3> QED BY <3>1
  <2> HIDE DEF l
  <2>9. Single(u)
    <3> SUFFICES ASSUME NEW i \in 1..l, NEW j \in 1..l, vidx(u.trail[i]) = vidx(u.trail[j])
                 PROVE  i = j
      BY DEF Single, l
    <3>1. pos[i] = pos[j]
      BY <2>7 DEF Stack, Single
    <3>2. ~(i < j) /\ ~(j < i)
      BY <2>5, <2>7, <3>1
    <3> QED BY <2>6, <3>2
  <2>10. Heights(u)
    <3>1. \A j, k \in 1..n : j <= k => t.control[j] <= t.control[k]
      BY <2>8 DEF Stack, Heights
    <3> QED BY <2>4, <2>8, <3>1 DEF Heights, l
  <2>11. Levels(u)
    <3> SUFFICES ASSUME NEW i \in 1..l, NEW k \in 1..LevelOf(u, u.trail[i])
                 PROVE  u.control[k] < i
      BY <2>4, <2>7 DEF Levels, l
    <3>1. k \in 1..n /\ u.control[k] = t.control[k] /\ t.control[k] <= h /\ t.control[k] \in Nat
      BY <2>1, <2>4, <2>7, <2>8
    <3>2. CASE i <= h
      <4>1. pos[i] = i
        BY <2>5, <2>6, <3>2
      <4>2. t.control[k] < pos[i]
        BY <2>7 DEF Stack, Levels
      <4> QED BY <3>1, <4>1, <4>2
    <3>3. CASE ~(i <= h)
      BY <2>6, <3>1, <3>3
    <3> QED BY <3>2, <3>3
  <2>12. Reasons(u)
    <3> SUFFICES ASSUME NEW i \in 1..l, ReasonOf(u, i) # NoReason
                 PROVE  /\ u.trail[i] \in ReasonOf(u, i)
                        /\ LevelOf(u, u.trail[i]) > 0
                        /\ LevelOf(u, u.trail[i]) = assignment_level(u, u.trail[i], ReasonOf(u, i))
                        /\ \A k \in ReasonOf(u, i) \ {u.trail[i]} :
                              \E j \in 1..(i - 1) : u.trail[j] = -k
      BY Zenon DEF Reasons, l
    <3> DEFINE r == ReasonOf(t, pos[i])
               lit == t.trail[pos[i]]
    <3>1. /\ ReasonOf(u, i) = r /\ u.trail[i] = lit /\ LevelOf(u, lit) = LevelOf(t, lit)
          /\ LevelOf(t, lit) <= n /\ lit \in Literals(Vars)
      BY <2>7
    <3>2. /\ lit \in r /\ LevelOf(t, lit) > 0
          /\ LevelOf(t, lit) = assignment_level(t, lit, r)
          /\ \A k \in r \ {lit} : \E j \in 1..(pos[i] - 1) : t.trail[j] = -k
      BY <2>7, <3>1 DEF Stack, Reasons
    <3>3. r \in SUBSET Literals(Vars)
      BY <2>1, <3>1, StackFields DEF ReasonOf
    <3> HIDE DEF lit, r
    <3>8. \A j \in 1..(pos[i] - 1) : j \in 1..Len(t.trail)
      BY <2>6, <2>7
    <3>4. \A k \in r \ {lit} : -k \in HoldsIn(t)
      BY <2>1, <3>2, <3>8
    <3>5. \A k \in r \ {lit} : LevelOf(t, k) <= LevelOf(t, lit)
      <4>1. t \in Stacks /\ Levels(t)
        BY DEF Stack
      <4>2. \A k \in r \ {lit} : LevelOf(t, k) <= assignment_level(t, lit, r)
        BY <3>1, <3>3, <3>4, <4>1, AssignmentLevel
      <4> QED BY <3>2, <4>2
    <3>6. ASSUME NEW k \in r \ {lit}
          PROVE  LevelOf(u, k) = LevelOf(t, k) /\ \E j \in 1..(i - 1) : u.trail[j] = -k
      <4>1. PICK q \in 1..(pos[i] - 1) : t.trail[q] = -k
        BY <3>2
      <4>2. q \in 1..Len(t.trail) /\ q < pos[i]
        BY <2>7
      <4>3. k \in Literals(Vars) /\ LevelOf(t, k) \in Nat /\ LevelOf(t, lit) \in Nat
        BY <2>1, <3>1, <3>3, StackFields
      <4>4. LevelOf(t, k) <= n
        BY <2>1, <3>1, <3>5, <4>3
      <4>5. LevelOf(t, t.trail[q]) <= n
        BY <2>1, <4>1, <4>3, <4>4, StackFields
      <4>6. PICK j \in 1..l : pos[j] = q
        BY <2>5, <4>2, <4>5
      <4>7. j < i
        BY <2>5, <4>2, <4>6
      <4>8. u.trail[j] = -k /\ -k \in HoldsIn(u)
        BY <2>7, <4>1, <4>6
      <4> QED BY <2>4, <2>6, <4>3, <4>7, <4>8
    <3>7. assignment_level(u, lit, r) = assignment_level(t, lit, r)
      BY <3>6, SameAssignmentLevel
    <3> QED BY <3>1, <3>2, <3>6, <3>7
  <2>13. Decisions(u)
    <3> SUFFICES ASSUME NEW i \in 1..l, ReasonOf(u, i) = NoReason, LevelOf(u, u.trail[i]) > 0
                 PROVE  /\ i = u.control[LevelOf(u, u.trail[i])] + 1
                        /\ \A k \in (LevelOf(u, u.trail[i]) + 1)..n : i <= u.control[k]
      BY <2>4 DEF Decisions, l
    <3> DEFINE d == LevelOf(u, u.trail[i])
    <3>1. d \in 1..n /\ d \in Nat /\ d = LevelOf(t, t.trail[pos[i]])
      BY <2>1, <2>7
    <3> HIDE DEF d
    <3>2. pos[i] = t.control[d] + 1 /\ \A k \in (d + 1)..Level(t) : pos[i] <= t.control[k]
      BY <2>7, <3>1 DEF Stack, Decisions, d
    <3>3. pos[i] <= h
      <4>1. n + 1 \in (d + 1)..Level(t)
        BY <2>1, <3>1
      <4> QED BY <2>3, <3>2, <4>1 DEF Height
    <3>4. i = pos[i]
      <4>1. i \in 1..h \/ i \in (h + 1)..l
        BY <2>6
      <4>2. ~(pos[i] > h)
        BY <2>6, <2>7, <3>3
      <4> QED BY <2>5, <4>1, <4>2
    <3>5. \A k \in (d + 1)..n : k \in (d + 1)..Level(t) /\ k \in 1..n
      <4>1. n \in Nat /\ Level(t) \in Nat /\ n < Level(t) /\ d \in Nat /\ d >= 1
        BY <2>1, <3>1
      <4> QED BY <4>1
    <3>6. i = u.control[d] + 1
      BY <2>4, <3>1, <3>2, <3>4
    <3>7. \A k \in (d + 1)..n : i <= u.control[k]
      BY <2>4, <3>2, <3>4, <3>5
    <3> QED BY <3>6, <3>7, Zenon DEF d
  <2> QED BY <2>2, <2>4, <2>9, <2>10, <2>11, <2>12, <2>13 DEF Stack
<1> QED BY <1>1, <1>2

-----------------------------------------------------------------------------
(* Watches.                                                                *)

(* A set of two elements and pairs as its subsets.                         *)
LEMMA Pairs ==
    /\ \A c \in SUBSET Literals(Vars) : IsFiniteSet(c) /\ Cardinality(c) \in Nat
    /\ \A c : \A x, y \in c : x # y => {x, y} \in kSubset(2, c)
    /\ \A c : \A W \in kSubset(2, c) : W \in SUBSET c
    /\ \A c \in SUBSET Literals(Vars) : \A W \in kSubset(2, c) :
          \A x \in W : \E y \in W : y # x /\ W = {x, y}
    /\ \A c \in SUBSET Literals(Vars) : \A W \in kSubset(2, c) : \E x \in W : TRUE
    /\ \A c \in SUBSET Literals(Vars) : Cardinality(c) = 2 =>
          c \in kSubset(2, c) /\ \A W \in kSubset(2, c) : W = c
<1>1. IsFiniteSet(Literals(Vars))
  <2> DEFINE N == Negated(Vars)
             f == [v \in Vars |-> -v]
  <2>1. \A v \in Vars : v \in Int
    BY VarsAssumption
  <2>2. f \in Surjection(Vars, N)
    <3>1. f \in [Vars -> N] /\ \A y \in N : \E v \in Vars : f[v] = y
      BY DEF Negated
    <3> QED BY <3>1 DEF Surjection
  <2>3. IsFiniteSet(N)
    BY <2>2, VarsAssumption, FS_Surjection
  <2> QED BY <2>3, VarsAssumption, FS_Union DEF Literals
<1>2. \A c \in SUBSET Literals(Vars) : IsFiniteSet(c) /\ Cardinality(c) \in Nat
  BY <1>1, FS_Subset, FS_CardinalityType
<1>3. \A x, y : x # y => IsFiniteSet({x, y}) /\ Cardinality({x, y}) = 2
  <2> SUFFICES ASSUME NEW x, NEW y, x # y
               PROVE  IsFiniteSet({x, y}) /\ Cardinality({x, y}) = 2
    OBVIOUS
  <2>1. IsFiniteSet({x}) /\ Cardinality({x}) = 1
    BY FS_Singleton
  <2>2. {x, y} = {x} \cup {y} /\ y \notin {x}
    OBVIOUS
  <2> QED BY <2>1, <2>2, FS_AddElement
<1>4. ASSUME NEW c \in SUBSET Literals(Vars), NEW W \in kSubset(2, c)
      PROVE  /\ \A x \in W : \E y \in W : y # x /\ W = {x, y}
             /\ \E x \in W : TRUE
  <2>1. W \in SUBSET Literals(Vars) /\ Cardinality(W) = 2 /\ IsFiniteSet(W)
    BY <1>2 DEF kSubset
  <2>2. ASSUME NEW x \in W
        PROVE  \E y \in W : y # x /\ W = {x, y}
    <3>1. IsFiniteSet(W \ {x}) /\ Cardinality(W \ {x}) = 1
      BY <2>1, FS_RemoveElement
    <3>2. PICK y : W \ {x} = {y}
      BY <3>1, FS_Singleton
    <3> QED BY <3>2
  <2>3. W # {}
    BY <2>1, FS_EmptySet
  <2> QED BY <2>2, <2>3
<1>5. ASSUME NEW c \in SUBSET Literals(Vars), Cardinality(c) = 2
      PROVE  c \in kSubset(2, c) /\ \A W \in kSubset(2, c) : W = c
  <2>1. IsFiniteSet(c)
    BY <1>2
  <2> QED BY <1>5, <2>1, FS_Subset DEF kSubset
<1>6. \A c : \A x, y \in c : x # y => {x, y} \in kSubset(2, c)
  BY <1>3 DEF kSubset
<1>7. \A c : \A W \in kSubset(2, c) : W \in SUBSET c
  BY DEF kSubset
<1> QED BY <1>2, <1>4, <1>5, <1>6, <1>7

(* Assigning a literal leaves the guards in place.                         *)
LEMMA GuardedAssign ==
    ASSUME NEW t \in Stacks, Levels(t), NEW lit, NEW r, Assignable(t, lit, r),
           NEW c, NEW W, NEW m \in Nat, m <= Len(t.trail), Guarded(t, c, W, m)
    PROVE  Guarded(search_assign(t, lit, r), c, W, m)
<1>1. PICK u : u = search_assign(t, lit, r)
  OBVIOUS
<1>2. /\ u.control = t.control /\ Level(u) = Level(t)
      /\ Len(u.trail) = Len(t.trail) + 1 /\ Len(t.trail) \in Nat
      /\ \A i \in 1..Len(t.trail) : u.trail[i] = t.trail[i]
      /\ \A i \in 1..Len(t.trail) : t.trail[i] \in Literals(Vars) /\ t.trail[i] \in HoldsIn(t)
      /\ \A k \in Literals(Vars) : k \in HoldsIn(t) \/ -k \in HoldsIn(t) =>
            LevelOf(u, k) = LevelOf(t, k)
  <2>1. /\ u.control = t.control /\ Level(u) = Level(t)
        /\ Len(u.trail) = Len(t.trail) + 1
        /\ \A i \in 1..Len(t.trail) : u.trail[i] = t.trail[i]
        /\ \A k \in Literals(Vars) : k \in HoldsIn(t) \/ -k \in HoldsIn(t) =>
              LevelOf(u, k) = LevelOf(t, k)
    BY <1>1, AssignResult
  <2>2. /\ Len(t.trail) \in Nat
        /\ \A i \in 1..Len(t.trail) : t.trail[i] \in Literals(Vars) /\ t.trail[i] \in HoldsIn(t)
    BY StackFields
  <2> QED BY <2>1, <2>2
<1>3. ASSUME NEW w \in W, NEW i \in 1..m, u.trail[i] = -w
      PROVE  \E j \in 1..Len(u.trail) :
                /\ u.trail[j] \in c
                /\ \A k \in 1..Level(u) : i <= u.control[k] =>
                      j <= u.control[k] \/ LevelOf(u, u.trail[j]) < k
  <2>1. i \in 1..Len(t.trail) /\ t.trail[i] = -w
    BY <1>2, <1>3
  <2>2. PICK j \in 1..Len(t.trail) :
           /\ t.trail[j] \in c
           /\ \A k \in 1..Level(t) : i <= t.control[k] =>
                 j <= t.control[k] \/ LevelOf(t, t.trail[j]) < k
    BY <2>1 DEF Guarded
  <2>3. j \in 1..Len(u.trail) /\ u.trail[j] = t.trail[j] /\ LevelOf(u, u.trail[j]) = LevelOf(t, t.trail[j])
    BY <1>2
  <2> QED BY <1>2, <2>2, <2>3
<1> QED BY <1>1, <1>3 DEF Guarded

(* A guard holds of fewer literals, and of the same trail.                 *)
LEMMA GuardedSame ==
    ASSUME NEW t, NEW u, u.trail = t.trail, u.level = t.level, NEW c, NEW W,
           NEW m \in Nat, NEW n \in Nat, n <= m, Guarded(t, c, W, m),
           u.control = t.control
    PROVE  Guarded(u, c, W, n)
<1>1. \A lit : LevelOf(u, lit) = LevelOf(t, lit)
  BY DEF LevelOf
<1>2. \A i \in 1..n : i \in 1..m
  OBVIOUS
<1> QED BY <1>1, <1>2 DEF Guarded, Level

(* Opening a level leaves the guards in place.                             *)
LEMMA GuardedOpen ==
    ASSUME NEW t, Stack(t), t.propagated = Len(t.trail), NEW c, NEW W, NEW m,
           Guarded(t, c, W, m)
    PROVE  Guarded([t EXCEPT !.control = Append(@, Len(t.trail))], c, W, m)
<1>1. PICK u : u = [t EXCEPT !.control = Append(@, Len(t.trail))]
  OBVIOUS
<1>2. /\ Level(u) = Level(t) + 1 /\ u.control[Level(u)] = Len(u.trail)
      /\ \A k \in 1..Level(t) : u.control[k] = t.control[k]
      /\ u.trail = t.trail /\ u.level = t.level
  BY <1>1, OpenKeeps
<1>3. Level(t) \in Nat /\ Len(t.trail) \in Nat
  BY StackFields DEF Stack
<1>4. ASSUME NEW w \in W, NEW i \in 1..m, u.trail[i] = -w
      PROVE  \E j \in 1..Len(u.trail) :
                /\ u.trail[j] \in c
                /\ \A k \in 1..Level(u) : i <= u.control[k] =>
                      j <= u.control[k] \/ LevelOf(u, u.trail[j]) < k
  <2>1. PICK j \in 1..Len(t.trail) :
           /\ t.trail[j] \in c
           /\ \A k \in 1..Level(t) : i <= t.control[k] =>
                 j <= t.control[k] \/ LevelOf(t, t.trail[j]) < k
    BY <1>2, <1>4 DEF Guarded
  <2>2. ASSUME NEW k \in 1..Level(u), i <= u.control[k]
        PROVE  j <= u.control[k] \/ LevelOf(u, u.trail[j]) < k
    <3>1. CASE k = Level(u)
      BY <1>2, <1>3, <3>1
    <3>2. CASE k # Level(u)
      <4>1. k \in 1..Level(t)
        BY <1>2, <1>3, <3>2
      <4> QED BY <1>2, <2>1, <2>2, <4>1 DEF LevelOf
    <3> QED BY <3>1, <3>2
  <2> QED BY <1>2, <2>1, <2>2
<1> QED BY <1>1, <1>4 DEF Guarded

(* Backtracking leaves the guards of the literals that stay propagated in  *)
(* place: the true literal stays as long as the false one.                 *)
LEMMA GuardedBacktrack ==
    ASSUME NEW t, Stack(t), NEW n \in 0..(Level(t) - 1), NEW c, NEW W,
           NEW m \in Nat, Height(t, n) <= m, Guarded(t, c, W, m)
    PROVE  Guarded(backtrack(t, n), c, W, Height(t, n))
<1>1. PICK u : u = backtrack(t, n)
  OBVIOUS
<1>2. PICK h : h = Height(t, n)
  OBVIOUS
<1>3. Retained(t, n, u)
  BY <1>1, BacktrackShape
<1>4. /\ u \in Stacks /\ Level(u) = n /\ h \in 0..t.propagated /\ h <= Len(u.trail)
      /\ \A k \in 1..n : u.control[k] = t.control[k]
      /\ \A lit \in Literals(Vars) : lit \in HoldsIn(u) \/ -lit \in HoldsIn(u) =>
            LevelOf(u, lit) = LevelOf(t, lit)
  BY <1>2, <1>3 DEF Retained
<1>5. PICK pos \in [1..Len(u.trail) -> 1..Len(t.trail)] : Positions(t, n, u.trail, pos)
  BY <1>3 DEF Retained
<1>6. /\ \A i \in 1..Len(u.trail) : u.trail[i] = t.trail[pos[i]] /\ LevelOf(t, u.trail[i]) <= n
      /\ \A i \in 1..h : pos[i] = i
      /\ \A i \in (h + 1)..Len(u.trail) : pos[i] > h
      /\ \A j \in 1..Len(t.trail) : j <= h \/ LevelOf(t, t.trail[j]) <= n =>
            \E i \in 1..Len(u.trail) : pos[i] = j
  BY <1>2, <1>5, Zenon DEF Positions
<1>7. /\ t \in Stacks /\ Level(t) \in Nat /\ Len(t.trail) \in Nat /\ t.propagated \in Nat
      /\ \A i \in 1..Len(t.trail) : LevelOf(t, t.trail[i]) \in Nat
  BY StackFields DEF Stack
<1>8. /\ h \in Nat /\ n \in Nat /\ n + 1 \in 1..Level(t) /\ t.control[n + 1] = h
      /\ Len(u.trail) \in Nat
  BY <1>2, <1>4, <1>7, StackFields DEF Height
<1>9. ASSUME NEW w \in W, NEW i \in 1..h, u.trail[i] = -w
      PROVE  \E j \in 1..Len(u.trail) :
                /\ u.trail[j] \in c
                /\ \A k \in 1..Level(u) : i <= u.control[k] =>
                      j <= u.control[k] \/ LevelOf(u, u.trail[j]) < k
  <2>1. i \in 1..Len(u.trail) /\ i \in 1..m /\ i <= h /\ pos[i] = i
    BY <1>2, <1>4, <1>6, <1>8
  <2>2. t.trail[i] = -w
    BY <1>6, <1>9, <2>1
  <2>3. PICK q \in 1..Len(t.trail) :
           /\ t.trail[q] \in c
           /\ \A k \in 1..Level(t) : i <= t.control[k] =>
                 q <= t.control[k] \/ LevelOf(t, t.trail[q]) < k
    BY <2>1, <2>2 DEF Guarded
  <2>4. q <= h \/ LevelOf(t, t.trail[q]) < n + 1
    BY <1>8, <2>1, <2>3
  <2>5. q <= h \/ LevelOf(t, t.trail[q]) <= n
    BY <1>7, <1>8, <2>4
  <2>6. PICK j \in 1..Len(u.trail) : pos[j] = q
    BY <1>6, <2>5
  <2>7. u.trail[j] = t.trail[q] /\ u.trail[j] \in Literals(Vars) /\ u.trail[j] \in HoldsIn(u)
    <3>1. u.trail[j] = t.trail[q]
      BY <1>6, <2>6
    <3>2. u \in Stacks
      BY <1>4
    <3>3. u.trail[j] \in Literals(Vars) /\ u.trail[j] \in HoldsIn(u)
      BY <2>6, <3>2, StackFields
    <3> QED BY <3>1, <3>3
  <2>8. LevelOf(u, u.trail[j]) = LevelOf(t, t.trail[q])
    BY <1>4, <2>7
  <2>9. ASSUME NEW k \in 1..n, i <= u.control[k]
        PROVE  j <= u.control[k] \/ LevelOf(u, u.trail[j]) < k
    <3>1. k \in 1..Level(t) /\ k <= n + 1
      BY <1>7, <1>8
    <3>2. u.control[k] = t.control[k] /\ t.control[k] <= h /\ t.control[k] \in Nat
      BY <1>4, <1>7, <1>8, <3>1, StackFields DEF Stack, Heights
    <3>3. q <= t.control[k] \/ LevelOf(t, t.trail[q]) < k
      BY <2>3, <2>9, <3>1, <3>2
    <3>4. CASE q <= t.control[k]
      <4>1. q <= h
        BY <1>7, <1>8, <3>2, <3>4
      <4>2. j \in 1..h \/ j \in (h + 1)..Len(u.trail)
        BY <1>8
      <4>3. ~(pos[j] > h)
        BY <1>7, <1>8, <2>6, <4>1
      <4>4. j = q
        BY <1>6, <2>6, <4>2, <4>3
      <4> QED BY <3>2, <3>4, <4>4
    <3>5. CASE LevelOf(t, t.trail[q]) < k
      BY <2>8, <3>5
    <3> QED BY <3>3, <3>4, <3>5
  <2> QED BY <1>4, <2>3, <2>7, <2>9
<1> QED BY <1>1, <1>2, <1>9 DEF Guarded

-----------------------------------------------------------------------------
(* propagate() keeps the stack, the watches and their guards in order.     *)

(* The watch under propagation and the other one.                          *)
LEMMA VisitedWatch ==
    ASSUME Core, NEW c \in visiting
    PROVE  /\ c \in Clauses /\ c \in SUBSET Literals(Vars)
           /\ s.propagated \in 1..Len(s.trail) /\ s.trail[s.propagated] = -Falsum
           /\ Falsum \in Literals(Vars) /\ Falsum \in c /\ -Falsum \in Holds
           /\ OtherWatch(c) \in c /\ OtherWatch(c) # Falsum /\ OtherWatch(c) \in Literals(Vars)
           /\ watched[c] = {Falsum, OtherWatch(c)}
           /\ \A k \in 1..Level(s) : s.control[k] < s.propagated
           /\ s.propagated \in Nat /\ s.propagated - 1 \in Nat
<1>1. c \in Clauses /\ c \in SUBSET Literals(Vars) /\ watched[c] \in kSubset(2, c)
  BY DEF Core, Database, Visits, Clauses, LongClauses
<1>2. /\ s \in Stacks /\ s.propagated \in Nat /\ Len(s.trail) \in Nat
      /\ s.propagated <= Len(s.trail)
      /\ \A i \in 1..Len(s.trail) : s.trail[i] \in Literals(Vars) /\ s.trail[i] \in Holds
  <2>1. s \in Stacks /\ s.propagated <= Len(s.trail) /\ Holds = HoldsIn(s)
    BY DEF Core, Stack, Heights, Holds, HoldsIn
  <2> QED BY <2>1, StackFields
<1>3. /\ s.propagated >= 1 /\ (\A k \in 1..Level(s) : s.control[k] < s.propagated)
      /\ Falsum \in watched[c]
  BY DEF Core, Visits, Quiet
<1>4. s.propagated \in 1..Len(s.trail) /\ s.propagated - 1 \in Nat
  BY <1>2, <1>3
<1>5. Falsum \in Literals(Vars) /\ s.trail[s.propagated] = -Falsum /\ -Falsum \in Holds
  BY <1>2, <1>4, LiteralFacts DEF Falsum
<1>6. \E y \in watched[c] : y # Falsum /\ watched[c] = {Falsum, y}
  BY <1>1, <1>3, Pairs
<1>7. OtherWatch(c) \in watched[c] /\ OtherWatch(c) # Falsum
  BY <1>6 DEF OtherWatch
<1>8. watched[c] = {Falsum, OtherWatch(c)}
  BY <1>6, <1>7
<1>9. watched[c] \subseteq c
  BY <1>1, Pairs
<1> QED BY <1>1, <1>2, <1>3, <1>4, <1>5, <1>7, <1>8, <1>9

(* A visited clause with a true literal is guarded up to the literal       *)
(* propagated: no level lies between that and the end of the trail.        *)
LEMMA GuardedSatisfied ==
    ASSUME NEW t, Stack(t), NEW c, NEW W, t.propagated \in Nat, t.propagated >= 1,
           \A k \in 1..Level(t) : t.control[k] < t.propagated,
           Guarded(t, c, W, t.propagated - 1),
           NEW lit \in c, lit \in HoldsIn(t)
    PROVE  Guarded(t, c, W, t.propagated)
<1>1. t \in Stacks /\ \A k \in 1..Level(t) : t.control[k] \in Nat
  BY StackFields DEF Stack
<1>2. PICK q \in 1..Len(t.trail) : t.trail[q] = lit
  BY <1>1, StackFields
<1>3. ASSUME NEW w \in W, NEW i \in 1..t.propagated, t.trail[i] = -w
      PROVE  \E j \in 1..Len(t.trail) :
                /\ t.trail[j] \in c
                /\ \A k \in 1..Level(t) : i <= t.control[k] =>
                      j <= t.control[k] \/ LevelOf(t, t.trail[j]) < k
  <2>1. CASE i = t.propagated
    <3>1. \A k \in 1..Level(t) : ~(i <= t.control[k])
      BY <1>1, <2>1
    <3> QED BY <1>2, <3>1
  <2>2. CASE i # t.propagated
    <3>1. i \in 1..(t.propagated - 1)
      BY <2>2
    <3> QED BY <1>3, <3>1 DEF Guarded
  <2> QED BY <2>1, <2>2
<1> QED BY <1>3 DEF Guarded

(* Core is about these variables only.                                     *)
LEMMA CoreUnchanged ==
    ASSUME Core, UNCHANGED <<s, clauseVars, conflict, visiting, unsat>>
    PROVE  Core'
<1>1. Clauses' = Clauses /\ Holds' = Holds
  BY DEF Clauses, Holds, clauseVars
<1>2. Stack(s)'
  BY DEF Core, Stack, Single, Heights, Levels, Reasons, Decisions, Queue, ReasonOf
<1>3. Database'
  BY <1>1 DEF Core, Database, clauseVars
<1>4. Visits'
  BY <1>1 DEF Core, Visits, Quiet, Falsum, clauseVars
<1>5. Watches'
  BY <1>1 DEF Core, Watches, Visited, clauseVars
<1> QED BY <1>2, <1>3, <1>4, <1>5 DEF Core

(* One step of propagate().                                                *)
LEMMA PropagateCore ==
    ASSUME Core, ~unsat, propagate, UNCHANGED <<irredundant, redundant, unsat>>
    PROVE  Core'
<1>1. /\ Stack(s) /\ s \in Stacks /\ Database /\ Visits /\ Holds = HoldsIn(s)
      /\ \A c \in Clauses : Guarded(s, c, watched[c], Visited(c))
      /\ s.propagated \in Nat /\ s.propagated <= Len(s.trail) /\ Len(s.trail) \in Nat
      /\ Levels(s) /\ Holds \subseteq Literals(Vars)
  <2>1. /\ Stack(s) /\ s \in Stacks /\ Database /\ Visits /\ Holds = HoldsIn(s) /\ Levels(s)
        /\ s.propagated <= Len(s.trail)
        /\ \A c \in Clauses : Guarded(s, c, watched[c], Visited(c))
    BY DEF Core, Watches, Stack, Heights, Holds, HoldsIn
  <2> QED BY <2>1, StackFields
<1>2. Clauses' = Clauses /\ Holds' = HoldsIn(s') /\ ~unsat'
  BY DEF Clauses, Holds, HoldsIn
<1>3. CASE NextLiteral
  <2> DEFINE lit == -s.trail[s.propagated + 1]
  <2>1. /\ visiting = {} /\ conflict = NoConflict /\ s.propagated < Len(s.trail)
        /\ visiting' = {c \in DOMAIN watched : lit \in watched[c]}
        /\ s' = [s EXCEPT !.propagated = s.propagated + 1]
        /\ watched' = watched /\ conflict' = conflict
    BY <1>3 DEF NextLiteral
  <2>2. /\ s'.trail = s.trail /\ s'.control = s.control /\ s'.level = s.level
        /\ s'.reason = s.reason /\ s'.place = s.place /\ s'.unassigned = s.unassigned
        /\ s'.beyond = s.beyond /\ s'.propagated = s.propagated + 1 /\ s' \in Stacks
    <3>1. s.propagated + 1 \in Nat
      BY <1>1
    <3>2. /\ s'.trail = s.trail /\ s'.control = s.control /\ s'.level = s.level
          /\ s'.reason = s.reason /\ s'.place = s.place /\ s'.unassigned = s.unassigned
          /\ s'.beyond = s.beyond /\ s'.propagated = s.propagated + 1
      BY <1>1, <2>1 DEF Stacks
    <3>3. s' \in Stacks
      BY <1>1, <2>1, <3>1 DEF Stacks
    <3> QED BY <3>2, <3>3
  <2>3. \A k \in 1..Level(s) : s.control[k] \in Nat /\ s.control[k] <= s.propagated
    BY <1>1, StackFields DEF Stack, Heights
  <2>4. Stack(s')
    <3>1. /\ Level(s') = Level(s) /\ (\A k : LevelOf(s', k) = LevelOf(s, k))
          /\ Free(s') = Free(s) /\ (\A i : ReasonOf(s', i) = ReasonOf(s, i))
          /\ \A v : Behind(s', v) = Behind(s, v)
      BY <2>2 DEF Level, LevelOf, HoldsIn, Free, ReasonOf, Behind
    <3>2. \A k, r : assignment_level(s', k, r) = assignment_level(s, k, r)
      BY <3>1, SameAssignmentLevel
    <3>3. Single(s') /\ Levels(s') /\ Reasons(s')
      BY <1>1, <2>2, <3>1, <3>2 DEF Stack, Single, Levels, Reasons
    <3>4. Decisions(s') /\ Queue(s')
      BY <1>1, <2>2, <3>1 DEF Stack, Decisions, Queue
    <3>5. Heights(s')
      BY <1>1, <2>1, <2>2, <2>3, <3>1 DEF Stack, Heights
    <3> QED BY <2>2, <3>3, <3>4, <3>5 DEF Stack
  <2>5. Falsum' = lit
    BY <2>2 DEF Falsum
  <2>6. Database' /\ DOMAIN watched = Clauses
    BY <1>1, <1>2, <2>1 DEF Database
  <2>7. Visits'
    <3>1. \A k \in 1..Level(s') : s'.control[k] < s'.propagated
      BY <1>1, <2>2, <2>3 DEF Level
    <3>2. s'.propagated >= 1
      BY <1>1, <2>2
    <3> QED BY <1>2, <2>1, <2>5, <2>6, <3>1, <3>2 DEF Visits
  <2>8. ASSUME NEW c \in Clauses
        PROVE  Guarded(s', c, watched[c], Visited(c)')
    <3>1. Guarded(s, c, watched[c], s.propagated)
      BY <1>1, <2>1 DEF Visited
    <3>2. Guarded(s', c, watched[c], s.propagated)
      BY <1>1, <2>2, <3>1, GuardedSame
    <3>3. CASE c \in visiting'
      <4>1. Visited(c)' = s.propagated
        BY <1>1, <2>2, <3>3 DEF Visited
      <4> QED BY <3>2, <4>1
    <3>4. CASE c \notin visiting'
      <4>1. Visited(c)' = s.propagated + 1
        BY <2>1, <2>2, <3>4 DEF Visited
      <4>2. lit \notin watched[c]
        BY <2>1, <2>6, <3>4
      <4>3. ASSUME NEW w \in watched[c], NEW i \in 1..(s.propagated + 1), s'.trail[i] = -w
            PROVE  i \in 1..s.propagated
        <5>1. w \in Literals(Vars)
          BY <1>1, Pairs DEF Database, Clauses, LongClauses
        <5>2. CASE i = s.propagated + 1
          BY <2>2, <4>2, <4>3, <5>1, <5>2, LiteralFacts
        <5> QED BY <1>1, <5>2
      <4>4. Guarded(s', c, watched[c], s.propagated + 1)
        BY <3>2, <4>3 DEF Guarded
      <4> QED BY <4>1, <4>4
    <3> QED BY <3>3, <3>4
  <2> QED BY <1>2, <2>1, <2>4, <2>6, <2>7, <2>8 DEF Core, Watches
<1>4. ASSUME NEW c \in visiting,
             \/ VisitBinary(c) \/ StopAtLong(c) \/ VisitSatisfied(c)
             \/ ReplaceWatch(c) \/ VisitUnit(c) \/ VisitConflict(c)
      PROVE  Core'
  <2> DEFINE other == OtherWatch(c)
             p == s.propagated
  <2>1. /\ c \in Clauses /\ c \in SUBSET Literals(Vars)
        /\ p \in 1..Len(s.trail) /\ s.trail[p] = -Falsum
        /\ Falsum \in Literals(Vars) /\ Falsum \in c /\ -Falsum \in Holds
        /\ other \in c /\ other # Falsum /\ other \in Literals(Vars)
        /\ watched[c] = {Falsum, other}
        /\ \A k \in 1..Level(s) : s.control[k] < p
        /\ p \in Nat /\ p - 1 \in Nat
    BY <1>4, VisitedWatch
  <2>2. /\ Guarded(s, c, watched[c], p - 1)
        /\ \A d \in Clauses : Guarded(s, d, watched[d], Visited(d))
        /\ \A d \in Clauses : Visited(d) = p \/ Visited(d) = p - 1
    BY <1>1, <2>1 DEF Visited
  <2> HIDE DEF other
  <2>3. ASSUME NEW t, s' = t, Stack(t), t.propagated = p, t.control = s.control,
               HoldsIn(s) \subseteq HoldsIn(t), t.trail[p] = s.trail[p],
               watched' \in [Clauses -> SUBSET Literals(Vars)],
               \A d \in Clauses : watched'[d] \in kSubset(2, d),
               \A d \in Clauses \ {c} : watched'[d] = watched[d],
               visiting' \in {{}, visiting \ {c}},
               conflict' # NoConflict => conflict' \in Clauses /\ Falsified(conflict', HoldsIn(t)),
               \A d \in Clauses : Guarded(t, d, watched'[d], Visited(d)')
        PROVE  Core'
    <3>1. Stack(s)' /\ Falsum' = Falsum /\ Level(s') = Level(s)
      BY <2>3 DEF Stack, Falsum, Level
    <3>2. Database'
      BY <1>1, <1>2, <2>3 DEF Database
    <3>3. Visits'
      <4>1. visiting' \subseteq Clauses /\ c \notin visiting' /\ visiting' \subseteq visiting
        BY <1>1, <2>3 DEF Visits
      <4>2. \A d \in visiting' : Falsum \in watched'[d]
        BY <1>1, <2>3, <4>1 DEF Visits
      <4>3. s'.propagated >= 1 /\ \A k \in 1..Level(s') : s'.control[k] < s'.propagated
        BY <2>1, <2>3, <3>1
      <4> QED BY <1>2, <2>3, <3>1, <4>1, <4>2, <4>3 DEF Visits
    <3>4. Watches'
      BY <1>2, <2>3 DEF Watches
    <3> QED BY <3>1, <3>2, <3>3, <3>4 DEF Core
  <2>4. watched \in [Clauses -> SUBSET Literals(Vars)] /\ \A d \in Clauses : watched[d] \in kSubset(2, d)
    BY <1>1 DEF Database
  <2>5. conflict # NoConflict => conflict \in Clauses /\ Falsified(conflict, HoldsIn(s))
    BY <1>1 DEF Visits
  (* The clause is guarded at once if it has a true literal.               *)
  <2>6. ASSUME s' = s, watched' = watched, visiting' = visiting \ {c}, conflict' = conflict,
               NEW lit \in c, lit \in Holds
        PROVE  Core'
    <3>1. ASSUME NEW d \in Clauses
          PROVE  Guarded(s, d, watched'[d], Visited(d)')
      <4>1. CASE d = c
        <5>1. Guarded(s, c, watched[c], p)
          <6>1. s.propagated >= 1 /\ lit \in HoldsIn(s)
            BY <1>1, <2>1, <2>6
          <6> QED BY <1>1, <2>1, <2>2, <2>6, <6>1, GuardedSatisfied
        <5>2. Visited(c)' = p \/ Visited(c)' = p - 1
          BY <2>6 DEF Visited
        <5> QED BY <2>2, <2>6, <4>1, <5>1, <5>2
      <4>2. CASE d # c
        <5>1. Visited(d)' = Visited(d)
          BY <2>6, <4>2 DEF Visited
        <5> QED BY <2>2, <2>6, <5>1
      <4> QED BY <4>1, <4>2
    <3> QED BY <1>1, <2>3, <2>4, <2>5, <2>6, <3>1
  (* A literal is assigned.                                                *)
  <2>7. ASSUME s' = search_assign(s, other, c), vidx(other) \in Free(s),
               Falsified(c \ {other}, Holds),
               watched' = watched, visiting' = visiting \ {c}, conflict' = conflict
        PROVE  Core'
    <3>1. Assignable(s, other, c)
      <4>1. \A k \in c \ {other} : -k \in HoldsIn(s)
        BY <1>1, <2>7 DEF Falsified, Negated
      <4> QED BY <2>1, <2>7, <4>1 DEF Assignable
    <3>2. PICK t : t = search_assign(s, other, c)
      OBVIOUS
    <3>3. /\ t \in Stacks /\ Stack(t) /\ t.control = s.control /\ t.propagated = p
          /\ HoldsIn(t) = HoldsIn(s) \cup {other} /\ t.trail[p] = s.trail[p]
          /\ Level(t) = Level(s)
      BY <1>1, <2>1, <3>1, <3>2, AssignKeeps, AssignResult
    <3>4. ASSUME NEW d \in Clauses
          PROVE  Guarded(t, d, watched[d], Visited(d))
      BY <1>1, <2>1, <2>2, <3>1, <3>2, GuardedAssign
    <3>5. ASSUME NEW d \in Clauses
          PROVE  Guarded(t, d, watched'[d], Visited(d)')
      <4>1. CASE d = c
        <5>1. Guarded(t, c, watched[c], p - 1)
          BY <1>1, <2>1, <2>2, <3>1, <3>2, GuardedAssign
        <5>2. Guarded(t, c, watched[c], p)
          <6>1. t.propagated \in Nat /\ t.propagated >= 1 /\ other \in HoldsIn(t)
                /\ \A k \in 1..Level(t) : t.control[k] < t.propagated
            BY <2>1, <3>3
          <6> QED BY <2>1, <3>3, <5>1, <6>1, GuardedSatisfied
        <5>3. Visited(c)' = p \/ Visited(c)' = p - 1
          BY <2>7, <3>2, <3>3 DEF Visited
        <5> QED BY <2>7, <4>1, <5>1, <5>2, <5>3
      <4>2. CASE d # c
        <5>1. Visited(d)' = Visited(d)
          BY <2>7, <3>2, <3>3, <4>2 DEF Visited
        <5> QED BY <2>7, <3>4, <5>1
      <4> QED BY <4>1, <4>2
    <3>6. conflict' # NoConflict => conflict' \in Clauses /\ Falsified(conflict', HoldsIn(t))
      BY <2>5, <2>7, <3>3 DEF Falsified
    <3> QED BY <2>3, <2>4, <2>7, <3>2, <3>3, <3>5, <3>6
  (* The clause is falsified.                                              *)
  <2>8. ASSUME s' = s, watched' = watched, visiting' \in {{}, visiting \ {c}}, conflict' \in Clauses,
               conflict' # NoConflict, Falsified(conflict', Holds)
        PROVE  Core'
    <3>1. ASSUME NEW d \in Clauses
          PROVE  Guarded(s, d, watched'[d], Visited(d)')
      <4>1. Visited(d)' = p - 1
        BY <2>8 DEF Visited
      <4>2. Guarded(s, d, watched[d], p - 1)
        <5>1. CASE Visited(d) = p - 1
          BY <2>2, <5>1
        <5>2. CASE Visited(d) = p
          BY <2>1, <2>2, <5>2, GuardedSame
        <5> QED BY <2>2, <5>1, <5>2
      <4> QED BY <2>8, <4>1, <4>2
    <3> QED BY <1>1, <2>3, <2>4, <2>8, <3>1
  <2>9. c # NoConflict
    BY <2>1 DEF NoConflict
  <2>10. CASE VisitBinary(c)
    <3>1. c = watched[c]
      BY <2>1, <2>4, <2>10, Pairs DEF VisitBinary
    <3>2. /\ visiting' = visiting \ {c} /\ watched' = watched
          /\ \/ other \in Holds /\ s' = s /\ conflict' = conflict
             \/ -other \in Holds /\ conflict' = c /\ s' = s
             \/ vidx(other) \in Free(s) /\ s' = search_assign(s, other, c) /\ conflict' = conflict
      BY <2>10 DEF VisitBinary, other
    <3>3. Falsified(c \ {other}, Holds)
      BY <2>1, <3>1 DEF Falsified, Negated
    <3>4. -other \in Holds => Falsified(c, Holds)
      BY <2>1, <3>1 DEF Falsified, Negated
    <3> QED BY <2>1, <2>6, <2>7, <2>8, <2>9, <3>2, <3>3, <3>4
  <2>11. CASE StopAtLong(c)
    BY <1>1, <2>5, <2>8, <2>11 DEF StopAtLong
  <2>12. CASE VisitSatisfied(c)
    <3>1. PICK lit \in c : lit \in Holds
      BY <2>12 DEF VisitSatisfied, Satisfied
    <3> QED BY <2>6, <2>12, <3>1 DEF VisitSatisfied
  <2>13. CASE ReplaceWatch(c)
    <3>1. PICK r \in c \ watched[c] :
             /\ vidx(r) \in Free(s) /\ watched' = [watched EXCEPT ![c] = {other, r}]
             /\ visiting' = visiting \ {c} /\ s' = s /\ conflict' = conflict
             /\ conflict = NoConflict
      BY <2>13 DEF ReplaceWatch, other
    <3>2. {other, r} \in kSubset(2, c) /\ {other, r} \in SUBSET Literals(Vars) /\ other # r
      <4>1. other # r /\ other \in c /\ r \in c
        BY <2>1, <3>1
      <4> QED BY <2>1, <4>1, Pairs
    <3>3. /\ watched' \in [Clauses -> SUBSET Literals(Vars)] /\ watched'[c] = {other, r}
          /\ \A d \in Clauses \ {c} : watched'[d] = watched[d]
      BY <2>1, <2>4, <3>1, <3>2
    <3>4. \A d \in Clauses : watched'[d] \in kSubset(2, d)
      BY <2>4, <3>2, <3>3
    <3>5. Guarded(s, c, {other, r}, p)
      <4>1. ASSUME NEW w \in {other, r}, NEW i \in 1..p, s.trail[i] = -w
            PROVE  w \in watched[c] /\ i \in 1..(p - 1)
        <5>5. i \in 1..Len(s.trail)
          BY <1>1, <2>1
        <5>1. i \in 1..Len(s.trail) /\ -w \in HoldsIn(s)
          BY <1>1, <4>1, <5>5, StackFields
        <5>2. w # r
          BY <1>1, <2>1, <3>1, <5>1, StackFields
        <5>3. w = other /\ w \in watched[c]
          BY <2>1, <5>2
        <5>4. i # p
          <6>1. -(-Falsum) = Falsum /\ -(-other) = other
            BY <2>1, LiteralFacts
          <6> QED BY <2>1, <4>1, <5>3, <6>1
        <5> QED BY <2>1, <5>3, <5>4
      <4> QED BY <2>2, <4>1 DEF Guarded
    <3>6. ASSUME NEW d \in Clauses
          PROVE  Guarded(s, d, watched'[d], Visited(d)')
      <4>1. CASE d = c
        <5>1. Visited(c)' = p
          BY <3>1 DEF Visited
        <5> QED BY <3>3, <3>5, <4>1, <5>1
      <4>2. CASE d # c
        <5>1. Visited(d)' = Visited(d) /\ watched'[d] = watched[d]
          BY <3>1, <3>3, <4>2 DEF Visited
        <5> QED BY <2>2, <5>1
      <4> QED BY <4>1, <4>2
    <3> QED BY <1>1, <2>3, <2>5, <3>1, <3>3, <3>4, <3>6
  <2>14. CASE VisitUnit(c)
    BY <2>7, <2>14 DEF VisitUnit, other
  <2>15. CASE VisitConflict(c)
    BY <2>1, <2>8, <2>9, <2>15 DEF VisitConflict
  <2> QED BY <1>4, <2>10, <2>11, <2>12, <2>13, <2>14, <2>15
<1> QED BY <1>3, <1>4 DEF propagate

-----------------------------------------------------------------------------
(* Steps between propagations.                                             *)

(* The stack is replaced by one that is guarded as far as it is            *)
(* propagated, and no conflict is left.                                    *)
LEMMA QuietCore ==
    ASSUME Core, visiting = {}, visiting' = {}, conflict' = NoConflict,
           UNCHANGED <<clauseVars, unsat>>, Stack(s'),
           ~unsat => \A c \in Clauses : Guarded(s', c, watched[c], s'.propagated)
    PROVE  Core'
<1>1. Clauses' = Clauses /\ watched' = watched /\ irredundant' = irredundant
      /\ redundant' = redundant /\ unsat' = unsat
  BY DEF Clauses, clauseVars
<1>2. Database'
  BY <1>1 DEF Core, Database
<1>3. Visits'
  BY DEF Visits, Quiet
<1>4. \A c : Visited(c)' = s'.propagated
  BY DEF Visited
<1>5. Watches'
  BY <1>1, <1>4 DEF Watches
<1>6. Stack(s)'
  BY DEF Stack, Single, Heights, Levels, Reasons, Decisions, Queue, ReasonOf
<1> QED BY <1>2, <1>3, <1>5, <1>6 DEF Core

(* Every clause is guarded as far as any level that may go.                *)
LEMMA GuardedBelow ==
    ASSUME Core, ~unsat, visiting = {}, NEW n \in 0..(Level(s) - 1), NEW c \in Clauses
    PROVE  \E m \in Nat : Height(s, n) <= m /\ Guarded(s, c, watched[c], m)
<1>1. /\ s \in Stacks /\ Level(s) \in Nat /\ s.propagated \in Nat
      /\ \A k \in 1..Level(s) : s.control[k] \in Nat /\ s.control[k] <= s.propagated
  BY StackFields DEF Core, Stack, Heights
<1>2. n + 1 \in 1..Level(s)
  BY <1>1
<1>3. Guarded(s, c, watched[c], Visited(c))
  BY DEF Core, Watches
<1>4. CASE conflict = NoConflict
  <2>1. Visited(c) = s.propagated
    BY <1>4 DEF Visited
  <2> QED BY <1>1, <1>2, <1>3, <2>1 DEF Height
<1>5. CASE conflict # NoConflict
  <2>1. Visited(c) = s.propagated - 1
    BY <1>5 DEF Visited
  <2>2. s.propagated >= 1 /\ s.control[n + 1] < s.propagated
    BY <1>2, <1>5 DEF Core, Visits, Quiet
  <2>3. s.propagated - 1 \in Nat /\ s.control[n + 1] <= s.propagated - 1
    BY <1>1, <1>2, <2>2
  <2> QED BY <1>3, <2>1, <2>3 DEF Height
<1> QED BY <1>4, <1>5

(* Two stacks that differ in their queues only have the same heights.      *)
SameStack(t, u) ==
    /\ u.trail = t.trail /\ u.control = t.control /\ u.propagated = t.propagated
    /\ u.level = t.level /\ u.reason = t.reason

(* Backtracking: restarts, rephasing, and giving up a strategy.            *)
LEMMA BacktrackCore ==
    ASSUME Core, visiting = {}, visiting' = {}, conflict' = NoConflict,
           UNCHANGED <<clauseVars, unsat>>,
           NEW t, Stack(t), SameStack(s, t), NEW n \in 0..Level(t), s' = backtrack(t, n),
           conflict # NoConflict => n # Level(t)
    PROVE  Core'
<1>1. Stack(s') /\ t \in Stacks /\ Level(t) = Level(s) /\ Level(t) \in Nat
  BY BacktrackKeeps, StackFields DEF Stack, SameStack, Level
<1>2. CASE n = Level(t)
  <2>1. s' = t /\ conflict = NoConflict
    BY <1>2 DEF backtrack
  <2>2. ASSUME ~unsat, NEW c \in Clauses
        PROVE  Guarded(s', c, watched[c], s'.propagated)
    <3>1. Guarded(s, c, watched[c], s.propagated)
      BY <2>1, <2>2 DEF Core, Watches, Visited
    <3>2. s.propagated \in Nat /\ s'.propagated = s.propagated
      BY <2>1, StackFields DEF Core, Stack, SameStack
    <3> QED BY <2>1, <3>1, <3>2, GuardedSame DEF SameStack
  <2> QED BY <1>1, <2>2, QuietCore
<1>3. CASE n # Level(t)
  <2>1. n \in 0..(Level(s) - 1) /\ n \in 0..(Level(t) - 1)
    BY <1>1, <1>3
  <2>2. Height(t, n) = Height(s, n) /\ s'.propagated = Height(t, n)
    BY <2>1, BacktrackShape DEF Height, SameStack, Retained
  <2>3. ASSUME ~unsat, NEW c \in Clauses
        PROVE  Guarded(s', c, watched[c], s'.propagated)
    <3>1. PICK m \in Nat : Height(s, n) <= m /\ Guarded(s, c, watched[c], m)
      BY <2>1, <2>3, GuardedBelow
    <3>2. Guarded(t, c, watched[c], m)
      BY <3>1, GuardedSame DEF SameStack
    <3> QED BY <2>1, <2>2, <3>1, <3>2, GuardedBacktrack
  <2> QED BY <1>1, <2>3, QuietCore
<1> QED BY <1>2, <1>3

(* Deciding a literal.                                                     *)
LEMMA DecideStack ==
    ASSUME NEW t, Stack(t), t.propagated = Len(t.trail),
           NEW lit \in Literals(Vars), vidx(lit) \in Free(t)
    PROVE  LET u == search_assume_decision(t, lit) IN
           /\ Stack(u) /\ Level(u) = Level(t) + 1 /\ Len(u.trail) = Len(t.trail) + 1
           /\ HoldsIn(u) = HoldsIn(t) \cup {lit} /\ LevelOf(u, lit) = Level(t) + 1
           /\ u.propagated = t.propagated
           /\ \A i \in 1..Len(t.trail) : u.trail[i] = t.trail[i]
           /\ u.trail[Len(t.trail) + 1] = lit
           /\ u.control[Level(u)] = Len(t.trail)
           /\ \A k \in 1..Level(t) : u.control[k] = t.control[k]
           /\ \A k \in Literals(Vars) : k \in HoldsIn(t) \/ -k \in HoldsIn(t) =>
                 LevelOf(u, k) = LevelOf(t, k)
           /\ \A c, W : Guarded(t, c, W, t.propagated) => Guarded(u, c, W, t.propagated)
<1> DEFINE m == [t EXCEPT !.control = Append(@, Len(t.trail))]
           u == search_assign(m, lit, DecisionReason)
<1>1. /\ Stack(m) /\ Level(m) = Level(t) + 1 /\ m.control[Level(m)] = Len(m.trail)
      /\ \A k \in 1..Level(t) : m.control[k] = t.control[k]
      /\ m.trail = t.trail /\ m.level = t.level
      /\ m.propagated = t.propagated /\ HoldsIn(m) = HoldsIn(t) /\ Free(m) = Free(t)
  BY OpenKeeps
<1>2. \A c, W : Guarded(t, c, W, t.propagated) => Guarded(m, c, W, t.propagated)
  BY GuardedOpen
<1>3. search_assume_decision(t, lit) = u
  BY DEF search_assume_decision
<1> HIDE DEF m
<1>4. t \in Stacks /\ Level(t) \in Nat /\ Len(t.trail) \in Nat /\ m \in Stacks /\ Levels(m)
  BY <1>1, StackFields DEF Stack
<1>5. Assignable(m, lit, DecisionReason)
  BY <1>1, <1>4 DEF Assignable
<1>6. LevelFor(m, lit, DecisionReason) = Level(m)
  BY DEF LevelFor, DecisionReason, NoReason
<1>7. Stack(u)
  BY <1>1, <1>5, AssignKeeps
<1>8. /\ u.control = m.control /\ Level(u) = Level(m) /\ u.propagated = m.propagated
      /\ Len(u.trail) = Len(m.trail) + 1
      /\ \A i \in 1..Len(m.trail) : u.trail[i] = m.trail[i]
      /\ u.trail[Len(m.trail) + 1] = lit
      /\ HoldsIn(u) = HoldsIn(m) \cup {lit}
      /\ LevelOf(u, lit) = LevelFor(m, lit, DecisionReason)
      /\ \A k \in Literals(Vars) : k \in HoldsIn(m) \/ -k \in HoldsIn(m) =>
            LevelOf(u, k) = LevelOf(m, k)
  BY <1>4, <1>5, AssignResult
<1>9. \A k : LevelOf(m, k) = LevelOf(t, k)
  BY <1>1 DEF LevelOf
<1>10. \A c, W : Guarded(m, c, W, t.propagated) => Guarded(u, c, W, t.propagated)
  BY <1>1, <1>4, <1>5, GuardedAssign
<1> HIDE DEF u
<1> QED BY <1>1, <1>2, <1>3, <1>6, <1>7, <1>8, <1>9, <1>10

(* Opening a level, with or without a decision, keeps the core.            *)
LEMMA DecideCore ==
    ASSUME Core, Settled, UNCHANGED <<clauseVars, conflict, visiting, unsat>>,
           \/ s' = [s EXCEPT !.control = Append(@, Len(s.trail))]
           \/ \E t : \E lit \in Literals(Vars) :
                 /\ Stack(t) /\ SameStack(s, t) /\ vidx(lit) \in Free(s)
                 /\ s' = search_assume_decision(t, lit)
    PROVE  Core'
<1>1. /\ Stack(s) /\ visiting = {} /\ conflict = NoConflict /\ ~unsat
      /\ s.propagated = Len(s.trail) /\ visiting' = {} /\ conflict' = NoConflict
      /\ s \in Stacks /\ s.propagated \in Nat
  BY StackFields DEF Core, Settled, Propagated, Stack
<1>2. \A c \in Clauses : Guarded(s, c, watched[c], s.propagated)
  BY <1>1 DEF Core, Watches, Visited
<1>3. CASE s' = [s EXCEPT !.control = Append(@, Len(s.trail))]
  <2>1. Stack(s') /\ s'.propagated = s.propagated
    BY <1>1, <1>3, OpenKeeps
  <2>2. \A c \in Clauses : Guarded(s', c, watched[c], s.propagated)
    BY <1>1, <1>2, <1>3, GuardedOpen
  <2> QED BY <1>1, <2>1, <2>2, QuietCore
<1>4. ASSUME NEW t, NEW lit \in Literals(Vars), Stack(t), SameStack(s, t),
             vidx(lit) \in Free(s), s' = search_assume_decision(t, lit)
      PROVE  Core'
  <2>1. t.propagated = Len(t.trail) /\ t.propagated = s.propagated /\ vidx(lit) \in Free(t)
    BY <1>1, <1>4 DEF SameStack, Free, HoldsIn
  <2>2. Stack(s') /\ s'.propagated = t.propagated
        /\ \A c, W : Guarded(t, c, W, t.propagated) => Guarded(s', c, W, t.propagated)
    BY <1>4, <2>1, DecideStack
  <2>3. \A c \in Clauses : Guarded(t, c, watched[c], s.propagated)
    BY <1>1, <1>2, <1>4, GuardedSame DEF SameStack
  <2> QED BY <1>1, <2>1, <2>2, <2>3, QuietCore
<1> QED BY <1>3, <1>4

-----------------------------------------------------------------------------
(* What stays of an assignment.                                            *)

(* The literals of the levels that are left stay with their levels.        *)
Persists(t, u) ==
    /\ Level(u) \in 0..Level(t)
    /\ \A lit \in HoldsIn(t) : LevelOf(t, lit) <= Level(u) =>
          lit \in HoldsIn(u) /\ LevelOf(u, lit) = LevelOf(t, lit)

(* Steps that persist may follow each other.                               *)
LEMMA PersistsTwice ==
    ASSUME NEW t \in Stacks, NEW u \in Stacks, NEW w, Persists(t, u), Persists(u, w)
    PROVE  Persists(t, w)
<1>1. /\ Level(t) \in Nat /\ Level(u) \in 0..Level(t) /\ Level(w) \in 0..Level(u)
      /\ \A lit \in HoldsIn(t) : LevelOf(t, lit) \in Nat
  BY StackFields DEF Persists
<1>2. ASSUME NEW lit \in HoldsIn(t), LevelOf(t, lit) <= Level(w)
      PROVE  lit \in HoldsIn(w) /\ LevelOf(w, lit) = LevelOf(t, lit)
  <2>1. LevelOf(t, lit) <= Level(u)
    BY <1>1, <1>2
  <2>2. lit \in HoldsIn(u) /\ LevelOf(u, lit) = LevelOf(t, lit)
    BY <2>1 DEF Persists
  <2> QED BY <1>2, <2>2 DEF Persists
<1> QED BY <1>1, <1>2 DEF Persists

(* On the same trail everything persists.                                  *)
LEMMA SamePersists ==
    ASSUME NEW t \in Stacks, NEW u, u.trail = t.trail, u.control = t.control, u.level = t.level
    PROVE  /\ Persists(t, u) /\ Level(u) = Level(t) /\ HoldsIn(u) = HoldsIn(t)
           /\ \A lit : LevelOf(u, lit) = LevelOf(t, lit)
BY StackFields DEF Persists, Level, HoldsIn, LevelOf

(* Assigning a literal takes nothing away.                                 *)
LEMMA AssignPersists ==
    ASSUME NEW t, Stack(t), NEW lit, NEW c, Assignable(t, lit, c)
    PROVE  Persists(t, search_assign(t, lit, c))
<1>1. PICK u : u = search_assign(t, lit, c)
  OBVIOUS
<1>2. t \in Stacks /\ Levels(t) /\ Level(t) \in Nat /\ HoldsIn(t) \subseteq Literals(Vars)
  BY StackFields DEF Stack
<1>3. /\ Level(u) = Level(t) /\ HoldsIn(u) = HoldsIn(t) \cup {lit}
      /\ \A k \in Literals(Vars) : k \in HoldsIn(t) \/ -k \in HoldsIn(t) =>
            LevelOf(u, k) = LevelOf(t, k)
  BY <1>1, <1>2, AssignResult
<1> QED BY <1>1, <1>2, <1>3 DEF Persists

(* Backtracking keeps what the levels that stay hold.                      *)
LEMMA BacktrackPersists ==
    ASSUME NEW t, Stack(t), NEW n \in 0..Level(t)
    PROVE  Persists(t, backtrack(t, n))
<1>1. PICK u : u = backtrack(t, n)
  OBVIOUS
<1>2. t \in Stacks /\ Level(t) \in Nat /\ HoldsIn(t) \subseteq Literals(Vars)
  BY StackFields DEF Stack
<1>3. CASE n = Level(t)
  <2>1. u = t
    BY <1>1, <1>3 DEF backtrack
  <2> QED BY <1>1, <1>2, <2>1, SamePersists
<1>4. CASE n # Level(t)
  <2>1. Retained(t, n, u)
    BY <1>1, <1>2, <1>4, BacktrackShape
  <2>2. /\ Level(u) = n
        /\ HoldsIn(u) = {lit \in HoldsIn(t) : LevelOf(t, lit) <= n}
        /\ \A lit \in Literals(Vars) : lit \in HoldsIn(u) \/ -lit \in HoldsIn(u) =>
              LevelOf(u, lit) = LevelOf(t, lit)
    BY <2>1 DEF Retained
  <2> QED BY <1>1, <1>2, <2>2 DEF Persists
<1> QED BY <1>3, <1>4

-----------------------------------------------------------------------------
(* Conflicts.                                                              *)

(* The literals of the trail are consistent.                               *)
LEMMA TrailConsistent ==
    ASSUME NEW t, Stack(t), NEW lit \in HoldsIn(t)
    PROVE  lit \in Literals(Vars) /\ -lit \notin HoldsIn(t) /\ LevelOf(t, lit) \in 0..Level(t)
<1>1. t \in Stacks /\ Level(t) \in Nat
  BY StackFields DEF Stack
<1>2. PICK i \in 1..Len(t.trail) : t.trail[i] = lit
  BY <1>1, StackFields
<1>3. lit \in Literals(Vars) /\ LevelOf(t, lit) \in Nat
  BY <1>1, StackFields
<1>4. ASSUME -lit \in HoldsIn(t)
      PROVE  FALSE
  <2>1. PICK j \in 1..Len(t.trail) : t.trail[j] = -lit
    BY <1>1, <1>4, StackFields
  <2>2. vidx(t.trail[j]) = vidx(t.trail[i])
    BY <1>2, <1>3, <2>1, LiteralFacts
  <2>3. -lit = lit
    BY <1>2, <2>1, <2>2 DEF Stack, Single
  <2> QED BY <1>3, <2>3, LiteralFacts
<1>5. LevelOf(t, lit) <= Level(t)
  BY <1>2 DEF Stack, Levels
<1> QED BY <1>1, <1>3, <1>4, <1>5

(* A clause whose other literals are false is guarded by the literal it    *)
(* has forced, when that is watched with one of the highest level left.    *)
LEMMA AssertedGuard ==
    ASSUME NEW t, Stack(t), NEW lit, NEW c \in SUBSET Literals(Vars), lit \in c,
           Assignable(t, lit, c), NEW y \in c \ {lit},
           \A k \in c \ {lit} : -k \in HoldsIn(t) /\ LevelOf(t, k) <= LevelOf(t, y),
           NEW m \in Nat, m <= Len(t.trail)
    PROVE  Guarded(search_assign(t, lit, c), c, {lit, y}, m)
<1>1. PICK u : u = search_assign(t, lit, c)
  OBVIOUS
<1>2. t \in Stacks /\ Levels(t) /\ Len(t.trail) \in Nat /\ Level(t) \in Nat
      /\ lit \in Literals(Vars) /\ y \in Literals(Vars)
  BY StackFields DEF Stack
<1>3. /\ u \in Stacks /\ u.control = t.control /\ Level(u) = Level(t)
      /\ Len(u.trail) = Len(t.trail) + 1
      /\ u.trail[Len(t.trail) + 1] = lit /\ HoldsIn(u) = HoldsIn(t) \cup {lit}
      /\ LevelOf(u, lit) = LevelFor(t, lit, c)
      /\ \A k \in Literals(Vars) : k \in HoldsIn(t) \/ -k \in HoldsIn(t) =>
            LevelOf(u, k) = LevelOf(t, k)
  BY <1>1, <1>2, AssignResult
<1>4. Stack(u)
  BY <1>1, AssignKeeps
<1>5. c # NoReason /\ c # DecisionReason
  BY LiteralFacts DEF NoReason, DecisionReason
<1>6. LevelOf(u, lit) = assignment_level(t, lit, c)
  BY <1>3, <1>5 DEF LevelFor
<1>7. assignment_level(t, lit, c) <= LevelOf(t, y)
  <2>1. /\ assignment_level(t, lit, c) \in 0..Level(t)
        /\ assignment_level(t, lit, c) # 0 =>
              \E k \in c \ {lit} : LevelOf(t, k) = assignment_level(t, lit, c)
    BY <1>2, AssignmentLevel
  <2>2. LevelOf(t, y) \in Nat
    BY <1>2, StackFields
  <2> QED BY <2>1, <2>2
<1>8. ASSUME NEW w \in {lit, y}, NEW i \in 1..m, u.trail[i] = -w
      PROVE  \E j \in 1..Len(u.trail) :
                /\ u.trail[j] \in c
                /\ \A k \in 1..Level(u) : i <= u.control[k] =>
                      j <= u.control[k] \/ LevelOf(u, u.trail[j]) < k
  <2>1. i \in 1..Len(u.trail)
    BY <1>2, <1>3
  <2>2. -w \in HoldsIn(u)
    BY <1>3, <1>8, <2>1, StackFields, SMTT(20)
  <2>3. w = y
    BY <1>3, <1>4, <2>2, TrailConsistent
  <2>4. /\ LevelOf(u, u.trail[i]) = LevelOf(t, y) /\ LevelOf(t, y) \in Nat
        /\ LevelOf(u, lit) \in Nat
    <3>1. LevelOf(u, y) = LevelOf(t, y) /\ LevelOf(u, -y) = LevelOf(u, y)
      BY <1>2, <1>3, StackFields
    <3> QED BY <1>2, <1>3, <1>8, <2>3, <3>1, StackFields
  <2>5. ASSUME NEW k \in 1..Level(u), i <= u.control[k]
        PROVE  LevelOf(u, lit) < k
    <3>1. u.control[k] \in Nat
      BY <1>3, StackFields
    <3>2. ~(k \in 1..LevelOf(u, u.trail[i]))
      BY <1>4, <2>1, <2>5, <3>1 DEF Stack, Levels
    <3>3. LevelOf(t, y) < k
      BY <1>2, <1>3, <2>4, <3>2
    <3> QED BY <1>2, <1>3, <1>6, <1>7, <2>4, <3>3
  <2>6. Len(t.trail) + 1 \in 1..Len(u.trail)
    BY <1>2, <1>3
  <2> QED BY <1>3, <2>5, <2>6
<1> QED BY <1>1, <1>8 DEF Guarded

(* The level of a conflict is the highest level of its literals.           *)
LEMMA ConflictLevel ==
    ASSUME NEW t, Stack(t), NEW c \in SUBSET Literals(Vars), c # {}, Falsified(c, HoldsIn(t))
    PROVE  /\ \A k \in c : -k \in HoldsIn(t) /\ LevelOf(t, k) \in Nat
                           /\ LevelOf(t, k) <= conflict_level(t, c)
           /\ conflict_level(t, c) \in 0..Level(t)
           /\ \E k \in c : LevelOf(t, k) = conflict_level(t, c)
<1> DEFINE S == {LevelOf(t, k) : k \in c}
<1>1. \A k \in c : -k \in HoldsIn(t) /\ LevelOf(t, k) = LevelOf(t, -k)
                   /\ LevelOf(t, k) \in 0..Level(t)
  <2> SUFFICES ASSUME NEW k \in c
               PROVE  -k \in HoldsIn(t) /\ LevelOf(t, k) = LevelOf(t, -k)
                      /\ LevelOf(t, k) \in 0..Level(t)
    OBVIOUS
  <2>1. -k \in HoldsIn(t)
    BY DEF Falsified, Negated
  <2>2. LevelOf(t, k) = LevelOf(t, -k)
    BY StackFields DEF Stack
  <2> QED BY <2>1, <2>2, TrailConsistent
<1>2. Level(t) \in Nat
  BY StackFields DEF Stack
<1>3. S \subseteq Nat /\ S # {} /\ \A x \in S : x <= Level(t)
  BY <1>1, <1>2
<1>4. Max(S) \in S /\ \A y \in S : y <= Max(S)
  <2> HIDE DEF S
  <2> QED BY <1>2, <1>3, MaxOfNats
<1>5. conflict_level(t, c) = Max(S)
  BY DEF conflict_level
<1> DEFINE m == Max(S)
<1> HIDE DEF m
<1>6. m \in S /\ \A y \in S : y <= m
  BY <1>4 DEF m
<1>7. m \in 0..Level(t) /\ (\E k \in c : LevelOf(t, k) = m)
      /\ \A k \in c : LevelOf(t, k) <= m
  BY <1>1, <1>6
<1>8. \A k \in c : LevelOf(t, k) \in Nat
  BY <1>1, <1>2
<1>9. conflict_level(t, c) = m
  BY <1>5 DEF m
<1> HIDE DEF S
<1> QED BY <1>1, <1>7, <1>8, <1>9

(* The watches of the conflict are two of its highest literals.            *)
LEMMA Rewatched ==
    ASSUME NEW t, NEW c \in SUBSET Literals(Vars), NEW W \in RewatchedPairs(t, c)
    PROVE  /\ W \in kSubset(2, c)
           /\ \A k \in W, j \in c \ W : LevelOf(t, j) <= LevelOf(t, k)
BY DEF RewatchedPairs, HighestPairs

(* The stack and the watches are replaced: every clause is guarded as far  *)
(* as the stack is propagated, and no conflict is left.                    *)
LEMMA SettledCore ==
    ASSUME Stack(s'), Database', visiting' = {}, conflict' = NoConflict,
           ~unsat' => \A c \in Clauses' : Guarded(s', c, watched'[c], s'.propagated)
    PROVE  Core'
<1>1. Visits'
  BY DEF Visits, Quiet
<1>2. \A c : Visited(c)' = s'.propagated
  BY DEF Visited
<1>3. Watches'
  BY <1>2 DEF Watches
<1>4. Stack(s)'
  BY DEF Stack, Single, Heights, Levels, Reasons, Decisions, Queue, ReasonOf
<1> QED BY <1>1, <1>3, <1>4 DEF Core

(* What is known of the conflict that is analyzed.                         *)
LEMMA ConflictFacts ==
    ASSUME Core, Propagated, conflict # NoConflict
    PROVE  /\ Stack(s) /\ s \in Stacks /\ visiting = {} /\ Level(s) \in Nat
           /\ conflict \in Clauses /\ conflict \in SUBSET Literals(Vars) /\ conflict # {}
           /\ Cardinality(conflict) > 1
           /\ Falsified(conflict, HoldsIn(s)) /\ watched[conflict] \in kSubset(2, conflict)
           /\ conflict_level(s, conflict) \in 0..Level(s)
           /\ \A k \in conflict : /\ k \in Literals(Vars) /\ -k \in HoldsIn(s)
                                  /\ LevelOf(s, k) \in Nat /\ LevelOf(s, -k) = LevelOf(s, k)
                                  /\ LevelOf(s, k) <= conflict_level(s, conflict)
                                  /\ k \notin HoldsIn(s)
<1>1. Stack(s) /\ s \in Stacks /\ visiting = {} /\ Level(s) \in Nat /\ conflict # {}
  BY StackFields DEF Core, Stack, Propagated, NoConflict
<1>2. /\ conflict \in Clauses /\ Falsified(conflict, HoldsIn(s))
      /\ watched[conflict] \in kSubset(2, conflict) /\ conflict \in LongClauses
  BY DEF Core, Visits, Database, Holds, HoldsIn, Clauses
<1>3. conflict \in SUBSET Literals(Vars) /\ Cardinality(conflict) > 1
  BY <1>2 DEF LongClauses
<1>4. /\ \A k \in conflict : -k \in HoldsIn(s) /\ LevelOf(s, k) \in Nat
                             /\ LevelOf(s, k) <= conflict_level(s, conflict)
      /\ conflict_level(s, conflict) \in 0..Level(s)
  BY <1>1, <1>2, <1>3, ConflictLevel
<1>5. \A k \in conflict : k \in Literals(Vars) /\ LevelOf(s, -k) = LevelOf(s, k)
  BY <1>1, <1>3, StackFields
<1>6. ASSUME NEW k \in conflict
      PROVE  k \notin HoldsIn(s)
  <2>1. -(-k) \notin HoldsIn(s) /\ -(-k) = k
    BY <1>1, <1>4, <1>5, <1>6, TrailConsistent, LiteralFacts
  <2> QED BY <2>1
<1> QED BY <1>1, <1>2, <1>3, <1>4, <1>5, <1>6

(* When one literal of the conflict alone has its level, it can be         *)
(* assigned below that level, and it is watched with the next highest.     *)
LEMMA ForcedLiteral ==
    ASSUME Core, Propagated, conflict # NoConflict, conflict_level(s, conflict) > 0,
           NEW lit \in forced(s, conflict), NEW W \in RewatchedPairs(s, conflict),
           NEW u, u = backtrack(s, conflict_level(s, conflict) - 1)
    PROVE  /\ lit \in conflict /\ Assignable(u, lit, conflict)
           /\ \E y \in conflict \ {lit} :
                 /\ W = {lit, y}
                 /\ \A k \in conflict \ {lit} :
                       -k \in HoldsIn(u) /\ LevelOf(u, k) <= LevelOf(u, y)
<1> DEFINE L == conflict_level(s, conflict)
           n == L - 1
<1>1. /\ Stack(s) /\ s \in Stacks /\ Level(s) \in Nat /\ conflict \in SUBSET Literals(Vars)
      /\ L \in 0..Level(s) /\ L > 0
      /\ \A k \in conflict : /\ k \in Literals(Vars) /\ -k \in HoldsIn(s)
                             /\ LevelOf(s, k) \in Nat /\ LevelOf(s, -k) = LevelOf(s, k)
                             /\ k \notin HoldsIn(s)
  BY ConflictFacts
<1>2. lit \in conflict /\ LevelOf(s, lit) = L
      /\ \A k \in conflict \ {lit} : LevelOf(s, k) < L
  BY DEF forced
<1> HIDE DEF L
<1>3. n \in 0..(Level(s) - 1) /\ n \in Nat /\ L > n
  BY <1>1
<1>4. Retained(s, n, u)
  BY <1>1, <1>3, BacktrackShape DEF L
<1> HIDE DEF n
<1>5. ASSUME NEW k \in conflict \ {lit}
      PROVE  -k \in HoldsIn(u) /\ LevelOf(u, k) = LevelOf(s, k)
  <2>1. LevelOf(s, -k) <= n
    BY <1>1, <1>2, <1>3 DEF n
  <2>2. -k \in HoldsIn(u) /\ k \in Literals(Vars)
    BY <1>1, <1>4, <2>1 DEF Retained
  <2> QED BY <1>4, <2>2 DEF Retained
<1>6. lit \notin HoldsIn(u) /\ -lit \notin HoldsIn(u)
  <2>1. ~(LevelOf(s, -lit) <= n)
    BY <1>1, <1>2, <1>3
  <2> QED BY <1>1, <1>2, <1>4, <2>1 DEF Retained
<1>7. Assignable(u, lit, conflict)
  <2>1. u \in Stacks
    BY <1>4 DEF Retained
  <2>2. vidx(lit) \in Free(u)
    BY <1>1, <1>2, <1>6, <2>1, StackFields
  <2> QED BY <1>1, <1>2, <1>5, <2>2 DEF Assignable
<1>8. W \in kSubset(2, conflict)
      /\ \A k \in W, j \in conflict \ W : LevelOf(s, j) <= LevelOf(s, k)
  BY <1>1, Rewatched
<1>9. W \subseteq conflict
  BY <1>8, Pairs
<1>10. PICK x \in W : TRUE
  BY <1>1, <1>8, Pairs
<1>11. lit \in W
  <2> SUFFICES ASSUME lit \notin W
               PROVE  FALSE
    OBVIOUS
  <2>1. LevelOf(s, lit) <= LevelOf(s, x)
    BY <1>2, <1>8, <1>10
  <2>2. LevelOf(s, x) < L /\ LevelOf(s, x) \in Nat
    BY <1>1, <1>2, <1>9, <1>10
  <2> QED BY <1>1, <1>2, <2>1, <2>2
<1>12. PICK y \in W : y # lit /\ W = {lit, y}
  BY <1>1, <1>8, <1>11, Pairs
<1>13. ASSUME NEW k \in conflict \ {lit}
       PROVE  LevelOf(u, k) <= LevelOf(u, y)
  <2>1. y \in conflict \ {lit}
    BY <1>9, <1>12
  <2>2. LevelOf(u, k) = LevelOf(s, k) /\ LevelOf(u, y) = LevelOf(s, y)
    BY <1>5, <2>1
  <2>3. k = y \/ k \in conflict \ W
    BY <1>12
  <2>4. LevelOf(s, k) <= LevelOf(s, y)
    BY <1>1, <1>8, <1>12, <2>1, <2>3
  <2> QED BY <2>2, <2>4
<1> QED BY <1>2, <1>5, <1>7, <1>9, <1>12, <1>13

(* A conflict that forces a literal.                                       *)
LEMMA AnalyzeForcedCore ==
    ASSUME Core, Propagated, conflict # NoConflict, ~unsat, AnalyzeForced,
           UNCHANGED <<irredundant, visiting, unsat>>
    PROVE  Core' /\ Persists(s, s')
<1> DEFINE n == conflict_level(s, conflict) - 1
<1>1. PICK lit \in forced(s, conflict), W \in RewatchedPairs(s, conflict) :
         /\ s' = search_assign(backtrack(s, n), lit, conflict)
         /\ watched' = [watched EXCEPT ![conflict] = W]
  BY DEF AnalyzeForced
<1>2. conflict_level(s, conflict) > 0 /\ conflict' = NoConflict /\ redundant' = redundant
  BY DEF AnalyzeForced
<1>3. PICK u : u = backtrack(s, n)
  OBVIOUS
<1>4. /\ Stack(s) /\ visiting = {} /\ conflict \in Clauses
      /\ conflict \in SUBSET Literals(Vars) /\ Level(s) \in Nat
      /\ conflict_level(s, conflict) \in 0..Level(s)
  BY ConflictFacts
<1>5. lit \in conflict /\ Assignable(u, lit, conflict)
      /\ \E y \in conflict \ {lit} :
            /\ W = {lit, y}
            /\ \A k \in conflict \ {lit} :
                  -k \in HoldsIn(u) /\ LevelOf(u, k) <= LevelOf(u, y)
  BY <1>2, <1>3, ForcedLiteral
<1>6. n \in 0..(Level(s) - 1) /\ n \in 0..Level(s)
  BY <1>2, <1>4
<1> HIDE DEF n
<1>7. Stack(u) /\ Retained(s, n, u)
  BY <1>3, <1>4, <1>6, BacktrackKeeps, BacktrackShape
<1>8. /\ u \in Stacks /\ Levels(u) /\ u.propagated = Height(s, n)
      /\ Height(s, n) \in Nat /\ Height(s, n) <= Len(u.trail)
  BY <1>4, <1>7, StackFields DEF Stack, Retained
<1>9. s' = search_assign(u, lit, conflict)
  BY <1>1, <1>3
<1>10. Stack(s') /\ s'.propagated = Height(s, n)
  BY <1>5, <1>7, <1>8, <1>9, AssignKeeps, AssignResult
<1>11. Clauses' = Clauses /\ unsat' = unsat /\ visiting' = {}
       /\ irredundant' = irredundant
  BY <1>2, <1>4 DEF Clauses
<1>12. /\ watched \in [Clauses -> SUBSET Literals(Vars)]
       /\ watched' = [watched EXCEPT ![conflict] = W]
  BY <1>1 DEF Core, Database
<1>13. Database'
  <2>1. W \in kSubset(2, conflict) /\ W \in SUBSET Literals(Vars)
    BY <1>4, Rewatched, Pairs
  <2>2. \A c \in Clauses : watched'[c] \in kSubset(2, c)
    BY <1>4, <1>12, <2>1 DEF Core, Database
  <2>3. watched' \in [Clauses -> SUBSET Literals(Vars)]
    BY <1>12, <2>1
  <2> QED BY <1>2, <1>11, <2>2, <2>3 DEF Core, Database
<1>14. Guarded(s', conflict, W, Height(s, n))
  BY <1>4, <1>5, <1>7, <1>8, <1>9, AssertedGuard
<1>15. ASSUME NEW c \in Clauses
       PROVE  Guarded(s', c, watched[c], Height(s, n))
  <2>1. PICK m \in Nat : Height(s, n) <= m /\ Guarded(s, c, watched[c], m)
    BY <1>4, <1>6, GuardedBelow
  <2>2. Guarded(u, c, watched[c], Height(s, n))
    BY <1>3, <1>4, <1>6, <2>1, GuardedBacktrack
  <2> QED BY <1>5, <1>8, <1>9, <2>2, GuardedAssign
<1>16. \A c \in Clauses : Guarded(s', c, watched'[c], Height(s, n))
  <2> SUFFICES ASSUME NEW c \in Clauses
               PROVE  Guarded(s', c, watched'[c], Height(s, n))
    OBVIOUS
  <2>1. CASE c = conflict
    <3>1. watched'[c] = W
      BY <1>4, <1>12, <2>1
    <3> QED BY <1>14, <2>1, <3>1
  <2>2. CASE c # conflict
    <3>1. watched'[c] = watched[c]
      BY <1>12, <2>2
    <3> QED BY <1>15, <3>1
  <2> QED BY <2>1, <2>2
<1>17. Persists(s, s')
  <2>1. Persists(s, u) /\ Persists(u, s')
    BY <1>3, <1>4, <1>5, <1>6, <1>7, <1>9, BacktrackPersists, AssignPersists
  <2> QED BY <1>4, <1>8, <2>1, PersistsTwice DEF Stack
<1> QED BY <1>2, <1>10, <1>11, <1>13, <1>16, <1>17, SettledCore

(* Induction along a finite sequence, for a set of numbers.                *)
LEMMA StepsReachAll ==
    ASSUME NEW n \in Nat, NEW S, 0 \in S, \A i \in 1..n : i - 1 \in S => i \in S
    PROVE  \A i \in 0..n : i \in S
<1> DEFINE T == (0..n) \ S
           R == OpToRel(<, Nat)
<1> SUFFICES ASSUME T # {}
             PROVE  FALSE
  OBVIOUS
<1>5. T \subseteq Nat
  OBVIOUS
<1> HIDE DEF T
<1>1. PICK m \in T : \A y \in T : <<y, m>> \notin R
  BY <1>5, NatLessThanWellFounded, WFMin
<1>2. m \in 0..n /\ m \notin S /\ m # 0
  BY <1>1 DEF T
<1>3. m - 1 \in 0..n /\ m \in 1..n /\ m - 1 < m /\ m - 1 \in Nat /\ m \in Nat
  BY <1>2
<1>6. <<m - 1, m>> \in R
  BY <1>3 DEF OpToRel
<1>7. m - 1 \in S
  BY <1>1, <1>3, <1>6 DEF T
<1> QED BY <1>2, <1>3, <1>7

(* The analysis is a run along the trail, from its end.                    *)
LEMMA AnalyzedRun ==
    ASSUME NEW t \in Stacks, NEW c
    PROVE  LET n == Len(t.trail) IN
           \E a : /\ a[0] = analyze_reason(t, [seen |-> {}, open |-> 0, uip |-> 0], c, 0)
                  /\ \A i \in 1..n : a[i] = analyze_literal(t, a[i - 1], t.trail[n - i + 1])
                  /\ Analyzed(t, c) = a[n]
<1> DEFINE n == Len(t.trail)
           start == analyze_reason(t, [seen |-> {}, open |-> 0, uip |-> 0], c, 0)
           step(x, i) == analyze_literal(t, x, t.trail[n - i + 1])
           next(f, i) == IF i = 0 THEN start ELSE step(f[i - 1], i)
           run(m) == \E f : f = [i \in 0..m |-> next(f, i)]
           S == {m \in 0..n : run(m)}
<1>1. n \in Nat
  BY StackFields
<1>2. 0 \in S
  <2> HIDE DEF start, step
  <2> DEFINE f == [i \in 0..0 |-> start]
  <2>1. \A i \in 0..0 : next(f, i) = start
    OBVIOUS
  <2>2. f = [i \in 0..0 |-> next(f, i)]
    BY <2>1
  <2> HIDE DEF next, f
  <2> QED BY <1>1, <2>2
<1>3. ASSUME NEW m \in 1..n, m - 1 \in S
      PROVE  m \in S
  <2> HIDE DEF start, step
  <2>1. PICK f : f = [i \in 0..(m - 1) |-> next(f, i)]
    BY <1>3
  <2> DEFINE g == [i \in 0..m |-> IF i = m THEN step(f[m - 1], m) ELSE f[i]]
  <2>2. ASSUME NEW i \in 0..m
        PROVE  g[i] = next(g, i)
    <3>1. CASE i = 0
      <4>1. i \in 0..(m - 1) /\ i # m
        BY <1>1, <3>1
      <4>2. g[i] = f[i] /\ f[i] = next(f, i)
        BY <2>1, <4>1
      <4> QED BY <3>1, <4>2
    <3>2. CASE i # 0 /\ i # m
      <4>1. i \in 0..(m - 1) /\ i - 1 \in 0..m /\ i - 1 # m
        BY <1>1, <3>2
      <4>2. g[i] = f[i] /\ g[i - 1] = f[i - 1] /\ f[i] = next(f, i)
        BY <2>1, <3>2, <4>1
      <4> QED BY <3>2, <4>2
    <3>3. CASE i = m
      <4>1. i # 0 /\ i - 1 \in 0..m /\ i - 1 # m
        BY <1>1, <3>3
      <4>2. g[i] = step(f[m - 1], m) /\ g[i - 1] = f[i - 1]
        BY <3>3, <4>1
      <4> QED BY <3>3, <4>1, <4>2
    <3> QED BY <3>1, <3>2, <3>3
  <2>3. g = [i \in 0..m |-> next(g, i)]
    BY <2>2
  <2>4. m \in 0..n
    BY <1>1
  <2> HIDE DEF next, g
  <2> QED BY <2>3, <2>4
<1>4. \A i \in 0..n : i \in S
  <2> HIDE DEF S, n
  <2> QED BY <1>1, <1>2, <1>3, StepsReachAll
<1>5. run(n)
  <2>1. n \in 0..n
    BY <1>1
  <2> HIDE DEF run
  <2> QED BY <1>4, <2>1
<1> DEFINE a == CHOOSE f : f = [i \in 0..n |-> next(f, i)]
<1>6. a = [i \in 0..n |-> next(a, i)]
  <2> HIDE DEF start, step, next
  <2> QED BY <1>5
<1>7. Analyzed(t, c) = a[n]
  BY DEF Analyzed
<1> HIDE DEF a
<1>8. a[0] = start /\ \A i \in 1..n : a[i] = step(a[i - 1], i)
  <2> HIDE DEF start, step
  <2>1. \A i \in 0..n : a[i] = next(a, i)
    BY <1>6
  <2> QED BY <1>1, <2>1
<1> QED BY <1>7, <1>8

(* The literals that stay open while the trail is walked down: seen, of    *)
(* the current level, and falsified among the first m literals.            *)
OpenIn(t, seen, m) ==
    {k \in seen : LevelOf(t, k) = Level(t) /\ \E j \in 1..m : t.trail[j] = -k}

Traced(t, a, m) ==
    /\ a \in [seen : SUBSET Literals(Vars), open : Nat, uip : Int]
    /\ \A k \in a.seen : -k \in HoldsIn(t) /\ LevelOf(t, k) > 0
    /\ a.uip = 0 => a.open = Cardinality(OpenIn(t, a.seen, m)) /\ a.open >= 1
    /\ a.uip # 0 => a.uip \in HoldsIn(t) /\ LevelOf(t, a.uip) = Level(t) /\ -a.uip \in a.seen

Fresh(t, a, c, uip) == {lit \in c \ {uip} : LevelOf(t, lit) > 0 /\ lit \notin a.seen}

Here(t, F) == {lit \in F : LevelOf(t, lit) = Level(t)}

Opened(t, a, c, uip, b) ==
    /\ Cardinality(Here(t, Fresh(t, a, c, uip))) \in Nat
    /\ b \in [seen : SUBSET Literals(Vars), open : Nat, uip : Int]
    /\ b.seen = a.seen \cup Fresh(t, a, c, uip)
    /\ b.open = a.open + Cardinality(Here(t, Fresh(t, a, c, uip)))
    /\ b.uip = a.uip

(* Analyzing a reason opens its fresh literals of the current level.       *)
LEMMA ReasonFields ==
    ASSUME NEW t, NEW a \in [seen : SUBSET Literals(Vars), open : Nat, uip : Int],
           NEW c \in SUBSET Literals(Vars), NEW uip
    PROVE  Opened(t, a, c, uip, analyze_reason(t, a, c, uip))
<1>1. PICK F : F = Fresh(t, a, c, uip)
  OBVIOUS
<1>2. Here(t, F) \in SUBSET Literals(Vars) /\ F \in SUBSET Literals(Vars)
  BY <1>1 DEF Here, Fresh
<1>3. Cardinality(Here(t, F)) \in Nat
  BY <1>2, Pairs
<1>4. analyze_reason(t, a, c, uip) =
        [a EXCEPT !.seen = @ \cup F, !.open = @ + Cardinality(Here(t, F))]
  BY <1>1 DEF analyze_reason, Fresh, Here
<1>5. PICK b : b = analyze_reason(t, a, c, uip)
  OBVIOUS
<1>6. /\ b \in [seen : SUBSET Literals(Vars), open : Nat, uip : Int]
      /\ b.seen = a.seen \cup F /\ b.open = a.open + Cardinality(Here(t, F)) /\ b.uip = a.uip
  <2>1. PICK h \in Nat : h = a.open + Cardinality(Here(t, F))
    BY <1>3
  <2>2. PICK S \in SUBSET Literals(Vars) : S = a.seen \cup F
    BY <1>2
  <2>3. b = [a EXCEPT !.seen = S, !.open = h]
    BY <1>4, <1>5, <2>1, <2>2
  <2> QED BY <2>1, <2>2, <2>3
<1> QED BY <1>1, <1>3, <1>5, <1>6 DEF Opened

(* The conflict opens at least one literal.                                *)
LEMMA TraceStarts ==
    ASSUME NEW t, Stack(t), NEW c \in SUBSET Literals(Vars), Falsified(c, HoldsIn(t)),
           Level(t) > 0, \E k \in c : LevelOf(t, k) = Level(t)
    PROVE  Traced(t, analyze_reason(t, [seen |-> {}, open |-> 0, uip |-> 0], c, 0),
                  Len(t.trail))
<1> DEFINE a == [seen |-> {}, open |-> 0, uip |-> 0]
           fresh == Fresh(t, a, c, 0)
           here == Here(t, fresh)
           b == analyze_reason(t, a, c, 0)
<1>1. t \in Stacks /\ Level(t) \in Nat /\ HoldsIn(t) = {t.trail[i] : i \in 1..Len(t.trail)}
  BY StackFields DEF Stack
<1>2. a \in [seen : SUBSET Literals(Vars), open : Nat, uip : Int]
  OBVIOUS
<1>3. /\ Cardinality(here) \in Nat
      /\ b \in [seen : SUBSET Literals(Vars), open : Nat, uip : Int]
      /\ b.seen = a.seen \cup fresh /\ b.open = a.open + Cardinality(here) /\ b.uip = a.uip
  <2> HIDE DEF a, b
  <2>1. Opened(t, a, c, 0, b)
    BY <1>2, ReasonFields DEF b
  <2> QED BY <2>1 DEF Opened
<1>4. b.seen = fresh /\ b.open = Cardinality(here) /\ b.uip = 0
  <2> HIDE DEF b, here, fresh
  <2> QED BY <1>3
<1>5. \A k \in fresh : k \in c /\ LevelOf(t, k) > 0
  BY DEF Fresh
<1>6. \A k \in c : -k \in HoldsIn(t)
  BY DEF Falsified, Negated
<1>7. \A k \in fresh : \E j \in 1..Len(t.trail) : t.trail[j] = -k
  <2> HIDE DEF fresh
  <2> QED BY <1>1, <1>5, <1>6
<1>8. OpenIn(t, fresh, Len(t.trail)) = here
  <2> HIDE DEF fresh
  <2> QED BY <1>7 DEF OpenIn, Here
<1>9. Cardinality(here) >= 1
  <2>1. PICK k \in c : LevelOf(t, k) = Level(t)
    OBVIOUS
  <2>2. k \in here
    BY <2>1, <1>1, LiteralFacts DEF Fresh, Here
  <2>3. here \in SUBSET Literals(Vars)
    BY DEF Fresh, Here
  <2> HIDE DEF here
  <2>4. IsFiniteSet(here)
    BY <2>3, Pairs
  <2>5. Cardinality(here) # 0
    BY <2>2, <2>4, FS_EmptySet
  <2> QED BY <1>3, <2>5
<1> HIDE DEF a, b, here, fresh
<1>10. Traced(t, b, Len(t.trail))
  BY <1>3, <1>4, <1>5, <1>6, <1>8, <1>9 DEF Traced
<1> QED BY <1>10 DEF a, b

(* One step down the trail.                                                *)
LEMMA TraceStep ==
    ASSUME NEW t, Stack(t), Level(t) > 0, NEW m \in 1..Len(t.trail), NEW a, Traced(t, a, m)
    PROVE  Traced(t, analyze_literal(t, a, t.trail[m]), m - 1)
<1> DEFINE lit == t.trail[m]
           b == [a EXCEPT !.open = @ - 1]
           r == t.reason[vidx(lit)]
           fresh == Fresh(t, b, r, lit)
           here == Here(t, fresh)
           d == analyze_reason(t, b, r, lit)
<1>1. /\ t \in Stacks /\ Level(t) \in Nat /\ Len(t.trail) \in Nat /\ m \in Nat /\ m - 1 \in Nat
      /\ lit \in Literals(Vars) /\ lit # 0 /\ lit \in HoldsIn(t) /\ -lit \in Literals(Vars)
      /\ -(-lit) = lit /\ r \in SUBSET Literals(Vars)
      /\ LevelOf(t, lit) \in Nat /\ LevelOf(t, -lit) = LevelOf(t, lit)
      /\ LevelOf(t, lit) <= Level(t)
  <2>1. t \in Stacks /\ Level(t) \in Nat /\ Len(t.trail) \in Nat
    BY StackFields DEF Stack
  <2>2. m \in Nat /\ m - 1 \in Nat
    BY <2>1
  <2>3. lit \in Literals(Vars) /\ lit \in HoldsIn(t)
    BY <2>1, StackFields
  <2>4. LevelOf(t, lit) <= Level(t)
    BY DEF Stack, Levels
  <2> HIDE DEF lit
  <2>5. lit # 0 /\ -lit \in Literals(Vars) /\ -(-lit) = lit
    BY <2>3, LiteralFacts
  <2>6. LevelOf(t, lit) \in Nat /\ LevelOf(t, -lit) = LevelOf(t, lit)
        /\ r \in SUBSET Literals(Vars)
    BY <2>1, <2>3, StackFields
  <2> QED BY <2>1, <2>2, <2>3, <2>4, <2>5, <2>6
<1>2. /\ a \in [seen : SUBSET Literals(Vars), open : Nat, uip : Int]
      /\ \A k \in a.seen : -k \in HoldsIn(t) /\ LevelOf(t, k) > 0
  BY DEF Traced
<1>3. \A k \in a.seen : k \in Literals(Vars) /\ (-k = lit => k = -lit)
  BY <1>2, LiteralFacts
<1>4. CASE a.uip # 0
  <2>1. analyze_literal(t, a, lit) = a
    BY <1>4 DEF analyze_literal
  <2> HIDE DEF lit
  <2> QED BY <1>4, <2>1 DEF Traced, lit
<1>5. CASE a.uip = 0 /\ (-lit \notin a.seen \/ LevelOf(t, lit) < Level(t))
  <2>1. analyze_literal(t, a, lit) = a
    BY <1>5 DEF analyze_literal
  <2>2. ASSUME NEW k \in a.seen, LevelOf(t, k) = Level(t), NEW j \in 1..m, t.trail[j] = -k
        PROVE  j \in 1..(m - 1)
    <3>1. j # m
      BY <1>1, <1>3, <1>5, <2>2
    <3> QED BY <1>1, <3>1
  <2>3. \A j \in 1..(m - 1) : j \in 1..m
    BY <1>1
  <2>4. OpenIn(t, a.seen, m) = OpenIn(t, a.seen, m - 1)
    BY <2>2, <2>3 DEF OpenIn
  <2> HIDE DEF lit
  <2> QED BY <1>5, <2>1, <2>4 DEF Traced, lit
<1>6. CASE a.uip = 0 /\ -lit \in a.seen /\ ~(LevelOf(t, lit) < Level(t)) /\ a.open = 1
  <2>1. analyze_literal(t, a, lit) = [a EXCEPT !.uip = lit]
    BY <1>6 DEF analyze_literal
  <2>2. LevelOf(t, lit) = Level(t)
    BY <1>1, <1>6
  <2>3. lit \in Int
    BY <1>1, LiteralFacts
  <2> HIDE DEF lit
  <2> QED BY <1>1, <1>2, <1>6, <2>1, <2>2, <2>3 DEF Traced, lit
<1>7. CASE a.uip = 0 /\ -lit \in a.seen /\ ~(LevelOf(t, lit) < Level(t)) /\ a.open # 1
  <2>1. analyze_literal(t, a, lit) = d
    BY <1>7 DEF analyze_literal
  <2>2. LevelOf(t, lit) = Level(t)
    BY <1>1, <1>7
  <2>3. a.open = Cardinality(OpenIn(t, a.seen, m)) /\ a.open >= 1 /\ a.open \in Nat
    BY <1>2, <1>7 DEF Traced
  <2>4. a.open - 1 \in Nat /\ a.open - 1 >= 1
    BY <1>7, <2>3
  <2>5. /\ b \in [seen : SUBSET Literals(Vars), open : Nat, uip : Int]
        /\ b.seen = a.seen /\ b.open = a.open - 1 /\ b.uip = 0
    BY <1>2, <1>7, <2>4
  <2> HIDE DEF b
  <2>6. /\ Cardinality(here) \in Nat
        /\ d \in [seen : SUBSET Literals(Vars), open : Nat, uip : Int]
        /\ d.seen = b.seen \cup fresh /\ d.open = b.open + Cardinality(here) /\ d.uip = b.uip
    <3>1. r \in SUBSET Literals(Vars)
      BY <1>1
    <3>2. b \in [seen : SUBSET Literals(Vars), open : Nat, uip : Int]
      BY <2>5
    <3> HIDE DEF lit, r, d
    <3>3. Opened(t, b, r, lit, d)
      BY <3>1, <3>2, ReasonFields DEF d
    <3> QED BY <3>3 DEF Opened
  <2>7. ASSUME NEW k \in fresh
        PROVE  /\ k \in Literals(Vars) /\ LevelOf(t, k) > 0 /\ -k \in HoldsIn(t)
               /\ \E j \in 1..(m - 1) : t.trail[j] = -k
    <3>1. k \in r \ {lit} /\ LevelOf(t, k) > 0 /\ r # NoReason
      BY DEF NoReason, Fresh
    <3>2. \E j \in 1..(m - 1) : t.trail[j] = -k
      BY <3>1 DEF Stack, Reasons, ReasonOf
    <3>3. -k \in HoldsIn(t)
      BY <1>1, <3>2, StackFields
    <3> HIDE DEF r, fresh, lit
    <3> QED BY <1>1, <3>1, <3>2, <3>3
  <2>8. here = {k \in fresh : LevelOf(t, k) = Level(t)} /\ fresh \cap a.seen = {}
    BY <2>5 DEF Fresh, Here
  <2> DEFINE old == OpenIn(t, a.seen, m)
             new == OpenIn(t, d.seen, m - 1)
  <2>9. new = (old \ {-lit}) \cup here
    <3>1. ASSUME NEW k \in new
          PROVE  k \in (old \ {-lit}) \cup here
      <4>1. k \in a.seen \cup fresh /\ LevelOf(t, k) = Level(t)
            /\ \E j \in 1..(m - 1) : t.trail[j] = -k
        <5> HIDE DEF d, fresh
        <5> QED BY <2>5, <2>6 DEF OpenIn
      <4>2. CASE k \in fresh
        <5> HIDE DEF fresh, here
        <5> QED BY <2>8, <4>1, <4>2
      <4>3. CASE k \in a.seen
        <5>1. PICK j \in 1..(m - 1) : t.trail[j] = -k
          BY <4>1
        <5>2. j \in 1..m /\ j \in 1..Len(t.trail) /\ j # m
          BY <1>1
        <5>3. k # -lit
          BY <1>1, <5>1, <5>2 DEF Stack, Single
        <5>4. k \in old
          BY <4>1, <4>3, <5>1, <5>2 DEF OpenIn
        <5> QED BY <5>3, <5>4
      <4> QED BY <4>1, <4>2, <4>3
    <3>2. ASSUME NEW k \in here
          PROVE  k \in new
      <4>1. k \in fresh /\ LevelOf(t, k) = Level(t)
        BY DEF Here
      <4> HIDE DEF fresh, here, d
      <4> QED BY <2>6, <2>7, <4>1 DEF OpenIn
    <3>3. ASSUME NEW k \in old, k # -lit
          PROVE  k \in new
      <4>1. k \in a.seen /\ LevelOf(t, k) = Level(t)
        BY DEF OpenIn
      <4>2. PICK j \in 1..m : t.trail[j] = -k
        BY DEF OpenIn
      <4>3. j # m
        BY <1>3, <3>3, <4>1, <4>2
      <4>4. j \in 1..(m - 1)
        BY <1>1, <4>3
      <4> HIDE DEF fresh, here, d
      <4> QED BY <2>5, <2>6, <4>1, <4>2, <4>4 DEF OpenIn
    <3> HIDE DEF new, old, here
    <3> QED BY <3>1, <3>2, <3>3
  <2>10. -lit \in old
    BY <1>1, <1>7, <2>2 DEF OpenIn
  <2>11. old \in SUBSET Literals(Vars) /\ here \in SUBSET Literals(Vars) /\ here \cap old = {}
    <3>1. old \subseteq a.seen
      BY DEF OpenIn
    <3>2. here \subseteq fresh /\ fresh \subseteq Literals(Vars)
      BY <2>7 DEF Here
    <3> HIDE DEF old, here, fresh
    <3> QED BY <1>2, <2>8, <3>1, <3>2
  <2> HIDE DEF old, here, new
  <2>12. IsFiniteSet(old) /\ IsFiniteSet(here) /\ IsFiniteSet(old \ {-lit})
         /\ Cardinality(old \ {-lit}) = Cardinality(old) - 1
    BY <2>10, <2>11, Pairs, FS_RemoveElement
  <2>13. Cardinality(new) = Cardinality(old) - 1 + Cardinality(here)
    <3>1. (old \ {-lit}) \cap here = {}
      BY <2>11
    <3>2. Cardinality((old \ {-lit}) \cup here) =
            Cardinality(old \ {-lit}) + Cardinality(here) - Cardinality({})
      BY <2>12, <3>1, FS_Union
    <3>3. Cardinality({}) = 0
      BY FS_EmptySet
    <3>4. Cardinality(old) - 1 + Cardinality(here) =
            Cardinality(old) - 1 + Cardinality(here) - 0
      BY <2>3, <2>6 DEF old
    <3> QED BY <2>9, <2>12, <3>2, <3>3, <3>4
  <2>14. d.open = Cardinality(new) /\ d.open >= 1
    <3>1. a.open = Cardinality(old)
      BY <2>3 DEF old
    <3> HIDE DEF d
    <3>2. d.open = a.open - 1 + Cardinality(here)
      BY <2>5, <2>6
    <3> QED BY <2>3, <2>4, <2>6, <2>13, <3>1, <3>2
  <2> HIDE DEF d, fresh
  <2>15. \A k \in d.seen : -k \in HoldsIn(t) /\ LevelOf(t, k) > 0
    BY <1>2, <2>5, <2>6, <2>7
  <2>16. Traced(t, d, m - 1)
    BY <2>5, <2>6, <2>14, <2>15 DEF Traced, new
  <2> QED BY <2>1, <2>16
<1> QED BY <1>4, <1>5, <1>6, <1>7

(* The analysis ends with a literal of the current level and with false    *)
(* literals of lower levels, none of them at the root.                     *)
LEMMA AnalyzedFacts ==
    ASSUME NEW t, Stack(t), NEW c \in SUBSET Literals(Vars), Falsified(c, HoldsIn(t)),
           Level(t) > 0, \E k \in c : LevelOf(t, k) = Level(t),
           NEW a, a = Analyzed(t, c)
    PROVE  /\ a.uip \in HoldsIn(t) /\ LevelOf(t, a.uip) = Level(t)
           /\ Lower(t, a) \in SUBSET Literals(Vars)
           /\ \A k \in Lower(t, a) :
                 -k \in HoldsIn(t) /\ LevelOf(t, k) > 0 /\ LevelOf(t, k) < Level(t)
<1> DEFINE n == Len(t.trail)
<1>1. t \in Stacks /\ n \in Nat
  BY StackFields DEF Stack
<1>2. PICK run :
         /\ run[0] = analyze_reason(t, [seen |-> {}, open |-> 0, uip |-> 0], c, 0)
         /\ \A i \in 1..n : run[i] = analyze_literal(t, run[i - 1], t.trail[n - i + 1])
         /\ Analyzed(t, c) = run[n]
  BY <1>1, AnalyzedRun
<1> DEFINE S == {i \in 0..n : Traced(t, run[i], n - i)}
<1>3. 0 \in S
  <2>1. n - 0 = n /\ 0 \in 0..n
    BY <1>1
  <2>2. Traced(t, run[0], n)
    BY <1>2, TraceStarts
  <2> QED BY <2>1, <2>2
<1>4. ASSUME NEW i \in 1..n, i - 1 \in S
      PROVE  i \in S
  <2>1. n - (i - 1) = n - i + 1 /\ n - i + 1 \in 1..n /\ i \in 0..n /\ (n - i + 1) - 1 = n - i
    BY <1>1
  <2>2. Traced(t, run[i - 1], n - i + 1)
    BY <1>4, <2>1
  <2>3. Traced(t, analyze_literal(t, run[i - 1], t.trail[n - i + 1]), (n - i + 1) - 1)
    <3>1. PICK m \in 1..Len(t.trail) : m = n - i + 1
      BY <2>1
    <3>2. PICK x : x = run[i - 1]
      OBVIOUS
    <3>3. Traced(t, analyze_literal(t, x, t.trail[m]), m - 1)
      BY <2>2, <3>1, <3>2, TraceStep
    <3> QED BY <3>1, <3>2, <3>3
  <2> QED BY <1>2, <2>1, <2>3
<1>5. n \in S
  <2>1. n \in 0..n
    BY <1>1
  <2> HIDE DEF S, n
  <2> QED BY <1>1, <1>3, <1>4, <2>1, StepsReachAll
<1>6. Traced(t, a, 0)
  <2>1. n - n = 0
    BY <1>1
  <2> HIDE DEF n
  <2> QED BY <1>2, <1>5, <2>1
<1>7. a.uip # 0
  <2>1. OpenIn(t, a.seen, 0) = {}
    BY DEF OpenIn
  <2>2. Cardinality({}) = 0
    BY FS_EmptySet
  <2> QED BY <1>6, <2>1, <2>2 DEF Traced
<1>8. a.uip \in HoldsIn(t) /\ LevelOf(t, a.uip) = Level(t)
  BY <1>6, <1>7 DEF Traced
<1>9. a.seen \in SUBSET Literals(Vars) /\ \A k \in a.seen : -k \in HoldsIn(t) /\ LevelOf(t, k) > 0
  BY <1>6 DEF Traced
<1> QED BY <1>8, <1>9 DEF Lower

(* Minimization only removes literals.                                     *)
LEMMA MinimizedSubset ==
    ASSUME NEW t, NEW lower
    PROVE  minimize_clause(t, lower) \subseteq lower
BY DEF minimize_clause

(* The literal assigned last is one of the highest level.                  *)
LEMMA LastAssignedFacts ==
    ASSUME NEW t, Stack(t), NEW C \in SUBSET Literals(Vars), C # {},
           \A k \in C : -k \in HoldsIn(t)
    PROVE  LastAssigned(t, C) \in C
           /\ \A k \in C : LevelOf(t, k) <= LevelOf(t, LastAssigned(t, C))
<1> DEFINE lvl == [k \in Literals(Vars) |-> LevelOf(t, k)]
           plc == [k \in Literals(Vars) |-> TrailPlace(t, k)]
           later(k, j) == \/ LevelOf(t, j) < LevelOf(t, k)
                          \/ LevelOf(t, j) = LevelOf(t, k) /\ TrailPlace(t, j) < TrailPlace(t, k)
<1>1. t \in Stacks /\ Len(t.trail) \in Nat /\ DOMAIN t.trail = 1..Len(t.trail)
      /\ HoldsIn(t) = {t.trail[i] : i \in 1..Len(t.trail)}
  BY StackFields, LenProperties DEF Stack
<1>2. \A k \in C : LevelOf(t, k) \in Nat /\ k \in Literals(Vars)
  BY <1>1, StackFields
<1>3. IsFiniteSet(C)
  BY Pairs
<1>4. ASSUME NEW k \in C
      PROVE  TrailPlace(t, k) \in 1..Len(t.trail) /\ t.trail[TrailPlace(t, k)] = -k
  <2>1. PICK i \in 1..Len(t.trail) : t.trail[i] = -k
    BY <1>1
  <2>2. vidx(t.trail[i]) = vidx(k)
    BY <1>2, <2>1, LiteralFacts
  <2>3. TrailPlace(t, k) \in 1..Len(t.trail) /\ vidx(t.trail[TrailPlace(t, k)]) = vidx(k)
    BY <1>1, <2>2 DEF TrailPlace
  <2>4. TrailPlace(t, k) = i
    BY <2>2, <2>3 DEF Stack, Single
  <2> QED BY <2>1, <2>4
<1>5. \A k, j \in C : TrailPlace(t, j) = TrailPlace(t, k) => j = k
  <2> SUFFICES ASSUME NEW k \in C, NEW j \in C, TrailPlace(t, j) = TrailPlace(t, k)
               PROVE  j = k
    OBVIOUS
  <2>1. -j = -k
    BY <1>4
  <2> QED BY <1>2, <2>1, LiteralFacts
<1>6. PICK top \in C : \A k \in C : LevelOf(t, k) <= LevelOf(t, top)
  <2>1. \A k \in C : lvl[k] \in Nat /\ lvl[k] = LevelOf(t, k)
    BY <1>2
  <2> HIDE DEF lvl
  <2>2. \E m \in C : \A x \in C : lvl[x] <= lvl[m]
    BY <1>3, <2>1, Greatest
  <2> QED BY <2>1, <2>2
<1> DEFINE D == {k \in C : LevelOf(t, k) = LevelOf(t, top)}
<1>7. PICK last \in D : \A k \in D : TrailPlace(t, k) <= TrailPlace(t, last)
  <2>1. D # {} /\ D \in SUBSET Literals(Vars) /\ \A k \in D : k \in C
    BY <1>2
  <2>2. \A k \in D : plc[k] \in Nat /\ plc[k] = TrailPlace(t, k)
    BY <1>2, <1>4
  <2> HIDE DEF plc, D
  <2>3. IsFiniteSet(D)
    BY <2>1, Pairs
  <2>4. \E m \in D : \A x \in D : plc[x] <= plc[m]
    BY <2>1, <2>2, <2>3, Greatest
  <2> QED BY <2>2, <2>4
<1>8. last \in C /\ LevelOf(t, last) = LevelOf(t, top)
  OBVIOUS
<1>9. \A j \in C \ {last} : later(last, j)
  <2> SUFFICES ASSUME NEW j \in C \ {last}
               PROVE  later(last, j)
    OBVIOUS
  <2>1. CASE LevelOf(t, j) = LevelOf(t, top)
    <3>1. TrailPlace(t, j) <= TrailPlace(t, last) /\ TrailPlace(t, j) # TrailPlace(t, last)
      BY <1>5, <1>7, <1>8, <2>1
    <3>2. TrailPlace(t, j) \in Nat /\ TrailPlace(t, last) \in Nat
      BY <1>4, <1>8
    <3>3. TrailPlace(t, j) < TrailPlace(t, last)
      BY <3>1, <3>2
    <3> QED BY <1>8, <2>1, <3>3
  <2>2. CASE LevelOf(t, j) # LevelOf(t, top)
    <3>1. LevelOf(t, j) < LevelOf(t, top)
      BY <1>2, <1>6, <2>2
    <3> QED BY <1>8, <3>1
  <2> QED BY <2>1, <2>2
<1>10. LastAssigned(t, C) = CHOOSE k \in C : \A j \in C \ {k} : later(k, j)
  BY DEF LastAssigned
<1> HIDE DEF later, D
<1>11. PICK z : z = LastAssigned(t, C)
  OBVIOUS
<1>12. z \in C /\ \A j \in C \ {z} : later(z, j)
  BY <1>8, <1>9, <1>10, <1>11
<1>13. \A k \in C : LevelOf(t, k) <= LevelOf(t, z)
  BY <1>2, <1>12 DEF later
<1> QED BY <1>11, <1>12, <1>13

(* A clause with two literals is long.                                     *)
LEMMA TwoLiterals ==
    ASSUME NEW c \in SUBSET Literals(Vars), NEW x \in c, NEW y \in c, x # y
    PROVE  c \in LongClauses
<1>1. IsFiniteSet(c) /\ Cardinality(c) \in Nat
  BY Pairs
<1>2. IsFiniteSet(c \ {x}) /\ Cardinality(c \ {x}) = Cardinality(c) - 1
  BY <1>1, FS_RemoveElement
<1>3. Cardinality(c \ {x}) # 0
  <2>1. y \in c \ {x}
    OBVIOUS
  <2> QED BY <1>2, <2>1, FS_EmptySet
<1>4. Cardinality(c \ {x}) \in Nat
  BY <1>2, FS_CardinalityType
<1>5. Cardinality(c) > 1
  BY <1>1, <1>2, <1>3, <1>4
<1> QED BY <1>5 DEF LongClauses

(* The level that is returned to lies below the conflict's, and not below  *)
(* the jump level.                                                         *)
LEMMA BacktrackLevel ==
    ASSUME NEW b, Level(b) \in Nat, NEW jump \in 0..(Level(b) - 1),
           NEW n \in determine_actual_backtrack_level(b, jump)
    PROVE  n \in jump..(Level(b) - 1)
<1>1. jump \in jump..(Level(b) - 1) /\ Level(b) - 1 \in jump..(Level(b) - 1)
  OBVIOUS
<1>2. n = jump \/ n = Level(b) - 1 \/ n \in ReuseLevels(b, jump)
  BY DEF determine_actual_backtrack_level
<1>3. ASSUME n \in ReuseLevels(b, jump)
      PROVE  n \in jump..(Level(b) - 1)
  <2> DEFINE S(i) == {jump} \cup {k \in (jump + 1)..(Level(b) - 1) : b.control[k] < i}
  <2>1. PICK i : n = Max(S(i))
    BY <1>3 DEF ReuseLevels
  <2>2. S(i) \subseteq Nat /\ S(i) # {} /\ \A x \in S(i) : x <= Level(b) - 1
    OBVIOUS
  <2>3. \A x \in S(i) : x \in jump..(Level(b) - 1)
    OBVIOUS
  <2>4. Level(b) - 1 \in Nat
    OBVIOUS
  <2> HIDE DEF S
  <2>5. Max(S(i)) \in S(i)
    BY <2>2, <2>4, MaxOfNats
  <2> QED BY <2>1, <2>3, <2>5
<1> QED BY <1>1, <1>2, <1>3

(* The stack at the conflict's level.                                      *)
LEMMA ConflictBacktracked ==
    ASSUME Core, Propagated, conflict # NoConflict, ~unsat,
           NEW t, t = backtrack(s, conflict_level(s, conflict))
    PROVE  /\ Stack(t) /\ Level(t) = conflict_level(s, conflict)
           /\ Falsified(conflict, HoldsIn(t))
           /\ \A k \in conflict : LevelOf(t, k) = LevelOf(s, k)
           /\ \A c \in Clauses, n \in 0..(Level(t) - 1) :
                 \E m \in Nat : Height(t, n) <= m /\ Guarded(t, c, watched[c], m)
<1>1. PICK L : L = conflict_level(s, conflict)
  OBVIOUS
<1>2. /\ Stack(s) /\ s \in Stacks /\ visiting = {} /\ Level(s) \in Nat /\ L \in 0..Level(s)
      /\ Falsified(conflict, HoldsIn(s))
      /\ \A k \in conflict : /\ k \in Literals(Vars) /\ -k \in HoldsIn(s)
                             /\ LevelOf(s, k) \in Nat /\ LevelOf(s, -k) = LevelOf(s, k)
                             /\ LevelOf(s, k) <= L
  BY <1>1, ConflictFacts
<1>3. Stack(t) /\ Level(t) = L
  BY <1>1, <1>2, BacktrackKeeps
<1>4. CASE L = Level(s)
  <2>1. t = s
    BY <1>1, <1>4 DEF backtrack
  <2> QED BY <1>1, <1>2, <1>3, <2>1, GuardedBelow
<1>5. CASE L # Level(s)
  <2>1. L \in 0..(Level(s) - 1)
    BY <1>2, <1>5
  <2>2. Retained(s, L, t)
    BY <1>1, <1>2, <2>1, BacktrackShape
  <2>3. \A k \in conflict : -k \in HoldsIn(t) /\ LevelOf(t, k) = LevelOf(s, k)
    BY <1>2, <2>2 DEF Retained
  <2>4. Falsified(conflict, HoldsIn(t))
    BY <2>3 DEF Falsified, Negated
  <2>5. ASSUME NEW c \in Clauses, NEW n \in 0..(Level(t) - 1)
        PROVE  \E m \in Nat : Height(t, n) <= m /\ Guarded(t, c, watched[c], m)
    <3>1. PICK m \in Nat : Height(s, L) <= m /\ Guarded(s, c, watched[c], m)
      BY <1>2, <2>1, GuardedBelow
    <3>2. Guarded(t, c, watched[c], Height(s, L))
      BY <1>1, <1>2, <2>1, <3>1, GuardedBacktrack
    <3>3. t.propagated = Height(s, L) /\ t.propagated \in Nat
      BY <2>2, StackFields DEF Retained
    <3>4. n + 1 \in 1..Level(t)
      BY <1>2, <1>3
    <3>5. Height(t, n) <= t.propagated
      BY <1>3, <3>4 DEF Stack, Heights, Height
    <3> QED BY <3>2, <3>3, <3>5
  <2> QED BY <1>1, <1>3, <2>3, <2>4, <2>5
<1> QED BY <1>4, <1>5

(* Below the level of the flipped literal, it and its clause's other       *)
(* literals can be assigned.                                               *)
FlipAt(b, n, u, uip, lower) ==
    /\ Stack(u) /\ Retained(b, n, u) /\ u \in Stacks /\ Levels(u)
    /\ -uip \in Literals(Vars) /\ -uip \notin lower
    /\ \A k \in lower : -k \in HoldsIn(u) /\ LevelOf(u, k) = LevelOf(b, k)
    /\ Assignable(u, -uip, {-uip} \cup lower) /\ Assignable(u, -uip, NoReason)

(* The flipped literal can be assigned after the jump.                     *)
LEMMA LearnedAssignable ==
    ASSUME NEW b, Stack(b), NEW n \in 0..(Level(b) - 1), NEW u, u = backtrack(b, n),
           NEW uip \in HoldsIn(b), LevelOf(b, uip) = Level(b),
           NEW lower \in SUBSET Literals(Vars),
           \A k \in lower : -k \in HoldsIn(b) /\ LevelOf(b, k) <= n
    PROVE  FlipAt(b, n, u, uip, lower)
<1>1. b \in Stacks /\ Level(b) \in Nat /\ n \in 0..Level(b)
  BY StackFields DEF Stack
<1>2. Stack(u) /\ Retained(b, n, u) /\ u \in Stacks /\ Levels(u)
  BY <1>1, BacktrackKeeps, BacktrackShape DEF Stack
<1>3. uip \in Literals(Vars) /\ -uip \notin HoldsIn(b)
  BY TrailConsistent
<1>4. -uip \in Literals(Vars) /\ -(-uip) = uip /\ LevelOf(b, -uip) = LevelOf(b, uip)
  BY <1>1, <1>3, LiteralFacts, StackFields
<1>5. -uip \notin lower
  BY <1>1, <1>4
<1>6. ASSUME NEW k \in lower
      PROVE  -k \in HoldsIn(u) /\ LevelOf(u, k) = LevelOf(b, k)
  <2>1. LevelOf(b, -k) = LevelOf(b, k)
    BY <1>1, StackFields
  <2>2. -k \in HoldsIn(u)
    BY <1>2, <2>1 DEF Retained
  <2> QED BY <1>2, <2>2 DEF Retained
<1>7. uip \notin HoldsIn(u) /\ -uip \notin HoldsIn(u)
  <2>1. ~(LevelOf(b, uip) <= n)
    BY <1>1
  <2> QED BY <1>2, <1>3, <2>1 DEF Retained
<1>8. vidx(-uip) \in Free(u)
  BY <1>2, <1>4, <1>7, StackFields
<1>9. Assignable(u, -uip, NoReason)
  BY <1>4, <1>8 DEF Assignable
<1>10. Assignable(u, -uip, {-uip} \cup lower)
  BY <1>4, <1>6, <1>8 DEF Assignable
<1> QED BY <1>2, <1>4, <1>5, <1>6, <1>9, <1>10 DEF FlipAt

(* When no literal is forced, both watches have the conflict's level.      *)
LEMMA ConflictWatched ==
    ASSUME Core, Propagated, conflict # NoConflict, forced(s, conflict) = {},
           NEW W \in RewatchedPairs(s, conflict)
    PROVE  /\ W \in kSubset(2, conflict) /\ W \in SUBSET conflict
           /\ \A w \in W : LevelOf(s, w) = conflict_level(s, conflict)
<1>1. PICK L : L = conflict_level(s, conflict)
  OBVIOUS
<1>2. /\ conflict \in SUBSET Literals(Vars) /\ conflict # {} /\ Stack(s)
      /\ Falsified(conflict, HoldsIn(s)) /\ L \in Nat
      /\ \A k \in conflict : LevelOf(s, k) \in Nat /\ LevelOf(s, k) <= L
  BY <1>1, ConflictFacts
<1>3. \E k \in conflict : LevelOf(s, k) = L
  BY <1>1, <1>2, ConflictLevel
<1>4. /\ W \in kSubset(2, conflict)
      /\ \A k \in W, j \in conflict \ W : LevelOf(s, j) <= LevelOf(s, k)
  BY <1>2, Rewatched
<1>5. W \in SUBSET conflict
  BY <1>4, Pairs
<1>6. ASSUME NEW w \in W
      PROVE  LevelOf(s, w) = L
  <2> SUFFICES ASSUME LevelOf(s, w) # L
               PROVE  FALSE
    OBVIOUS
  <2>1. LevelOf(s, w) < L
    BY <1>2, <1>5
  <2>2. PICK y \in W : y # w /\ W = {w, y}
    BY <1>2, <1>4, Pairs
  <2>3. \A j \in conflict \ W : LevelOf(s, j) < L
    <3> SUFFICES ASSUME NEW j \in conflict \ W
                 PROVE  LevelOf(s, j) < L
      OBVIOUS
    <3>1. LevelOf(s, j) <= LevelOf(s, w)
      BY <1>4
    <3> QED BY <1>2, <1>5, <2>1, <3>1
  <2>4. LevelOf(s, y) = L
    <3>1. PICK k \in conflict : LevelOf(s, k) = L
      BY <1>3
    <3>2. k \in W
      BY <1>2, <2>3, <3>1
    <3>3. k = y
      BY <2>1, <2>2, <3>1, <3>2
    <3> QED BY <3>1, <3>3
  <2>5. \A k \in conflict \ {y} : LevelOf(s, k) < L
    BY <2>1, <2>2, <2>3
  <2>6. y \in forced(s, conflict)
    BY <1>1, <1>5, <2>4, <2>5 DEF forced
  <2> QED BY <2>6
<1> QED BY <1>1, <1>4, <1>5, <1>6

(* The clauses after learning, and what they watch: the learned clause is  *)
(* new or replaces those that it subsumes.                                 *)
LEMMA LearnedDatabase ==
    ASSUME Database, NEW c \in LongClauses, NEW V \in kSubset(2, c),
           conflict \in Clauses, NEW W \in kSubset(2, conflict),
           irredundant' = irredundant,
           redundant' = eagerly_subsume(redundant, c) \cup ({c} \ irredundant),
           watched' = [d \in irredundant \cup redundant' |->
                          IF d = c THEN V ELSE [watched EXCEPT ![conflict] = W][d]]
    PROVE  /\ Database'
           /\ \A d \in Clauses' : \/ d = c /\ watched'[d] = V
                                  \/ d = conflict /\ watched'[d] = W
                                  \/ d \in Clauses /\ watched'[d] = watched[d]
<1>1. /\ irredundant \subseteq LongClauses /\ redundant \subseteq LongClauses
      /\ watched \in [Clauses -> SUBSET Literals(Vars)]
      /\ \A d \in Clauses : watched[d] \in kSubset(2, d)
  BY DEF Database
<1>2. /\ redundant' \subseteq LongClauses
      /\ \A d \in irredundant \cup redundant' : d \in Clauses \/ d = c
  BY <1>1 DEF eagerly_subsume, Clauses
<1>3. Clauses' = irredundant \cup redundant'
  BY DEF Clauses
<1>4. ASSUME NEW d \in Clauses'
      PROVE  \/ d = c /\ watched'[d] = V
             \/ d = conflict /\ watched'[d] = W
             \/ d \in Clauses /\ watched'[d] = watched[d]
  <2>1. watched'[d] = IF d = c THEN V ELSE [watched EXCEPT ![conflict] = W][d]
    BY <1>3
  <2>2. CASE d = c
    BY <2>1, <2>2
  <2>3. CASE d # c
    <3>1. d \in Clauses /\ watched'[d] = [watched EXCEPT ![conflict] = W][d]
      BY <1>2, <1>3, <2>1, <2>3
    <3>2. d = conflict => watched'[d] = W
      BY <1>1, <3>1
    <3>3. d # conflict => watched'[d] = watched[d]
      BY <1>1, <3>1
    <3> QED BY <3>1, <3>2, <3>3
  <2> QED BY <2>2, <2>3
<1>5. \A d \in Clauses' : d \in LongClauses /\ d \in SUBSET Literals(Vars)
  BY <1>1, <1>2, <1>3 DEF LongClauses
<1>6. \A d \in Clauses' : watched'[d] \in kSubset(2, d)
  BY <1>1, <1>4
<1>7. \A d \in Clauses' : watched'[d] \in SUBSET Literals(Vars)
  <2> SUFFICES ASSUME NEW d \in Clauses'
               PROVE  watched'[d] \in SUBSET Literals(Vars)
    OBVIOUS
  <2>1. \A U \in kSubset(2, d) : U \in SUBSET d
    BY Pairs
  <2> QED BY <1>5, <1>6, <2>1
<1>8. watched' \in [Clauses' -> SUBSET Literals(Vars)]
  BY <1>3, <1>7
<1> QED BY <1>1, <1>2, <1>4, <1>6, <1>8 DEF Database

(* A watch that was left with its level guards no literal of the trail.    *)
LEMMA GuardedFree ==
    ASSUME NEW u \in Stacks, Levels(u), NEW lit, NEW r, Assignable(u, lit, r),
           NEW c, NEW W \in SUBSET Literals(Vars), \A w \in W : -w \notin HoldsIn(u),
           NEW m \in Nat, m <= Len(u.trail)
    PROVE  Guarded(search_assign(u, lit, r), c, W, m)
<1>1. Guarded(u, c, W, m)
  <2>1. \A i \in 1..m : u.trail[i] \in HoldsIn(u)
    BY StackFields
  <2> QED BY <2>1 DEF Guarded
<1> QED BY <1>1, GuardedAssign

(* A conflict that teaches a clause: t is the stack at the conflict's      *)
(* level, a its analysis, lower the other literals that are learned, b the *)
(* stack after bumping, u the stack that is returned to.                   *)
Learns(t, a, lower, b, n, u, W) ==
    /\ t = backtrack(s, conflict_level(s, conflict)) /\ Stack(t)
    /\ Level(t) = conflict_level(s, conflict) /\ Level(t) > 0
    /\ Falsified(conflict, HoldsIn(t))
    /\ \A k \in conflict : LevelOf(t, k) = LevelOf(s, k)
    /\ \A c \in Clauses, h \in 0..(Level(t) - 1) :
          \E m \in Nat : Height(t, h) <= m /\ Guarded(t, c, watched[c], m)
    /\ a = Analyzed(t, conflict) /\ a.uip \in HoldsIn(t) /\ LevelOf(t, a.uip) = Level(t)
    /\ Lower(t, a) \in SUBSET Literals(Vars)
    /\ \A k \in Lower(t, a) : -k \in HoldsIn(t)
    /\ lower = minimize_clause(t, Lower(t, a)) /\ lower \in SUBSET Literals(Vars)
    /\ lower # {} => /\ LastAssigned(t, lower) \in lower
                     /\ \A k \in lower : LevelOf(t, k) <= LevelOf(t, LastAssigned(t, lower))
    /\ Stack(b) /\ SameStack(t, b)
    /\ n \in 0..(Level(b) - 1) /\ u = backtrack(b, n) /\ FlipAt(b, n, u, a.uip, lower)
    /\ W \in RewatchedPairs(s, conflict)
    /\ s' = search_assign(u, -a.uip, IF lower = {} THEN NoReason ELSE {-a.uip} \cup lower)
    /\ redundant' = IF lower = {} THEN redundant
                    ELSE eagerly_subsume(redundant, {-a.uip} \cup lower)
                           \cup ({{-a.uip} \cup lower} \ irredundant)
    /\ watched' = [d \in irredundant \cup redundant' |->
                      IF d = {-a.uip} \cup lower /\ ~(lower = {})
                      THEN {-a.uip, LastAssigned(t, lower)}
                      ELSE [watched EXCEPT ![conflict] = W][d]]

(* Such is every conflict that is not forced.                              *)
LEMMA LearnShape ==
    ASSUME Core, Propagated, conflict # NoConflict, ~unsat, AnalyzeLearn
    PROVE  \E t, a, lower, b, n, u, W : Learns(t, a, lower, b, n, u, W)
<1> PICK t : t = backtrack(s, conflict_level(s, conflict))
  OBVIOUS
<1> PICK a : a = Analyzed(t, conflict)
  OBVIOUS
<1> PICK lower : lower = minimize_clause(t, Lower(t, a))
  OBVIOUS
<1> PICK b : b = bump_variables(t, bump_also_all_reason_literals(t, a))
  OBVIOUS
<1>0. PICK n \in determine_actual_backtrack_level(b, jump_level(t, lower)),
           W \in RewatchedPairs(s, conflict) :
         LET c == {-a.uip} \cup lower
             unit == lower = {}
             moved == [watched EXCEPT ![conflict] = W]
         IN  /\ s' = search_assign(backtrack(b, n), -a.uip, IF unit THEN NoReason ELSE c)
             /\ redundant' = IF unit THEN redundant
                             ELSE eagerly_subsume(redundant, c) \cup ({c} \ irredundant)
             /\ watched' = [d \in irredundant \cup redundant' |->
                               IF d = c /\ ~unit THEN {-a.uip, LastAssigned(t, lower)}
                               ELSE moved[d]]
  BY DEF AnalyzeLearn
<1>1.    /\ t = backtrack(s, conflict_level(s, conflict))
         /\ a = Analyzed(t, conflict)
         /\ lower = minimize_clause(t, Lower(t, a))
         /\ b = bump_variables(t, bump_also_all_reason_literals(t, a))
         /\ n \in determine_actual_backtrack_level(b, jump_level(t, lower))
         /\ W \in RewatchedPairs(s, conflict)
         /\ s' = search_assign(backtrack(b, n), -a.uip,
                               IF lower = {} THEN NoReason ELSE {-a.uip} \cup lower)
         /\ redundant' = IF lower = {} THEN redundant
                         ELSE eagerly_subsume(redundant, {-a.uip} \cup lower)
                                \cup ({{-a.uip} \cup lower} \ irredundant)
         /\ watched' = [d \in irredundant \cup redundant' |->
                           IF d = {-a.uip} \cup lower /\ ~(lower = {})
                           THEN {-a.uip, LastAssigned(t, lower)}
                           ELSE [watched EXCEPT ![conflict] = W][d]]
  BY <1>0
<1>2. /\ forced(s, conflict) = {} /\ conflict_level(s, conflict) > 0
      /\ conflict' = NoConflict
  BY DEF AnalyzeLearn
<1>3. /\ conflict \in SUBSET Literals(Vars)
      /\ \A k \in conflict : LevelOf(s, k) \in Nat /\ LevelOf(s, k) <= conflict_level(s, conflict)
      /\ \E k \in conflict : LevelOf(s, k) = conflict_level(s, conflict)
  BY ConflictFacts, ConflictLevel
<1>4. /\ Stack(t) /\ Level(t) = conflict_level(s, conflict) /\ Level(t) > 0
      /\ Falsified(conflict, HoldsIn(t))
      /\ \A k \in conflict : LevelOf(t, k) = LevelOf(s, k)
      /\ \A c \in Clauses, h \in 0..(Level(t) - 1) :
            \E m \in Nat : Height(t, h) <= m /\ Guarded(t, c, watched[c], m)
  BY <1>1, <1>2, ConflictBacktracked
<1>5. t \in Stacks /\ Level(t) \in Nat
  BY <1>4, StackFields DEF Stack
<1>6. /\ a.uip \in HoldsIn(t) /\ LevelOf(t, a.uip) = Level(t)
      /\ Lower(t, a) \in SUBSET Literals(Vars)
      /\ \A k \in Lower(t, a) :
            -k \in HoldsIn(t) /\ LevelOf(t, k) > 0 /\ LevelOf(t, k) < Level(t)
  <2>1. \E k \in conflict : LevelOf(t, k) = Level(t)
    BY <1>3, <1>4
  <2> QED BY <1>1, <1>3, <1>4, <2>1, AnalyzedFacts
<1>7. /\ lower \in SUBSET Literals(Vars)
      /\ \A k \in lower : -k \in HoldsIn(t) /\ LevelOf(t, k) \in Nat /\ LevelOf(t, k) < Level(t)
  BY <1>1, <1>5, <1>6, MinimizedSubset, StackFields
<1>8. /\ Stack(b) /\ HoldsIn(b) = HoldsIn(t) /\ Level(b) = Level(t)
      /\ b.trail = t.trail /\ b.control = t.control /\ b.propagated = t.propagated
      /\ b.level = t.level /\ b.reason = t.reason
  <2>1. b = t \/ \E B \in SUBSET Vars : b = bump_queue(t, B)
    BY <1>1 DEF bump_variables
  <2> QED BY <1>4, <2>1, BumpKeeps
<1>9. \A k : LevelOf(b, k) = LevelOf(t, k)
  BY <1>8 DEF LevelOf
<1> DEFINE last == LastAssigned(t, lower)
<1>10. lower # {} => last \in lower /\ \A k \in lower : LevelOf(t, k) <= LevelOf(t, last)
  BY <1>4, <1>7, LastAssignedFacts
<1>11. jump_level(t, lower) \in 0..(Level(b) - 1)
       /\ \A k \in lower : LevelOf(t, k) <= jump_level(t, lower)
  BY <1>4, <1>5, <1>7, <1>8, <1>10 DEF jump_level
<1>12. n \in 0..(Level(b) - 1) /\ n \in Nat /\ jump_level(t, lower) <= n
  <2>1. n \in jump_level(t, lower)..(Level(b) - 1)
    BY <1>1, <1>5, <1>8, <1>11, BacktrackLevel
  <2> QED BY <1>11, <2>1
<1>13. \A k \in lower : -k \in HoldsIn(b) /\ LevelOf(b, k) <= n
  BY <1>7, <1>8, <1>9, <1>11, <1>12
<1>14. PICK u : u = backtrack(b, n)
  OBVIOUS
<1>15. FlipAt(b, n, u, a.uip, lower)
  <2>1. a.uip \in HoldsIn(b) /\ LevelOf(b, a.uip) = Level(b)
    BY <1>6, <1>8, <1>9
  <2> QED BY <1>7, <1>8, <1>12, <1>13, <1>14, <2>1, LearnedAssignable
<1>16. /\ SameStack(t, b) /\ lower \in SUBSET Literals(Vars)
       /\ \A k \in Lower(t, a) : -k \in HoldsIn(t)
  BY <1>6, <1>7, <1>8 DEF SameStack
<1> HIDE DEF last
<1>17. Learns(t, a, lower, b, n, u, W)
  BY <1>1, <1>4, <1>6, <1>8, <1>10, <1>12, <1>14, <1>15, <1>16, ZenonT(30) DEF Learns, last
<1> QED BY <1>17

(* A conflict that teaches a clause.                                       *)
LEMMA AnalyzeLearnCore ==
    ASSUME Core, Propagated, conflict # NoConflict, ~unsat, AnalyzeLearn,
           UNCHANGED <<irredundant, visiting, unsat>>
    PROVE  Core' /\ Persists(s, s')
<1>1. PICK t, a, lower, b, n, u, W : Learns(t, a, lower, b, n, u, W)
  BY LearnShape
<1>2. conflict' = NoConflict /\ forced(s, conflict) = {}
  BY DEF AnalyzeLearn
<1>3. /\ visiting = {} /\ visiting' = {} /\ conflict \in Clauses
      /\ conflict \in SUBSET Literals(Vars) /\ irredundant' = irredundant
      /\ unsat' = unsat
  BY ConflictFacts
<1>4. /\ t = backtrack(s, conflict_level(s, conflict))
      /\ Stack(t) /\ Level(t) = conflict_level(s, conflict)
      /\ \A k \in conflict : LevelOf(t, k) = LevelOf(s, k)
      /\ \A c \in Clauses, h \in 0..(Level(t) - 1) :
            \E m \in Nat : Height(t, h) <= m /\ Guarded(t, c, watched[c], m)
  BY <1>1 DEF Learns
<1>5. t \in Stacks /\ Level(t) \in Nat
  BY <1>4, StackFields DEF Stack
<1>6. /\ W \in RewatchedPairs(s, conflict)
      /\ redundant' = IF lower = {} THEN redundant
                      ELSE eagerly_subsume(redundant, {-a.uip} \cup lower)
                             \cup ({{-a.uip} \cup lower} \ irredundant)
      /\ watched' = [d \in irredundant \cup redundant' |->
                        IF d = {-a.uip} \cup lower /\ ~(lower = {})
                        THEN {-a.uip, LastAssigned(t, lower)}
                        ELSE [watched EXCEPT ![conflict] = W][d]]
  BY <1>1 DEF Learns
<1>7. lower \in SUBSET Literals(Vars)
  BY <1>1 DEF Learns
<1>8. /\ Stack(b) /\ HoldsIn(b) = HoldsIn(t) /\ Level(b) = Level(t)
      /\ b.trail = t.trail /\ b.control = t.control /\ b.propagated = t.propagated
      /\ b.level = t.level
  BY <1>1 DEF Learns, SameStack, HoldsIn, Level
<1>9. \A k : LevelOf(b, k) = LevelOf(t, k)
  BY <1>8 DEF LevelOf
<1> DEFINE last == LastAssigned(t, lower)
<1>10. lower # {} => last \in lower /\ \A k \in lower : LevelOf(t, k) <= LevelOf(t, last)
  BY <1>1 DEF Learns
<1>11. n \in 0..(Level(b) - 1) /\ n \in Nat
  BY <1>1 DEF Learns
<1>12. u = backtrack(b, n)
  BY <1>1 DEF Learns
<1> DEFINE flip == -a.uip
           c == {flip} \cup lower
<1>13. /\ Stack(u) /\ Retained(b, n, u) /\ u \in Stacks /\ Levels(u)
       /\ flip \in Literals(Vars) /\ flip \notin lower
       /\ \A k \in lower : -k \in HoldsIn(u) /\ LevelOf(u, k) = LevelOf(b, k)
       /\ Assignable(u, flip, c) /\ Assignable(u, flip, NoReason)
  BY <1>1 DEF Learns, FlipAt
<1>14. /\ u.propagated = Height(b, n) /\ Height(b, n) \in Nat /\ Height(b, n) <= Len(u.trail)
       /\ Height(b, n) = Height(t, n)
  BY <1>8, <1>13, StackFields DEF Retained, Height
<1> DEFINE r == IF lower = {} THEN NoReason ELSE c
<1>15. Assignable(u, flip, r) /\ s' = search_assign(u, flip, r)
  BY <1>1, <1>13 DEF Learns
<1>16. Stack(s') /\ s'.propagated = Height(b, n)
  BY <1>13, <1>14, <1>15, AssignKeeps, AssignResult
<1>17. W \in kSubset(2, conflict) /\ W \in SUBSET conflict
       /\ \A w \in W : LevelOf(s, w) = conflict_level(s, conflict)
  BY <1>6, <1>2, ConflictWatched
<1>18. Guarded(s', conflict, W, Height(b, n))
  <2>1. W \in SUBSET Literals(Vars)
    BY <1>3, <1>17
  <2>2. ASSUME NEW w \in W
        PROVE  -w \notin HoldsIn(u)
    <3>1. w \in Literals(Vars) /\ w \in conflict
      BY <1>17, <2>1
    <3>2. LevelOf(b, w) = Level(b)
      BY <1>4, <1>8, <1>9, <1>17, <3>1
    <3>3. LevelOf(b, -w) = LevelOf(b, w)
      BY <1>8, <3>1, StackFields DEF Stack
    <3>4. ~(LevelOf(b, -w) <= n)
      BY <1>5, <1>8, <1>11, <3>2, <3>3
    <3> QED BY <1>13, <3>4 DEF Retained
  <2> HIDE DEF r
  <2> QED BY <1>13, <1>14, <1>15, <2>1, <2>2, GuardedFree
<1>19. ASSUME NEW d \in Clauses
       PROVE  Guarded(s', d, watched[d], Height(b, n))
  <2>1. n \in 0..(Level(t) - 1)
    BY <1>8, <1>11
  <2>2. PICK m \in Nat : Height(t, n) <= m /\ Guarded(t, d, watched[d], m)
    BY <1>4, <2>1
  <2>3. Guarded(b, d, watched[d], m)
    BY <1>8, <2>2, GuardedSame
  <2>4. Guarded(u, d, watched[d], Height(b, n))
    BY <1>8, <1>11, <1>12, <1>14, <2>2, <2>3, GuardedBacktrack
  <2> HIDE DEF r
  <2> QED BY <1>13, <1>14, <1>15, <2>4, GuardedAssign
<1>20. Persists(s, s')
  <2>1. Persists(s, t)
    <3>1. conflict_level(s, conflict) \in 0..Level(s) /\ Stack(s)
      BY ConflictFacts
    <3> QED BY <1>4, <3>1, BacktrackPersists
  <2>2. Persists(t, b)
    BY <1>5, <1>8, SamePersists
  <2>3. Persists(b, u)
    <3>1. n \in 0..Level(b)
      BY <1>5, <1>8, <1>11
    <3> QED BY <1>8, <1>12, <3>1, BacktrackPersists
  <2> HIDE DEF r
  <2>4. Persists(u, s')
    BY <1>13, <1>15, AssignPersists
  <2>5. s \in Stacks /\ b \in Stacks
    BY <1>8 DEF Core, Stack
  <2>6. Persists(s, b)
    BY <1>5, <2>1, <2>2, <2>5, PersistsTwice
  <2>7. Persists(s, u)
    BY <1>13, <2>3, <2>5, <2>6, PersistsTwice
  <2> QED BY <1>13, <2>4, <2>5, <2>7, PersistsTwice
<1> SUFFICES Core'
  BY <1>20
<1>21. CASE lower # {}
  <2>1. last \in lower /\ \A k \in lower : LevelOf(u, k) <= LevelOf(u, last)
    BY <1>9, <1>10, <1>13, <1>21
  <2>2. c \in SUBSET Literals(Vars) /\ flip \in c /\ last \in c /\ flip # last
        /\ c \ {flip} = lower
    BY <1>7, <1>13, <2>1
  <2>3. s' = search_assign(u, flip, c)
    BY <1>15, <1>21
  <2> HIDE DEF last, c, flip, r
  <2>4. c \in LongClauses /\ {flip, last} \in kSubset(2, c)
    BY <2>2, TwoLiterals, Pairs
  <2>5. Guarded(s', c, {flip, last}, Height(b, n))
    BY <1>13, <1>14, <2>1, <2>2, <2>3, AssertedGuard
  <2>6. /\ redundant' = eagerly_subsume(redundant, c) \cup ({c} \ irredundant)
        /\ watched' = [d \in irredundant \cup redundant' |->
                          IF d = c THEN {flip, last}
                          ELSE [watched EXCEPT ![conflict] = W][d]]
    BY <1>6, <1>21 DEF c, flip, last
  <2>7. Database
    BY DEF Core
  <2>8. /\ Database'
        /\ \A d \in Clauses' : \/ d = c /\ watched'[d] = {flip, last}
                               \/ d = conflict /\ watched'[d] = W
                               \/ d \in Clauses /\ watched'[d] = watched[d]
    <3>1. PICK V \in kSubset(2, c) : V = {flip, last}
      BY <2>4
    <3>2. watched' = [d \in irredundant \cup redundant' |->
                          IF d = c THEN V ELSE [watched EXCEPT ![conflict] = W][d]]
      BY <2>6, <3>1
    <3>3. /\ redundant' = eagerly_subsume(redundant, c) \cup ({c} \ irredundant)
          /\ irredundant' = irredundant /\ conflict \in Clauses
      BY <1>3, <2>6
    <3>4. W \in kSubset(2, conflict) /\ c \in LongClauses
      BY <1>17, <2>4
    <3>5. Database' /\ \A d \in Clauses' : \/ d = c /\ watched'[d] = V
                                           \/ d = conflict /\ watched'[d] = W
                                           \/ d \in Clauses /\ watched'[d] = watched[d]
      BY <2>7, <3>2, <3>3, <3>4, LearnedDatabase
    <3> QED BY <3>1, <3>5
  <2>9. \A d \in Clauses' : Guarded(s', d, watched'[d], s'.propagated)
    BY <1>16, <1>18, <1>19, <2>5, <2>8
  <2> QED BY <1>2, <1>3, <1>16, <2>8, <2>9, SettledCore
<1>22. CASE lower = {}
  <2>1. redundant' = redundant /\ Clauses' = Clauses
    BY <1>6, <1>3, <1>22 DEF Clauses
  <2>2. /\ irredundant \subseteq LongClauses /\ redundant \subseteq LongClauses
        /\ watched \in [Clauses -> SUBSET Literals(Vars)]
        /\ \A d \in Clauses : watched[d] \in kSubset(2, d)
    BY DEF Core, Database
  <2>3. watched' = [d \in Clauses |-> [watched EXCEPT ![conflict] = W][d]]
    BY <1>6, <1>22, <2>1 DEF Clauses
  <2>4. watched' = [watched EXCEPT ![conflict] = W]
    BY <2>2, <2>3
  <2>5. \A d \in Clauses : \/ d = conflict /\ watched'[d] = W
                           \/ watched'[d] = watched[d]
    BY <2>2, <2>4
  <2>6. W \in SUBSET Literals(Vars)
    BY <1>3, <1>17
  <2>7. \A d \in Clauses : watched'[d] \in kSubset(2, d)
    BY <1>17, <2>2, <2>5
  <2>8. watched' \in [Clauses -> SUBSET Literals(Vars)]
    BY <2>2, <2>4, <2>6
  <2>9. Database'
    BY <1>3, <2>1, <2>2, <2>7, <2>8 DEF Database
  <2>10. \A d \in Clauses' : Guarded(s', d, watched'[d], s'.propagated)
    BY <1>16, <1>18, <1>19, <2>1, <2>5
  <2> QED BY <1>2, <1>3, <1>16, <2>9, <2>10, SettledCore
<1> QED BY <1>21, <1>22

-----------------------------------------------------------------------------
(* Adding clauses.                                                         *)

(* Some first occurrences of a sequence's elements, in their order, are    *)
(* the set of these elements without repetition.                           *)
Listed(q, P, d, c) ==
    /\ d \in Seq(Literals(Vars)) /\ c = {q[i] : i \in P} /\ c \in SUBSET Literals(Vars)
    /\ Cardinality(c) \in Nat
    /\ Cardinality(c) = 0 => c = {}
    /\ Cardinality(c) = 1 => c = {d[1]}
    /\ Cardinality(c) > 1 => {d[1], d[2]} \in kSubset(2, c)

(* The first occurrences are distinct, so that a subsequence of them is    *)
(* as long as its set of literals.                                         *)
LEMMA Distinct ==
    ASSUME NEW q \in Seq(Literals(Vars)), NEW P \in SUBSET FirstOccurrences(q),
           NEW d, d = Subsequence(q, P), NEW c, c = ToSet(d)
    PROVE  Listed(q, P, d, c)
<1>1. Len(q) \in Nat /\ DOMAIN q = 1..Len(q) /\ \A i \in 1..Len(q) : q[i] \in Literals(Vars)
  BY LenProperties, ElementOfSeq
<1>2. P \subseteq 1..Len(q)
  BY <1>1 DEF FirstOccurrences
<1>3. /\ Cardinality(P) \in 0..Len(q)
      /\ \A i \in 1..Cardinality(P) : Nth(P, i) \in P
      /\ \A p \in P : \E i \in 1..Cardinality(P) : Nth(P, i) = p
      /\ \A i, j \in 1..Cardinality(P) : i < j <=> Nth(P, i) < Nth(P, j)
  <2>1. \A p \in P : LET i == Cardinality({r \in P : r < p}) + 1
                     IN  i \in 1..Cardinality(P) /\ Nth(P, i) = p
    BY <1>1, <1>2, NthFacts
  <2>2. \A p \in P : \E i \in 1..Cardinality(P) : Nth(P, i) = p
    BY <2>1
  <2> QED BY <1>1, <1>2, <2>2, NthFacts
<1>4. PICK n \in Nat : n = Cardinality(P)
  BY <1>3
<1>5. d = [i \in 1..n |-> q[Nth(P, i)]]
  BY <1>4 DEF Subsequence
<1>6. DOMAIN d = 1..n /\ d \in Seq(Literals(Vars))
  <2>1. \A i \in 1..n : q[Nth(P, i)] \in Literals(Vars)
    BY <1>1, <1>2, <1>3, <1>4
  <2>2. DOMAIN d = 1..n
    BY <1>5
  <2>3. d \in [1..n -> Literals(Vars)]
    BY <1>5, <2>1
  <2> QED BY <2>2, <2>3, SeqDef
<1>7. \A lit : lit \in c <=> \E i \in 1..n : d[i] = lit
  <2>1. DOMAIN d = 1..n /\ c = {d[i] : i \in DOMAIN d}
    BY <1>6 DEF ToSet
  <2> QED BY <2>1
<1>8. c = {q[i] : i \in P}
  <2>1. \A i \in 1..n : d[i] = q[Nth(P, i)] /\ Nth(P, i) \in P
    BY <1>3, <1>4, <1>5
  <2>2. \A p \in P : \E i \in 1..n : d[i] = q[p]
    BY <1>3, <1>4, <1>5
  <2> QED BY <1>7, <2>1, <2>2, SMTT(20)
<1>9. c \in SUBSET Literals(Vars)
  BY <1>1, <1>2, <1>8
<1>10. Cardinality(c) \in Nat /\ IsFiniteSet(c)
  BY <1>9, Pairs
<1>11. ASSUME n > 1
       PROVE  {d[1], d[2]} \in kSubset(2, c) /\ Cardinality(c) > 1
  <2>1. 1 \in 1..n /\ 2 \in 1..n
    BY <1>11
  <2> DEFINE x == Nth(P, 1)
             y == Nth(P, 2)
  <2>2. x \in P /\ y \in P /\ x < y
    BY <1>3, <1>4, <2>1
  <2>3. d[1] = q[x] /\ d[2] = q[y]
    BY <1>5, <2>1
  <2> HIDE DEF x, y
  <2>4. x \in 1..(y - 1)
    BY <1>1, <1>2, <2>2
  <2>5. q[x] # q[y]
    BY <2>2, <2>4 DEF FirstOccurrences
  <2>6. d[1] \in c /\ d[2] \in c
    BY <1>7, <2>1
  <2>7. c \in LongClauses
    BY <1>9, <2>3, <2>5, <2>6, TwoLiterals
  <2> QED BY <2>3, <2>5, <2>6, <2>7, Pairs DEF LongClauses
<1>12. n = 1 => c = {d[1]} /\ Cardinality(c) = 1
  <2>1. n = 1 => 1..n = {1}
    OBVIOUS
  <2>2. n = 1 => c = {d[1]}
    BY <1>7, <2>1
  <2> QED BY <2>2, FS_Singleton
<1>13. n = 0 => c = {} /\ Cardinality(c) = 0
  <2>1. n = 0 => c = {}
    BY <1>7
  <2> QED BY <2>1, FS_EmptySet
<1>14. n = 0 \/ n = 1 \/ n > 1
  BY <1>4
<1>15. Cardinality(c) = 0 => c = {}
  BY <1>11, <1>12, <1>13, <1>14
<1>16. Cardinality(c) = 1 => c = {d[1]}
  BY <1>11, <1>12, <1>13, <1>14
<1>17. Cardinality(c) > 1 => n > 1
  BY <1>12, <1>13, <1>14
<1>18. Cardinality(c) > 1 => {d[1], d[2]} \in kSubset(2, c)
  BY <1>11, <1>17
<1> QED BY <1>6, <1>8, <1>9, <1>10, <1>15, <1>16, <1>18 DEF Listed

(* The clause that is left of an added one, at the root level: its         *)
(* literals are unassigned when none of them is true.                      *)
Shortened(q, d, c) ==
    /\ c = {lit \in ToSet(q) : -lit \notin Root} /\ c \in SUBSET Literals(Vars)
    /\ ToSet(q) \in SUBSET Literals(Vars)
    /\ Root = Holds
    /\ ~Satisfied(ToSet(q), Root) => \A lit \in c : vidx(lit) \in Free(s) /\ -lit \notin HoldsIn(s)
    /\ Cardinality(c) \in Nat
    /\ Cardinality(c) = 0 => c = {}
    /\ Cardinality(c) = 1 => c = {d[1]}
    /\ Cardinality(c) > 1 => {d[1], d[2]} \in kSubset(2, c) /\ c \in LongClauses

(* What is left of a clause that is added: no literal twice, none false    *)
(* at the root level.                                                      *)
LEMMA ShortenedClause ==
    ASSUME Stack(s), Level(s) = 0, input \in Seq(Seq(Literals(Vars))), input # <<>>,
           NEW q, q = Head(input),
           NEW d, d = Subsequence(q, {i \in FirstOccurrences(q) : -q[i] \notin Root}),
           NEW c, c = ToSet(d)
    PROVE  Shortened(q, d, c)
<1>1. q \in Seq(Literals(Vars))
  BY HeadTailProperties
<1>2. /\ c = {q[i] : i \in {i \in FirstOccurrences(q) : -q[i] \notin Root}}
      /\ c \in SUBSET Literals(Vars)
      /\ Cardinality(c) \in Nat
      /\ Cardinality(c) = 0 => c = {}
      /\ Cardinality(c) = 1 => c = {d[1]}
      /\ Cardinality(c) > 1 => {d[1], d[2]} \in kSubset(2, c)
  <2> DEFINE P == {i \in FirstOccurrences(q) : -q[i] \notin Root}
  <2>1. P \in SUBSET FirstOccurrences(q)
    OBVIOUS
  <2>2. d = Subsequence(q, P)
    OBVIOUS
  <2> HIDE DEF P
  <2>3. Listed(q, P, d, c)
    BY <1>1, <2>1, <2>2, Distinct
  <2> QED BY <2>3 DEF P, Listed
<1>3. DOMAIN q = 1..Len(q) /\ Len(q) \in Nat /\ \A i \in 1..Len(q) : q[i] \in Literals(Vars)
  BY <1>1, LenProperties, ElementOfSeq
<1>4. ToSet(q) = {q[i] : i \in 1..Len(q)}
  BY <1>3 DEF ToSet
<1>5. \A lit \in ToSet(q) : \E i \in FirstOccurrences(q) : q[i] = lit
  <2> SUFFICES ASSUME NEW lit \in ToSet(q)
               PROVE  \E i \in FirstOccurrences(q) : q[i] = lit
    OBVIOUS
  <2> DEFINE S == {i \in 1..Len(q) : q[i] = lit}
  <2>7. PICK k \in 1..Len(q) : q[k] = lit
    BY <1>4
  <2>1. S \subseteq Nat /\ S # {}
    BY <1>3, <2>7
  <2> HIDE DEF S
  <2>2. Min(S) \in S /\ \A y \in S : Min(S) <= y
    BY <2>1, MinOfNats
  <2>3. PICK i \in S : \A y \in S : i <= y
    BY <2>2
  <2>4. i \in 1..Len(q) /\ q[i] = lit
    BY <2>3 DEF S
  <2>5. \A j \in 1..(i - 1) : j \in 1..Len(q) /\ ~(i <= j)
    BY <1>3, <2>4
  <2>6. \A j \in 1..(i - 1) : q[j] # lit
    BY <2>3, <2>5 DEF S
  <2> QED BY <1>3, <2>4, <2>6 DEF FirstOccurrences
<1>6. c = {lit \in ToSet(q) : -lit \notin Root}
  <2>1. \A i \in FirstOccurrences(q) : q[i] \in ToSet(q)
    BY <1>3, <1>4 DEF FirstOccurrences
  <2> QED BY <1>2, <1>5, <2>1
<1>7. ToSet(q) \in SUBSET Literals(Vars)
  BY <1>3, <1>4
<1>8. Root = Holds /\ s \in Stacks
  <2>1. s \in Stacks /\ \A lit \in HoldsIn(s) : LevelOf(s, lit) \in 0..0
    BY TrailConsistent DEF Stack
  <2> QED BY <2>1 DEF Root, RootIn, Holds, HoldsIn
<1>9. ASSUME ~Satisfied(ToSet(q), Root), NEW lit \in c
      PROVE  vidx(lit) \in Free(s) /\ -lit \notin HoldsIn(s)
  <2>1. lit \in ToSet(q) /\ -lit \notin Root /\ lit \in Literals(Vars)
    BY <1>6, <1>7
  <2>2. lit \notin Root
    BY <1>9, <2>1 DEF Satisfied
  <2>3. HoldsIn(s) = Root
    BY <1>8 DEF Holds, HoldsIn
  <2> QED BY <1>8, <2>1, <2>2, <2>3, StackFields
<1>10. Cardinality(c) > 1 => c \in LongClauses
  BY <1>2 DEF LongClauses
<1> QED BY <1>2, <1>6, <1>7, <1>8, <1>9, <1>10 DEF Shortened

(* What adding a clause does.                                              *)
LEMMA AddClauseCore ==
    ASSUME Core, Quiet, Level(s) = 0, input \in Seq(Seq(Literals(Vars))), AddClause
    PROVE  Core'
<1>1. PICK q, d, c : /\ q = Head(input) /\ c = ToSet(d)
                     /\ d = Subsequence(q, {i \in FirstOccurrences(q) : -q[i] \notin Root})
  OBVIOUS
<1> DEFINE skip == unsat \/ Tautological(ToSet(q)) \/ Satisfied(ToSet(q), Root)
           unit == ~skip /\ Cardinality(c) = 1
<1>2. /\ input # <<>>
      /\ unsat' = (unsat \/ (~skip /\ c = {}))
      /\ s' = IF unit THEN search_assign(s, d[1], NoReason) ELSE s
      /\ IF skip \/ Cardinality(c) < 2 THEN UNCHANGED clauseVars
         ELSE /\ irredundant' = irredundant \cup {c}
              /\ redundant' = redundant \ {c}
              /\ watched' = [e \in Clauses \cup {c} |->
                                IF e = c THEN {d[1], d[2]} ELSE watched[e]]
      /\ conflict' = conflict /\ visiting' = visiting
  BY <1>1, ZenonT(30) DEF AddClause
<1>3. Shortened(q, d, c)
  BY <1>1, <1>2, ShortenedClause DEF Core
<1> HIDE DEF skip
<1>4. ~skip => ~unsat /\ ~Satisfied(ToSet(q), Root)
  BY DEF skip
<1>5. /\ Stack(s) /\ s \in Stacks /\ Levels(s) /\ conflict' = NoConflict /\ visiting' = {}
      /\ s.propagated \in Nat /\ s.propagated <= Len(s.trail) /\ Len(s.trail) \in Nat
  BY <1>2, StackFields DEF Core, Quiet, Stack, Heights
<1>6. ~unsat => \A e \in Clauses : Guarded(s, e, watched[e], s.propagated)
  BY DEF Core, Watches, Visited, Quiet
<1>7. CASE unit
  <2>1. d[1] \in c /\ ~skip /\ Cardinality(c) = 1
    BY <1>3, <1>7 DEF Shortened
  <2>2. d[1] \in Literals(Vars) /\ vidx(d[1]) \in Free(s)
    BY <1>3, <1>4, <2>1 DEF Shortened
  <2>3. Assignable(s, d[1], NoReason) /\ s' = search_assign(s, d[1], NoReason)
    BY <1>2, <1>7, <2>2 DEF Assignable
  <2>4. Stack(s') /\ s'.propagated = s.propagated
    BY <1>5, <2>3, AssignKeeps, AssignResult
  <2>5. UNCHANGED clauseVars
    BY <1>2, <2>1
  <2>6. Clauses' = Clauses /\ watched' = watched /\ Database'
    BY <2>5 DEF clauseVars, Clauses, Core, Database
  <2>7. ASSUME ~unsat', NEW e \in Clauses
        PROVE  Guarded(s', e, watched[e], s.propagated)
    <3>1. Guarded(s, e, watched[e], s.propagated)
      BY <1>4, <1>6, <2>1
    <3> QED BY <1>5, <2>3, <3>1, GuardedAssign
  <2> QED BY <1>5, <2>4, <2>6, <2>7, SettledCore
<1>8. CASE ~unit /\ (skip \/ Cardinality(c) < 2)
  <2>1. UNCHANGED clauseVars /\ s' = s
    BY <1>2, <1>8
  <2>2. Clauses' = Clauses /\ watched' = watched /\ Database'
    BY <2>1 DEF clauseVars, Clauses, Core, Database
  <2>3. ~unsat' => \A e \in Clauses' : Guarded(s', e, watched'[e], s'.propagated)
    BY <1>2, <1>6, <2>1, <2>2
  <2> QED BY <1>5, <2>1, <2>2, <2>3, SettledCore
<1>9. CASE ~unit /\ ~(skip \/ Cardinality(c) < 2)
  <2>1. /\ irredundant' = irredundant \cup {c} /\ redundant' = redundant \ {c} /\ s' = s
        /\ watched' = [e \in Clauses \cup {c} |-> IF e = c THEN {d[1], d[2]} ELSE watched[e]]
    BY <1>2, <1>9
  <2>2. /\ c \in LongClauses /\ {d[1], d[2]} \in kSubset(2, c)
        /\ \A lit \in c : -lit \notin HoldsIn(s)
    BY <1>3, <1>4, <1>9 DEF Shortened
  <2>3. Clauses' = Clauses \cup {c}
    BY <2>1 DEF Clauses
  <2>4. /\ irredundant \subseteq LongClauses /\ redundant \subseteq LongClauses
        /\ watched \in [Clauses -> SUBSET Literals(Vars)]
        /\ \A e \in Clauses : watched[e] \in kSubset(2, e)
    BY DEF Core, Database
  <2>5. {d[1], d[2]} \in SUBSET c /\ c \in SUBSET Literals(Vars)
    BY <2>2, Pairs DEF LongClauses
  <2>6. PICK V \in SUBSET Literals(Vars) : V = {d[1], d[2]}
    BY <2>5
  <2>7. watched' = [e \in Clauses \cup {c} |-> IF e = c THEN V ELSE watched[e]]
    BY <2>1, <2>6
  <2>8. Database'
    <3>1. watched' \in [Clauses' -> SUBSET Literals(Vars)]
      BY <2>3, <2>4, <2>7
    <3>2. \A e \in Clauses' : watched'[e] \in kSubset(2, e)
      BY <2>2, <2>3, <2>4, <2>6, <2>7
    <3>3. irredundant' \subseteq LongClauses /\ redundant' \subseteq LongClauses
      BY <2>1, <2>2, <2>4
    <3> QED BY <3>1, <3>2, <3>3 DEF Database
  <2>9. Guarded(s, c, V, s.propagated)
    <3>1. \A i \in 1..s.propagated : i \in 1..Len(s.trail)
      BY <1>5
    <3>2. \A i \in 1..s.propagated : s.trail[i] \in HoldsIn(s)
      BY <1>5, <3>1, StackFields
    <3>3. \A w \in V : -w \notin HoldsIn(s)
      BY <2>2, <2>5, <2>6
    <3> QED BY <3>2, <3>3 DEF Guarded
  <2>10. ~unsat' => \A e \in Clauses' : Guarded(s', e, watched'[e], s'.propagated)
    BY <1>2, <1>6, <2>1, <2>3, <2>7, <2>9
  <2> QED BY <1>5, <2>1, <2>8, <2>10, SettledCore
<1> QED BY <1>7, <1>8, <1>9

-----------------------------------------------------------------------------
(* Garbage collection.                                                     *)

(* A literal that is assigned at the root level is no negation of another. *)
LEMMA RootFacts ==
    ASSUME NEW t, Stack(t)
    PROVE  /\ RootIn(t) \subseteq HoldsIn(t) /\ RootIn(t) \subseteq Literals(Vars)
           /\ \A lit \in HoldsIn(t) : lit \notin Negated(RootIn(t))
           /\ \A k \in Literals(Vars) : k \in Negated(RootIn(t)) <=> -k \in RootIn(t)
           /\ \A k \in Negated(RootIn(t)) : LevelOf(t, k) = 0
<1>1. t \in Stacks /\ HoldsIn(t) \subseteq Literals(Vars)
  BY StackFields DEF Stack
<1>2. RootIn(t) \subseteq HoldsIn(t) /\ RootIn(t) \subseteq Literals(Vars)
  BY <1>1 DEF RootIn
<1>3. \A k \in Literals(Vars) : k \in Negated(RootIn(t)) <=> -k \in RootIn(t)
  <2>1. \A k \in Literals(Vars) : -k \in RootIn(t) => -(-k) \in Negated(RootIn(t)) /\ -(-k) = k
    BY LiteralFacts DEF Negated
  <2>2. \A r \in RootIn(t) : -(-r) = r
    BY <1>2, LiteralFacts
  <2> QED BY <2>1, <2>2 DEF Negated
<1>4. \A lit \in HoldsIn(t) : lit \notin Negated(RootIn(t))
  BY <1>1, <1>2, <1>3, TrailConsistent
<1>5. ASSUME NEW r \in RootIn(t)
      PROVE  LevelOf(t, -r) = 0
  <2>1. LevelOf(t, r) = 0 /\ r \in Literals(Vars)
    BY <1>2 DEF RootIn
  <2> QED BY <1>1, <2>1, StackFields
<1>6. \A k \in Negated(RootIn(t)) : LevelOf(t, k) = 0
  BY <1>5 DEF Negated
<1> QED BY <1>2, <1>3, <1>4, <1>6

(* The stack stays intact when reasons lose their root-level literals.     *)
LEMMA FlushedReasons ==
    ASSUME NEW t, Stack(t), NEW u,
           u = [t EXCEPT !.reason = [v \in Vars |-> @[v] \ Negated(RootIn(t))]]
    PROVE  Stack(u) /\ u.trail = t.trail /\ u.control = t.control /\ u.level = t.level
           /\ u.propagated = t.propagated
<1>1. PICK N : N = Negated(RootIn(t))
  OBVIOUS
<1>2. t \in Stacks /\ Levels(t)
      /\ \A i \in 1..Len(t.trail) : t.trail[i] \in Literals(Vars) /\ t.trail[i] \in HoldsIn(t)
      /\ HoldsIn(t) \subseteq Literals(Vars)
  BY StackFields DEF Stack
<1>3. /\ u \in Stacks /\ u.trail = t.trail /\ u.control = t.control /\ u.level = t.level
      /\ u.propagated = t.propagated /\ u.place = t.place /\ u.unassigned = t.unassigned
      /\ u.beyond = t.beyond /\ u.reason = [v \in Vars |-> t.reason[v] \ N]
  <2>1. PICK r \in [Vars -> SUBSET Literals(Vars)] : r = [v \in Vars |-> t.reason[v] \ N]
    BY <1>2, StackFields
  <2>2. u = [t EXCEPT !.reason = r]
    BY <1>1, <2>1
  <2> QED BY <1>2, <2>1, <2>2 DEF Stacks
<1>4. \A k : LevelOf(u, k) = LevelOf(t, k)
  BY <1>3 DEF LevelOf
<1>5. Level(u) = Level(t) /\ Free(u) = Free(t) /\ HoldsIn(u) = HoldsIn(t)
  BY <1>3 DEF Level, Free, HoldsIn
<1>6. \A i \in 1..Len(t.trail) : ReasonOf(u, i) = ReasonOf(t, i) \ N
  BY <1>2, <1>3, LiteralFacts DEF ReasonOf
<1>7. \A i \in 1..Len(t.trail) : t.trail[i] \notin N
  BY <1>1, <1>2, RootFacts
<1>8. \A i \in 1..Len(t.trail) : ReasonOf(t, i) # NoReason => t.trail[i] \in ReasonOf(u, i)
  BY <1>6, <1>7 DEF Stack, Reasons
<1>9. Single(u) /\ Heights(u) /\ Levels(u) /\ Queue(u)
  <2>1. \A v : Behind(u, v) = Behind(t, v)
    BY <1>3 DEF Behind
  <2>2. Single(u)
    BY <1>3 DEF Stack, Single
  <2>3. Heights(u)
    BY <1>3, <1>5 DEF Stack, Heights
  <2>4. Levels(u)
    <3>1. SUFFICES ASSUME NEW i \in 1..Len(u.trail)
                   PROVE  /\ LevelOf(u, u.trail[i]) <= Level(u)
                          /\ \A k \in 1..LevelOf(u, u.trail[i]) : u.control[k] < i
      BY DEF Levels
    <3>2. i \in 1..Len(t.trail) /\ LevelOf(u, u.trail[i]) = LevelOf(t, t.trail[i])
      BY <1>3, <1>4
    <3>3. /\ LevelOf(t, t.trail[i]) <= Level(t)
          /\ \A k \in 1..LevelOf(t, t.trail[i]) : t.control[k] < i
      BY <1>2, <3>2 DEF Levels
    <3>4. u.control = t.control /\ Level(u) = Level(t)
      BY <1>3, <1>5
    <3> QED BY <3>2, <3>3, <3>4
  <2>5. Queue(u)
    <3>1. Queue(t)
      BY DEF Stack
    <3>2. /\ u.place = t.place /\ u.beyond = t.beyond /\ Free(u) = Free(t)
          /\ Behind(u, u.unassigned) = Behind(t, t.unassigned)
      BY <1>3, <1>5, <2>1
    <3> QED BY <3>1, <3>2 DEF Queue
  <2> QED BY <2>2, <2>3, <2>4, <2>5
<1>10. Decisions(u)
  <2> SUFFICES ASSUME NEW i \in 1..Len(u.trail), ReasonOf(u, i) = NoReason,
                      LevelOf(u, u.trail[i]) > 0
               PROVE  /\ i = u.control[LevelOf(u, u.trail[i])] + 1
                      /\ \A k \in (LevelOf(u, u.trail[i]) + 1)..Level(u) : i <= u.control[k]
    BY DEF Decisions
  <2>1. i \in 1..Len(t.trail) /\ u.trail[i] = t.trail[i]
    BY <1>3
  <2>2. ReasonOf(t, i) = NoReason
    BY <1>8, <2>1 DEF NoReason
  <2>3. LevelOf(u, u.trail[i]) = LevelOf(t, t.trail[i])
    BY <1>4, <2>1
  <2>4. /\ i = t.control[LevelOf(t, t.trail[i])] + 1
        /\ \A k \in (LevelOf(t, t.trail[i]) + 1)..Level(t) : i <= t.control[k]
    BY <2>1, <2>2, <2>3 DEF Stack, Decisions
  <2> QED BY <1>3, <1>5, <2>3, <2>4
<1>11. ASSUME NEW i \in 1..Len(u.trail), ReasonOf(u, i) # NoReason
       PROVE  /\ u.trail[i] \in ReasonOf(u, i) /\ LevelOf(u, u.trail[i]) > 0
              /\ LevelOf(u, u.trail[i]) = assignment_level(u, u.trail[i], ReasonOf(u, i))
              /\ \A k \in ReasonOf(u, i) \ {u.trail[i]} : \E j \in 1..(i - 1) : u.trail[j] = -k
  <2>1. PICK r, q, lit : r = ReasonOf(t, i) /\ q = ReasonOf(u, i) /\ lit = t.trail[i]
    OBVIOUS
  <2>2. i \in 1..Len(t.trail) /\ q = r \ N /\ r # NoReason /\ lit \in Literals(Vars)
        /\ u.trail[i] = lit
    BY <1>2, <1>3, <1>6, <1>11, <2>1 DEF NoReason
  <2>3. /\ lit \in r /\ LevelOf(t, lit) > 0 /\ LevelOf(t, lit) = assignment_level(t, lit, r)
        /\ \A k \in r \ {lit} : \E j \in 1..(i - 1) : t.trail[j] = -k
    BY <2>1, <2>2 DEF Stack, Reasons
  <2>4. lit \in q
    BY <1>8, <2>1, <2>2
  <2>5. r \in SUBSET Literals(Vars)
    BY <1>2, <2>1, <2>2, StackFields DEF ReasonOf
  <2>6. \A k \in r \ {lit} : -k \in HoldsIn(t)
    <3> SUFFICES ASSUME NEW k \in r \ {lit}
                 PROVE  -k \in HoldsIn(t)
      OBVIOUS
    <3>1. PICK j \in 1..(i - 1) : t.trail[j] = -k
      BY <2>3
    <3>2. Len(t.trail) \in Nat
      BY <1>2, StackFields
    <3>3. j \in 1..Len(t.trail)
      BY <2>2, <3>2
    <3> QED BY <1>2, <3>1, <3>3
  <2>7. \A k \in q \ {lit} : -k \in HoldsIn(u)
    BY <1>5, <2>2, <2>6
  <2> DEFINE x == assignment_level(t, lit, r)
             y == assignment_level(u, lit, q)
  <2>8. /\ x \in 0..Level(t) /\ \A k \in r \ {lit} : LevelOf(t, k) <= x
        /\ x # 0 => \E k \in r \ {lit} : LevelOf(t, k) = x
    BY <1>2, <2>2, <2>5, <2>6, AssignmentLevel
  <2>9. /\ y \in 0..Level(u) /\ \A k \in q \ {lit} : LevelOf(u, k) <= y
        /\ y # 0 => \E k \in q \ {lit} : LevelOf(u, k) = y
    <3>1. q \in SUBSET Literals(Vars)
      BY <2>2, <2>5
    <3>2. u \in Stacks /\ Levels(u) /\ lit \in Literals(Vars)
      BY <1>3, <1>9, <2>2
    <3> QED BY <2>7, <3>1, <3>2, AssignmentLevel, ZenonT(30)
  <2> HIDE DEF x, y
  <2>10. Level(t) \in Nat
    BY <1>2, StackFields
  <2>11. x <= y
    <3>1. PICK k \in r \ {lit} : LevelOf(t, k) = x
      BY <2>3, <2>8 DEF x
    <3>2. x # 0
      BY <2>3 DEF x
    <3>3. k \notin N
      BY <1>1, <3>1, <3>2, RootFacts
    <3>4. k \in q \ {lit}
      BY <2>2, <3>1, <3>3
    <3> QED BY <1>4, <2>9, <3>1, <3>4
  <2>12. y <= x
    <3>1. CASE y = 0
      BY <2>8, <2>10, <3>1
    <3>2. CASE y # 0
      <4>1. PICK k \in q \ {lit} : LevelOf(u, k) = y
        BY <2>9, <3>2
      <4>2. k \in r \ {lit}
        BY <2>2, <4>1
      <4> QED BY <1>4, <2>8, <4>1, <4>2
    <3> QED BY <3>1, <3>2
  <2>13. x = y
    BY <1>5, <2>8, <2>9, <2>10, <2>11, <2>12
  <2>14. \A k \in q \ {lit} : \E j \in 1..(i - 1) : u.trail[j] = -k
    BY <1>3, <2>2, <2>3
  <2>15. LevelOf(u, lit) > 0 /\ LevelOf(u, lit) = y
    BY <1>4, <2>3, <2>13 DEF x
  <2> QED BY <2>1, <2>2, <2>4, <2>14, <2>15 DEF y
<1>12. Reasons(u)
  BY <1>11 DEF Reasons
<1> QED BY <1>3, <1>9, <1>10, <1>12 DEF Stack

(* When root level propagation is complete, a clause that is not satisfied *)
(* at the root level watches no literal that is false there.               *)
LEMMA WatchesAboveRoot ==
    ASSUME Core, visiting = {}, conflict = NoConflict, s.propagated = Len(s.trail), ~unsat,
           RootBelow, NEW c \in Clauses, ~Satisfied(c, Root)
    PROVE  watched[c] \cap Negated(Root) = {}
<1>1. /\ Stack(s) /\ s \in Stacks /\ Level(s) \in Nat /\ Len(s.trail) \in Nat
      /\ Guarded(s, c, watched[c], s.propagated)
      /\ \A i \in 1..Len(s.trail) : s.trail[i] \in HoldsIn(s) /\ LevelOf(s, s.trail[i]) \in Nat
      /\ \A k \in 1..Level(s) : s.control[k] \in Nat
      /\ HoldsIn(s) = {s.trail[i] : i \in 1..Len(s.trail)}
  BY StackFields DEF Core, Stack, Watches, Visited
<1> SUFFICES ASSUME NEW w \in watched[c], w \in Negated(Root)
             PROVE  FALSE
  OBVIOUS
<1>2. w \in Literals(Vars)
  BY RootFacts, <1>1, LiteralFacts DEF Negated, Root
<1>3. -w \in HoldsIn(s) /\ LevelOf(s, -w) = 0
  BY <1>1, <1>2, RootFacts DEF Root, RootIn
<1>4. PICK i \in 1..Len(s.trail) : s.trail[i] = -w
  BY <1>1, <1>3
<1>5. PICK j \in 1..Len(s.trail) :
         /\ s.trail[j] \in c
         /\ \A k \in 1..Level(s) : i <= s.control[k] =>
               j <= s.control[k] \/ LevelOf(s, s.trail[j]) < k
  BY <1>1, <1>4 DEF Guarded
<1>6. LevelOf(s, s.trail[j]) = 0
  <2> SUFFICES ASSUME LevelOf(s, s.trail[j]) # 0
               PROVE  FALSE
    OBVIOUS
  <2>1. LevelOf(s, s.trail[j]) <= Level(s) /\ LevelOf(s, s.trail[j]) \in Nat
    BY <1>1 DEF Stack, Levels
  <2>2. 1 \in 1..Level(s) /\ 1 \in 1..LevelOf(s, s.trail[j])
    BY <1>1, <2>1
  <2>3. i <= s.control[1]
    BY <1>3, <1>4, <2>2 DEF RootBelow
  <2>4. s.control[1] < j
    BY <1>1, <2>2 DEF Stack, Levels
  <2>5. ~(j <= s.control[1]) /\ ~(LevelOf(s, s.trail[j]) < 1)
    BY <1>1, <2>1, <2>2, <2>4
  <2> QED BY <1>5, <2>2, <2>3, <2>5
<1>7. s.trail[j] \in Root
  BY <1>1, <1>6 DEF Root, RootIn
<1> QED BY <1>5, <1>7 DEF Satisfied

(* Garbage collection keeps clauses, watches and stack intact.             *)
LEMMA FlushCore ==
    ASSUME Core, visiting = {}, conflict = NoConflict, s.propagated = Len(s.trail), ~unsat,
           RootBelow, NEW red \in SUBSET redundant,
           irredundant' = Flushed(irredundant),
           redundant' = Flushed(red) \ Flushed(irredundant),
           watched' = FlushedWatches(irredundant \cup red),
           \/ s' = s
           \/ s' = [s EXCEPT !.reason = [v \in Vars |-> @[v] \ Negated(Root)]],
           UNCHANGED <<conflict, visiting, unsat>>
    PROVE  Core'
<1> DEFINE C == irredundant \cup red
           old(c) == CHOOSE d \in C : ~Satisfied(d, Root) /\ d \ Negated(Root) = c
<1>1. Stack(s) /\ s \in Stacks /\ C \subseteq Clauses /\ Holds = HoldsIn(s)
  BY DEF Core, Clauses, Stack, Holds, HoldsIn
<1>2. /\ irredundant \subseteq LongClauses /\ redundant \subseteq LongClauses
      /\ \A c \in Clauses : watched[c] \in kSubset(2, c)
  BY DEF Core, Database
<1>3. Stack(s') /\ s'.trail = s.trail /\ s'.control = s.control /\ s'.level = s.level
      /\ s'.propagated = s.propagated
  BY <1>1, FlushedReasons DEF Root
<1>4. Clauses' = Flushed(C)
  BY DEF Clauses, Flushed
<1>5. ASSUME NEW c \in Flushed(C)
      PROVE  old(c) \in C /\ ~Satisfied(old(c), Root) /\ old(c) \ Negated(Root) = c
  BY <1>5 DEF Flushed
<1>6. watched' = [c \in Flushed(C) |-> watched[old(c)]]
  BY DEF FlushedWatches
<1> HIDE DEF old, C
<1>7. ASSUME NEW c \in Flushed(C)
      PROVE  /\ c \in LongClauses /\ watched[old(c)] \in kSubset(2, c)
             /\ watched[old(c)] \in SUBSET Literals(Vars)
             /\ Guarded(s', c, watched[old(c)], s'.propagated)
  <2>1. PICK d, W : d = old(c) /\ W = watched[d]
    OBVIOUS
  <2>2. d \in Clauses /\ ~Satisfied(d, Root) /\ d \ Negated(Root) = c
    BY <1>1, <1>5, <2>1
  <2>3. d \in LongClauses /\ d \in SUBSET Literals(Vars)
    BY <1>2, <2>2 DEF Clauses, LongClauses
  <2>4. W \in kSubset(2, d) /\ W \in SUBSET d
    BY <1>2, <2>1, <2>2, Pairs
  <2>5. W \cap Negated(Root) = {}
    BY <2>1, <2>2, WatchesAboveRoot
  <2>6. PICK x \in W : TRUE
    BY <2>3, <2>4, Pairs
  <2>7. PICK y \in W : y # x /\ W = {x, y}
    BY <2>3, <2>4, Pairs
  <2>8. x \in c /\ y \in c /\ c \in SUBSET Literals(Vars)
    BY <2>2, <2>3, <2>4, <2>5, <2>6, <2>7
  <2>9. c \in LongClauses /\ W \in kSubset(2, c) /\ W \in SUBSET Literals(Vars)
    BY <2>7, <2>8, TwoLiterals, Pairs
  <2>10. Guarded(s, d, W, s.propagated)
    BY <2>1, <2>2 DEF Core, Watches, Visited
  <2>11. \A j \in 1..Len(s.trail) : s.trail[j] \in d => s.trail[j] \in c
    <3>1. \A j \in 1..Len(s.trail) : s.trail[j] \in HoldsIn(s)
      BY <1>1, StackFields
    <3> QED BY <1>1, <2>2, <3>1, RootFacts DEF Root
  <2>12. Guarded(s', c, W, s.propagated)
    <3>1. Level(s') = Level(s) /\ \A k : LevelOf(s', k) = LevelOf(s, k)
      BY <1>3 DEF Level, LevelOf
    <3> QED BY <1>3, <2>10, <2>11, <3>1 DEF Guarded
  <2> QED BY <1>3, <2>1, <2>9, <2>12
<1>8. Database'
  <2>1. watched' \in [Clauses' -> SUBSET Literals(Vars)]
    BY <1>4, <1>6, <1>7
  <2>2. \A c \in Clauses' : watched'[c] \in kSubset(2, c) /\ c \in LongClauses
    BY <1>4, <1>6, <1>7
  <2>3. irredundant' \subseteq LongClauses /\ redundant' \subseteq LongClauses
    BY <2>2 DEF Clauses
  <2> QED BY <2>1, <2>2, <2>3 DEF Database
<1>9. \A c \in Clauses' : Guarded(s', c, watched'[c], s'.propagated)
  BY <1>4, <1>6, <1>7
<1> QED BY <1>3, <1>8, <1>9, SettledCore

(* Every variable is assigned when the trail is as long as there are       *)
(* variables.                                                              *)
LEMMA TrailFull ==
    ASSUME NEW t, Stack(t)
    PROVE  Len(t.trail) = Cardinality(Vars) <=> Free(t) = {}
<1> DEFINE n == Len(t.trail)
           f == [i \in 1..n |-> vidx(t.trail[i])]
<1>1. /\ t \in Stacks /\ n \in Nat
      /\ \A i \in 1..n : t.trail[i] \in Literals(Vars)
      /\ HoldsIn(t) = {t.trail[i] : i \in 1..n}
  BY StackFields DEF Stack
<1>10. \A lit \in HoldsIn(t) : \E i \in 1..n : t.trail[i] = lit
  BY <1>1
<1>2. \A i \in 1..n : vidx(t.trail[i]) \in Vars
  BY <1>1, LiteralFacts
<1>3. f \in [1..n -> Vars] /\ \A i \in 1..n : f[i] = vidx(t.trail[i])
  BY <1>2
<1>4. \A i, j \in 1..n : f[i] = f[j] => i = j
  BY <1>3 DEF Stack, Single
<1>5. IsFiniteSet(1..n) /\ Cardinality(1..n) = n /\ IsFiniteSet(Vars)
  BY <1>1, FS_Interval, VarsAssumption, SMTT(20)
<1>6. n = Cardinality(Vars) <=> f \in Surjection(1..n, Vars)
  <2> HIDE DEF f, n
  <2>1. f \in Injection(1..n, Vars)
    BY <1>3, <1>4 DEF Injection, IsInjective
  <2> QED BY <1>5, <2>1, FS_Injection
<1>7. f \in Surjection(1..n, Vars) <=> \A v \in Vars : \E i \in 1..n : f[i] = v
  BY <1>3 DEF Surjection
<1>8. \A v \in Vars : (\E i \in 1..n : f[i] = v) <=> v \notin Free(t)
  <2> SUFFICES ASSUME NEW v \in Vars
               PROVE  (\E i \in 1..n : f[i] = v) <=> v \notin Free(t)
    OBVIOUS
  <2> HIDE DEF f, n
  <2>1. v \notin Free(t) <=> v \in HoldsIn(t) \/ -v \in HoldsIn(t)
    BY DEF Free
  <2>2. v \in Literals(Vars) /\ vidx(v) = v /\ vidx(-v) = v
    BY LiteralFacts
  <2>3. \A i \in 1..n : vidx(t.trail[i]) = v => t.trail[i] = v \/ t.trail[i] = -v
    BY <1>1, <2>2, LiteralFacts
  <2>4. ASSUME NEW i \in 1..n, f[i] = v
        PROVE  v \notin Free(t)
    <3>1. t.trail[i] \in HoldsIn(t) /\ (t.trail[i] = v \/ t.trail[i] = -v)
      BY <1>1, <1>3, <2>3, <2>4
    <3> QED BY <2>1, <3>1
  <2>5. ASSUME v \notin Free(t)
        PROVE  \E i \in 1..n : f[i] = v
    <3>1. CASE v \in HoldsIn(t)
      <4>1. PICK i \in 1..n : t.trail[i] = v
        BY <1>10, <3>1
      <4> QED BY <1>3, <2>2, <4>1
    <3>2. CASE -v \in HoldsIn(t)
      <4>1. PICK i \in 1..n : t.trail[i] = -v
        BY <1>10, <3>2
      <4> QED BY <1>3, <2>2, <4>1
    <3> QED BY <2>1, <2>5, <3>1, <3>2
  <2> QED BY <2>4, <2>5
<1> HIDE DEF f, n
<1>9. n = Cardinality(Vars) <=> \A v \in Vars : v \notin Free(t)
  BY <1>6, <1>7, <1>8
<1> QED BY <1>9 DEF Free, n

(* After a walk, clauses are watched anew: all their literals are free.    *)
LEMMA EndWalkCore ==
    ASSUME Core, Complete, \A c \in Clauses : \A lit \in c : vidx(lit) \in Free(s),
           watched' \in Reconnected(Clauses),
           UNCHANGED <<s, irredundant, redundant, conflict, visiting, unsat>>
    PROVE  Core'
<1>1. /\ Stack(s) /\ s \in Stacks /\ visiting' = {} /\ conflict' = NoConflict /\ s' = s
      /\ Clauses' = Clauses /\ s.propagated = Len(s.trail)
  BY DEF Core, Complete, Quiet, Clauses, Stack
<1>2. /\ watched' = [c \in Clauses |-> watched'[c]]
      /\ \A c \in Clauses : watched'[c] \in kSubset(2, c)
  <2> DEFINE options == [c \in Clauses |-> {pair \in kSubset(2, c) :
                              c \in DOMAIN walk.front => walk.front[c] \in pair}]
  <2>1. watched' \in ChoiceFunctions(options)
    BY DEF Reconnected
  <2>2. DOMAIN options = Clauses
    OBVIOUS
  <2> HIDE DEF options
  <2>3. /\ watched' \in [Clauses -> UNION {options[c] : c \in Clauses}]
        /\ \A c \in Clauses : watched'[c] \in options[c]
    BY <2>1, <2>2 DEF ChoiceFunctions
  <2>4. watched' = [c \in Clauses |-> watched'[c]]
    BY <2>3
  <2> QED BY <2>3, <2>4 DEF options
<1>3. \A c \in Clauses : c \in LongClauses /\ c \in SUBSET Literals(Vars)
  BY DEF Core, Database, Clauses, LongClauses
<1>4. \A c \in Clauses : watched'[c] \in SUBSET c
  BY <1>2, Pairs
<1>5. Database'
  <2>1. watched' \in [Clauses -> SUBSET Literals(Vars)]
    BY <1>2, <1>3, <1>4
  <2> QED BY <1>1, <1>2, <2>1 DEF Core, Database
<1>6. ASSUME NEW c \in Clauses
      PROVE  Guarded(s, c, watched'[c], s.propagated)
  <2>1. \A w \in watched'[c] : -w \notin HoldsIn(s)
    BY <1>1, <1>3, <1>4, StackFields
  <2>2. \A i \in 1..s.propagated : s.trail[i] \in HoldsIn(s)
    BY <1>1, StackFields
  <2> QED BY <2>1, <2>2 DEF Guarded
<1> QED BY <1>1, <1>5, <1>6, SettledCore

(* The stack before anything is added.                                     *)
LEMMA EmptyStackKeeps == Stack(EmptyStack) /\ HoldsIn(EmptyStack) = {} /\ Level(EmptyStack) = 0
<1> DEFINE id == [v \in Vars |-> v]
           rank == [v \in Vars |-> Cardinality({w \in Vars : w <= v})]
           i == [EmptyStack EXCEPT !.place = id]
<1>1. \A v \in Vars : v \in Nat
  BY VarsAssumption
<1>2. PICK e : e = i
  OBVIOUS
<1>3. e \in Stacks /\ e.place = id
  <2>1. PICK p \in [Vars -> Nat] : p = id
    BY <1>1
  <2>2. e = [trail |-> <<>>, control |-> <<>>, propagated |-> 0, level |-> [v \in Vars |-> 0],
             reason |-> [v \in Vars |-> NoReason], place |-> p,
             unassigned |-> Max(Vars), beyond |-> {}]
    BY <1>2, <2>1 DEF EmptyStack
  <2> HIDE DEF id
  <2> QED BY <2>1, <2>2 DEF Stacks, NoReason
<1>4. /\ \A v \in Vars : Cardinality({w \in Vars : id[w] <= id[v]}) \in 1..Cardinality(Vars)
      /\ \A v, u \in Vars : id[v] < id[u] =>
            Cardinality({w \in Vars : id[w] <= id[v]}) < Cardinality({w \in Vars : id[w] <= id[u]})
      /\ Cardinality(Vars) \in Nat
  <2>1. LET r(v) == Cardinality({w \in Vars : e.place[w] <= e.place[v]}) IN
           /\ Cardinality(Vars) \in Nat
           /\ \A v \in Vars : r(v) \in 1..Cardinality(Vars)
           /\ \A v, u \in Vars : e.place[v] < e.place[u] => r(v) < r(u)
    BY <1>3, RanksOrdered
  <2> HIDE DEF id
  <2> QED BY <1>3, <2>1
<1>5. \A v \in Vars : {w \in Vars : id[w] <= id[v]} = {w \in Vars : w <= v}
  OBVIOUS
<1>6. \A v \in Vars : rank[v] = Cardinality({w \in Vars : id[w] <= id[v]})
  <2> HIDE DEF id
  <2> QED BY <1>5
<1>7. /\ \A v \in Vars : rank[v] \in Nat
      /\ \A v, u \in Vars : v < u => rank[v] < rank[u]
  <2>1. \A v, u \in Vars : v < u => id[v] < id[u]
    OBVIOUS
  <2>2. \A n \in 1..Cardinality(Vars) : n \in Nat
    BY <1>4
  <2> HIDE DEF id, rank
  <2>3. \A v \in Vars : rank[v] \in Nat
    BY <1>4, <1>6, <2>2
  <2>4. \A v, u \in Vars : v < u => rank[v] < rank[u]
    BY <1>4, <1>6, <2>1
  <2> QED BY <2>3, <2>4
<1> HIDE DEF id, rank, i
<1>8. PICK t : t = EmptyStack
  OBVIOUS
<1>9. /\ t.trail = <<>> /\ t.control = <<>> /\ t.propagated = 0 /\ t.beyond = {}
      /\ t.place = rank /\ t.unassigned = Max(Vars)
      /\ t.level = [v \in Vars |-> 0] /\ t.reason = [v \in Vars |-> NoReason]
  BY <1>8 DEF EmptyStack, rank
<1>10. t \in Stacks
  <2>1. rank \in [Vars -> Nat]
    BY <1>7 DEF rank
  <2>2. t = [trail |-> <<>>, control |-> <<>>, propagated |-> 0, level |-> [v \in Vars |-> 0],
             reason |-> [v \in Vars |-> NoReason], place |-> rank,
             unassigned |-> Max(Vars), beyond |-> {}]
    BY <1>8 DEF EmptyStack, rank
  <2> QED BY <2>1, <2>2 DEF Stacks, NoReason
<1>11. Len(t.trail) = 0 /\ Level(t) = 0 /\ HoldsIn(t) = {}
  BY <1>9 DEF Level, HoldsIn, ToSet
<1>12. Behind(t, t.unassigned) = {}
  <2> SUFFICES ASSUME NEW w \in Vars, rank[w] > rank[Max(Vars)]
               PROVE  FALSE
    BY <1>9 DEF Behind
  <2>1. \A v \in Vars : [x \in Vars |-> x][v] \in Nat
    BY <1>1
  <2>2. PICK m \in Vars : \A x \in Vars : [y \in Vars |-> y][x] <= [y \in Vars |-> y][m]
    BY <2>1, Greatest, VarsAssumption
  <2>3. Vars \subseteq Nat /\ Vars # {} /\ m \in Nat /\ \A x \in Vars : x <= m
    BY <1>1, <2>2
  <2>4. Max(Vars) \in Vars /\ \A y \in Vars : y <= Max(Vars)
    BY <2>3, MaxOfNats
  <2>5. PICK z \in Vars : z = Max(Vars)
    BY <2>4
  <2>6. w < z \/ w = z
    BY <1>1, <2>4, <2>5
  <2>7. rank[w] \in Nat /\ rank[z] \in Nat /\ rank[w] > rank[z]
    BY <1>7, <2>5
  <2> QED BY <1>7, <2>6, <2>7
<1>13. \A v, w \in Vars : t.place[v] = t.place[w] => v = w
  <2> SUFFICES ASSUME NEW v \in Vars, NEW w \in Vars, rank[v] = rank[w], v # w
               PROVE  FALSE
    BY <1>9
  <2>1. v < w \/ w < v
    BY <1>1
  <2> QED BY <1>7, <2>1
<1>14. Queue(t)
  BY <1>9, <1>12, <1>13 DEF Queue
<1>15. Single(t) /\ Levels(t) /\ Reasons(t) /\ Decisions(t)
  <2>1. 1..Len(t.trail) = {}
    BY <1>11
  <2> QED BY <2>1 DEF Single, Levels, Reasons, Decisions
<1>16. Heights(t)
  BY <1>9, <1>11 DEF Heights
<1> QED BY <1>8, <1>10, <1>11, <1>14, <1>15, <1>16 DEF Stack

(* Nothing has been added.                                                 *)
LEMMA InitCore ==
    ASSUME Init
    PROVE  Core
<1>1. /\ s = EmptyStack /\ irredundant = {} /\ redundant = {} /\ watched = <<>>
      /\ conflict = NoConflict /\ visiting = {}
  BY DEF Init
<1>2. Stack(s)
  BY <1>1, EmptyStackKeeps
<1>3. Clauses = {}
  BY <1>1 DEF Clauses
<1>4. watched \in [Clauses -> SUBSET Literals(Vars)]
  BY <1>1, <1>3
<1>5. Database
  BY <1>1, <1>3, <1>4 DEF Database
<1>6. Visits
  BY <1>1 DEF Visits, Quiet
<1>7. Watches
  BY <1>3 DEF Watches
<1> QED BY <1>2, <1>5, <1>6, <1>7 DEF Core

-----------------------------------------------------------------------------
(* How the stack moves in the steps of the search.                         *)

(* The next decision level holds the next assumption, or a literal of the  *)
(* set P that is free.                                                     *)
Decided(P) ==
    \/ /\ Level(s) < Len(assumptions) /\ assumptions[Level(s) + 1] \in Holds
       /\ s' = [s EXCEPT !.control = Append(@, Len(s.trail))]
    \/ \E t : \E lit \in Literals(Vars) :
          /\ Stack(t) /\ SameStack(s, t) /\ vidx(lit) \in Free(s)
          /\ s' = search_assume_decision(t, lit)
          /\ Level(s) < Len(assumptions) => lit = assumptions[Level(s) + 1]
          /\ Level(s) >= Len(assumptions) => lit \in P

(* decide() opens one level, for an assumption or a free literal.          *)
LEMMA DecideShape ==
    ASSUME Stack(s), Typed, NEW P, ~satisfied, decide(P)
    PROVE  Decided(P)
<1>1. /\ s \in Stacks /\ Level(s) \in Nat /\ Holds = HoldsIn(s)
      /\ Len(assumptions) \in Nat
      /\ \A i \in 1..Len(assumptions) : assumptions[i] \in Literals(Vars)
  BY StackFields, LenProperties, ElementOfSeq DEF Stack, Typed, Holds, HoldsIn
<1>2. SameStack(s, s)
  BY DEF SameStack
<1>3. CASE Level(s) < Len(assumptions)
  <2>1. PICK lit : lit = assumptions[Level(s) + 1]
    OBVIOUS
  <2>2. /\ -lit \notin Holds
        /\ s' = IF lit \in Holds THEN [s EXCEPT !.control = Append(@, Len(s.trail))]
                ELSE search_assume_decision(s, lit)
    BY <1>3, <2>1 DEF decide
  <2>3. lit \in Literals(Vars)
    <3>1. Level(s) + 1 \in 1..Len(assumptions)
      BY <1>1, <1>3
    <3> QED BY <1>1, <2>1, <3>1
  <2>4. CASE lit \in Holds
    BY <1>3, <2>1, <2>2, <2>4 DEF Decided
  <2>5. CASE lit \notin Holds
    <3>1. vidx(lit) \in Free(s)
      BY <1>1, <2>2, <2>3, <2>5, StackFields
    <3>2. s' = search_assume_decision(s, lit) /\ ~(Level(s) >= Len(assumptions))
      BY <1>1, <1>3, <2>2, <2>5
    <3> QED BY <1>2, <2>1, <2>3, <3>1, <3>2 DEF Decided
  <2> QED BY <2>4, <2>5
<1>4. CASE ~(Level(s) < Len(assumptions))
  <2>1. Level(s) >= Len(assumptions)
    BY <1>1, <1>4
  <2>2. Free(s) # {}
    BY <2>1, TrailFull DEF satisfied
  <2>3. PICK v \in IF stable THEN Free(s) ELSE {next_decision_variable_on_queue(s)} :
           \E lit \in {v, -v} \cap P :
              LET t == IF stable \/ v = s.unassigned THEN s
                       ELSE update_queue_unassigned(s, v)
              IN  s' = search_assume_decision(t, lit)
    BY <1>4 DEF decide
  <2>4. PICK lit \in {v, -v} \cap P :
           s' = search_assume_decision(IF stable \/ v = s.unassigned THEN s
                                       ELSE update_queue_unassigned(s, v), lit)
    BY <2>3
  <2>5. v \in Free(s) /\ (~stable => Behind(s, v) \cap Free(s) = {})
    BY <2>2, <2>3, NextVariable
  <2>6. v \in Vars /\ vidx(lit) = v /\ lit \in Literals(Vars)
    BY <2>4, <2>5, LiteralFacts DEF Free
  <2>7. PICK t : t = IF stable \/ v = s.unassigned THEN s ELSE update_queue_unassigned(s, v)
    OBVIOUS
  <2>8. Stack(t) /\ SameStack(s, t)
    <3>1. CASE stable \/ v = s.unassigned
      BY <1>2, <2>7, <3>1
    <3>2. CASE ~(stable \/ v = s.unassigned)
      <4>1. t = update_queue_unassigned(s, v) /\ Ordered(s)
        BY <2>7, <3>2 DEF Stack, Queue, Ordered
      <4>2. /\ t \in Stacks /\ Queue(t)
            /\ t.trail = s.trail /\ t.control = s.control /\ t.propagated = s.propagated
            /\ t.level = s.level /\ t.reason = s.reason
        BY <1>1, <2>5, <2>6, <3>2, <4>1, PointerKeeps
      <4> QED BY <4>2, SameTrail DEF SameStack
    <3> QED BY <3>1, <3>2
  <2> QED BY <1>4, <2>1, <2>4, <2>5, <2>6, <2>7, <2>8 DEF Decided
<1> QED BY <1>3, <1>4

(* The stack is cut back to the level n, its queue's pointer may move.     *)
CutBack(n) ==
    /\ n \in 0..Level(s)
    /\ \E t : Stack(t) /\ SameStack(s, t) /\ s' = backtrack(t, n)

(* Backtracking without moving the queue's pointer cuts back.              *)
LEMMA CutBackPlain ==
    ASSUME Stack(s), NEW n \in 0..Level(s), s' = backtrack(s, n)
    PROVE  CutBack(n)
BY DEF CutBack, SameStack

(* Cutting back keeps the core.                                            *)
LEMMA CutBackCore ==
    ASSUME Core, visiting = {}, visiting' = {}, conflict' = NoConflict,
           UNCHANGED <<clauseVars, unsat>>, NEW n, CutBack(n),
           conflict # NoConflict => n # Level(s)
    PROVE  Core'
<1>1. PICK t : Stack(t) /\ SameStack(s, t) /\ s' = backtrack(t, n)
  BY DEF CutBack
<1>2. Level(t) = Level(s) /\ n \in 0..Level(t)
  BY <1>1 DEF SameStack, Level, CutBack
<1> QED BY <1>1, <1>2, BacktrackCore

(* A restart keeps the levels of the assumptions.                          *)
LEMMA RestartShape ==
    ASSUME Stack(s), Typed, Restart
    PROVE  \E n \in Len(assumptions)..Level(s) : CutBack(n)
<1>1. /\ s \in Stacks /\ Level(s) \in Nat /\ Len(assumptions) \in Nat
      /\ Len(assumptions) <= Level(s) /\ ~satisfied /\ reuse_trail
  <2>1. s \in Stacks /\ Level(s) \in Nat /\ Len(assumptions) \in Nat
    BY StackFields, LenProperties DEF Stack, Typed
  <2>2. Level(s) >= Len(assumptions) + 2 /\ ~satisfied /\ reuse_trail
    BY DEF Restart, Restartable, Looping
  <2> QED BY <2>1, <2>2
<1>2. CASE stable
  <2>1. PICK n \in Len(assumptions)..Level(s) : s' = backtrack(s, n)
    BY <1>1, <1>2 DEF reuse_trail
  <2> QED BY <1>1, <2>1, CutBackPlain
<1>3. CASE ~stable
  <2> DEFINE bumped(k) == s.place[vidx(s.trail[s.control[k] + 1])]
             S(p) == {k \in Len(assumptions)..Level(s) :
                        \A j \in (Len(assumptions) + 1)..k : bumped(j) > p}
  <2>1. PICK v : v = next_decision_variable_on_queue(s)
    OBVIOUS
  <2>2. s' = backtrack(update_queue_unassigned(s, v), Max(S(s.place[v])))
    BY <1>1, <1>3, <2>1 DEF reuse_trail
  <2>3. Max(S(s.place[v])) \in Len(assumptions)..Level(s)
    <3>1. PICK p : p = s.place[v]
      OBVIOUS
    <3>2. S(p) \subseteq Nat /\ Len(assumptions) \in S(p) /\ \A x \in S(p) : x <= Level(s)
      BY <1>1
    <3>3. S(p) \subseteq Len(assumptions)..Level(s)
      OBVIOUS
    <3> HIDE DEF S
    <3>4. Max(S(p)) \in S(p)
      BY <1>1, <3>2, MaxOfNats, SMTT(20)
    <3> QED BY <3>1, <3>3, <3>4
  <2>4. PICK n \in Len(assumptions)..Level(s) : n = Max(S(s.place[v]))
    BY <2>3
  <2> HIDE DEF S
  <2>5. Free(s) # {}
    BY <1>1, TrailFull DEF satisfied
  <2>6. v \in Free(s) /\ Behind(s, v) \cap Free(s) = {} /\ v \in Vars /\ Ordered(s)
    BY <2>1, <2>5, NextVariable DEF Free, Stack, Queue, Ordered
  <2>7. PICK t : t = update_queue_unassigned(s, v)
    OBVIOUS
  <2>8. /\ t \in Stacks /\ Queue(t)
        /\ t.trail = s.trail /\ t.control = s.control /\ t.propagated = s.propagated
        /\ t.level = s.level /\ t.reason = s.reason
    BY <1>1, <2>6, <2>7, PointerKeeps
  <2>9. Stack(t) /\ SameStack(s, t)
    BY <2>8, SameTrail DEF SameStack
  <2>10. n \in 0..Level(s) /\ s' = backtrack(t, n)
    BY <1>1, <2>2, <2>4, <2>7
  <2> QED BY <2>9, <2>10 DEF CutBack
<1> QED BY <1>2, <1>3

(* A lucky decision is one of a free literal.                              *)
LEMMA LuckyShape ==
    ASSUME Stack(s), Typed, LuckyDecide
    PROVE  Decided(Literals(Vars)) /\ Level(s) >= Len(assumptions)
<1>1. /\ s \in Stacks /\ Free(s) # {} /\ Free(s) \subseteq Vars /\ Vars \subseteq Nat
      /\ assumptions = <<>> /\ luck \in 1..8 /\ Level(s) \in Nat
  BY StackFields, VarsAssumption DEF Stack, LuckyDecide, Typed, Free
<1>2. PICK lit \in LuckyLiterals : s' = search_assume_decision(s, lit)
  BY DEF LuckyDecide
<1>3. Min(Free(s)) \in Free(s)
  BY <1>1, MinOfNats
<1>4. Max(Free(s)) \in Free(s)
  <2>1. IsFiniteSet(Free(s)) /\ \A x \in Free(s) : [y \in Vars |-> y][x] \in Nat
    BY <1>1, VarsAssumption, FS_Subset
  <2>2. PICK m \in Free(s) : \A x \in Free(s) : [y \in Vars |-> y][x] <= [y \in Vars |-> y][m]
    BY <1>1, <2>1, Greatest
  <2>3. m \in Nat /\ Free(s) \subseteq Nat /\ \A x \in Free(s) : x <= m
    BY <1>1, <2>2
  <2> QED BY <1>1, <2>3, MaxOfNats
<1>5. PICK first, last : first = Min(Free(s)) /\ last = Max(Free(s))
  OBVIOUS
<1>6. lit \in {first, -first, last, -last} \/ \E b : lit \in Horn(b)
  <2>1. CASE luck \in {1, 4}
    BY <1>2, <1>5, <2>1 DEF LuckyLiterals
  <2>2. CASE luck \in {2, 3}
    BY <1>2, <1>5, <2>2 DEF LuckyLiterals
  <2>3. CASE luck = 5
    BY <1>2, <1>5, <2>3 DEF LuckyLiterals
  <2>4. CASE luck = 6
    BY <1>2, <1>5, <2>4 DEF LuckyLiterals
  <2>5. CASE luck \in {7, 8}
    <3>1. lit \in {first, -first} \/ lit \in Horn(luck = 7)
      BY <1>2, <1>5, <2>5 DEF LuckyLiterals
    <3> QED BY <3>1
  <2> QED BY <1>1, <2>1, <2>2, <2>3, <2>4, <2>5
<1>7. lit \in Literals(Vars) /\ vidx(lit) \in Free(s)
  <2>1. first \in Free(s) /\ last \in Free(s) /\ first \in Vars /\ last \in Vars
    BY <1>1, <1>3, <1>4, <1>5
  <2> QED BY <1>6, <2>1, LiteralFacts DEF Horn
<1>8. Len(assumptions) = 0 /\ SameStack(s, s)
  BY <1>1 DEF SameStack
<1>9. Level(s) >= Len(assumptions) /\ ~(Level(s) < Len(assumptions))
  BY <1>1, <1>8
<1> QED BY <1>2, <1>7, <1>8, <1>9 DEF Decided

(* A decision keeps the core.                                              *)
LEMMA DecidedCore ==
    ASSUME Core, Settled, UNCHANGED <<clauseVars, conflict, visiting, unsat>>,
           NEW P, Decided(P)
    PROVE  Core'
<1>1. \/ s' = [s EXCEPT !.control = Append(@, Len(s.trail))]
      \/ \E t : \E lit \in Literals(Vars) :
            /\ Stack(t) /\ SameStack(s, t) /\ vidx(lit) \in Free(s)
            /\ s' = search_assume_decision(t, lit)
  BY DEF Decided
<1> QED BY <1>1, DecideCore

(* Once the empty clause is learned, no watches matter.                    *)
LEMMA EmptyClauseCore ==
    ASSUME Core, visiting = {}, learn_empty_clause
    PROVE  Core'
<1>1. /\ UNCHANGED <<s, irredundant, redundant, watched>> /\ unsat'
      /\ visiting' = {} /\ conflict' = NoConflict
  BY DEF learn_empty_clause, clauseVars
<1>2. Stack(s') /\ Database'
  BY <1>1 DEF Core, Stack, Database, Clauses
<1> QED BY <1>1, <1>2, SettledCore

(* The steps that leave the stack and the clauses alone.                   *)
Standing == UNCHANGED <<s, clauseVars, conflict, visiting, unsat>>

(* These steps are such.                                                   *)
LEMMA StandingSteps ==
    ASSUME \/ StartSolve \/ StartSearch \/ LuckyFound \/ EndLucky \/ SavedSatisfied
           \/ LoopUnsat \/ LoopSatisfied \/ LoopTerminated \/ Stabilize \/ DecideFails
           \/ Walk \/ Terminate \/ Done
    PROVE  Standing
BY DEF Standing, StartSolve, StartSearch, LuckyFound, EndLucky, SavedSatisfied, LoopUnsat,
       LoopSatisfied, LoopTerminated, Stabilize, DecideFails, Walk, Terminate, Done, vars

(* The disjuncts of Next.                                                  *)
LEMMA Steps ==
    ASSUME Next
    PROVE  \/ StartSolve \/ StartSearch \/ LuckyFound \/ EndLucky \/ SavedSatisfied
           \/ LoopUnsat \/ LoopSatisfied \/ LoopTerminated \/ Stabilize \/ DecideFails
           \/ Walk \/ Terminate \/ Done
           \/ BeginCall \/ AddClause \/ AddUnit \/ Propagate \/ AlreadyRefuted \/ Analyze
           \/ Restart \/ Rephase \/ Reduce \/ CollectGarbage \/ Decide
           \/ LuckyDecide \/ unlucky \/ StartWalk \/ EndWalk \/ DecidePrepared
           \/ SavedConflict
BY DEF Next, Solve, Presolve, Loop

(* Every step keeps the stack, the clauses and their watches in order.     *)
LEMMA CoreNext ==
    ASSUME Core, Typed, Phases, Next
    PROVE  Core'
<1>1. /\ Stack(s) /\ Level(s) \in Nat /\ s.propagated \in Nat /\ Len(s.trail) \in Nat
      /\ 0 \in 0..Level(s)
  BY StackFields DEF Core, Stack
<1>2. CASE \/ StartSolve \/ StartSearch \/ LuckyFound \/ EndLucky \/ SavedSatisfied
           \/ LoopUnsat \/ LoopSatisfied \/ LoopTerminated \/ Stabilize \/ DecideFails
           \/ Walk \/ Terminate \/ Done
  BY <1>2, StandingSteps, CoreUnchanged DEF Standing
<1>3. CASE BeginCall
  <2>1. Quiet /\ s' = backtrack(s, 0) /\ UNCHANGED <<clauseVars, conflict, visiting, unsat>>
    BY <1>3 DEF BeginCall, Phases
  <2>2. visiting = {} /\ visiting' = {} /\ conflict = NoConflict /\ conflict' = NoConflict
    BY <2>1 DEF Quiet
  <2>3. CutBack(0)
    BY <1>1, <2>1, CutBackPlain
  <2> QED BY <2>1, <2>2, <2>3, CutBackCore
<1>4. CASE AddClause
  <2>1. Quiet /\ Level(s) = 0 /\ input \in Seq(Seq(Literals(Vars)))
    BY <1>4 DEF AddClause, Phases, Typed
  <2> QED BY <1>4, <2>1, AddClauseCore
<1>5. CASE AddUnit
  <2>1. visiting = {}
    BY <1>5 DEF AddUnit, Propagated
  <2>2. CASE conflict # NoConflict
    BY <1>5, <2>1, <2>2, EmptyClauseCore DEF AddUnit
  <2>3. CASE conflict = NoConflict
    BY <1>5, <2>3, CoreUnchanged DEF AddUnit
  <2> QED BY <2>2, <2>3
<1>6. CASE Propagate
  BY <1>6, PropagateCore DEF Propagate
<1>7. CASE AlreadyRefuted
  BY <1>7, EmptyClauseCore DEF AlreadyRefuted, Propagated
<1>8. CASE Analyze
  <2>1. /\ Propagated /\ conflict # NoConflict /\ ~unsat /\ visiting = {}
        /\ UNCHANGED <<irredundant, visiting>> /\ visiting' = {}
    BY <1>8 DEF Analyze, Propagated
  <2>2. CASE AnalyzeForced /\ UNCHANGED unsat
    BY <2>1, <2>2, AnalyzeForcedCore
  <2>3. CASE AnalyzeLearn /\ UNCHANGED unsat
    BY <2>1, <2>3, AnalyzeLearnCore
  <2>4. CASE unsat' = TRUE /\ conflict' = NoConflict /\ UNCHANGED <<s, redundant, watched>>
    <3>1. Stack(s') /\ Database'
      BY <2>1, <2>4 DEF Core, Stack, Database, Clauses
    <3> QED BY <2>1, <2>4, <3>1, SettledCore
  <2> QED BY <1>8, <2>2, <2>3, <2>4 DEF Analyze
<1>9. CASE Restart
  <2>1. /\ conflict = NoConflict /\ visiting = {}
        /\ UNCHANGED <<clauseVars, conflict, visiting, unsat>>
    BY <1>9 DEF Restart, Restartable, Looping, Settled, Propagated
  <2>2. PICK n \in Len(assumptions)..Level(s) : CutBack(n)
    BY <1>1, <1>9, RestartShape
  <2> QED BY <2>1, <2>2, CutBackCore
<1>10. CASE Rephase
  <2>1. /\ conflict = NoConflict /\ visiting = {} /\ s' = backtrack(s, 0)
        /\ UNCHANGED <<clauseVars, conflict, visiting, unsat>>
    BY <1>10 DEF Rephase, Looping, Settled, Propagated
  <2>2. CutBack(0)
    BY <1>1, <2>1, CutBackPlain
  <2> QED BY <2>1, <2>2, CutBackCore
<1>11. CASE Reduce
  <2>1. /\ conflict = NoConflict /\ visiting = {}
        /\ UNCHANGED <<clauseVars, conflict, visiting, unsat>>
        /\ s' = s \/ s' = backtrack(s, 0)
    BY <1>11 DEF Reduce, Looping, Settled, Propagated
  <2>2. CASE s' = s
    BY <2>1, <2>2, CoreUnchanged
  <2>3. CASE s' = backtrack(s, 0)
    <3>1. CutBack(0)
      BY <1>1, <2>3, CutBackPlain
    <3> QED BY <2>1, <3>1, CutBackCore
  <2> QED BY <2>1, <2>2, <2>3
<1>12. CASE CollectGarbage
  <2>1. /\ conflict = NoConflict /\ visiting = {} /\ s.propagated = Len(s.trail) /\ ~unsat
        /\ UNCHANGED <<conflict, visiting, unsat>>
    BY <1>12 DEF CollectGarbage, Settled, Propagated
  <2>2. RootBelow
    <3>1. CASE Level(s) > 0
      BY <1>12, <3>1 DEF CollectGarbage, Phases
    <3>2. CASE Level(s) = 0
      BY <1>1, <3>2 DEF RootBelow
    <3> QED BY <1>1, <3>1, <3>2
  <2>3. PICK useless \in SUBSET redundant :
          /\ irredundant' = Flushed(irredundant)
          /\ redundant' = Flushed(redundant \ useless) \ Flushed(irredundant)
          /\ watched' = FlushedWatches(irredundant \cup (redundant \ useless))
          /\ s' = [s EXCEPT !.reason = [v \in Vars |-> @[v] \ Negated(Root)]]
    BY <1>12 DEF CollectGarbage
  <2>4. redundant \ useless \in SUBSET redundant
    OBVIOUS
  <2> QED BY <2>1, <2>2, <2>3, <2>4, FlushCore
<1>13. CASE Decide
  <2>1. /\ Settled /\ decide(Literals(Vars)) /\ ~satisfied
        /\ UNCHANGED <<clauseVars, conflict, visiting, unsat>>
    BY <1>13 DEF Decide, Looping
  <2> QED BY <1>1, <2>1, DecideShape, DecidedCore
<1>14. CASE LuckyDecide
  <2>1. Settled /\ UNCHANGED <<clauseVars, conflict, visiting, unsat>>
    BY <1>14 DEF LuckyDecide
  <2>2. Decided(Literals(Vars))
    BY <1>1, <1>14, LuckyShape
  <2> QED BY <2>1, <2>2, DecidedCore
<1>15. CASE unlucky
  <2>1. /\ visiting = {} /\ visiting' = {} /\ conflict' = NoConflict /\ s' = backtrack(s, 0)
        /\ UNCHANGED <<clauseVars, unsat>>
    BY <1>15 DEF unlucky, Propagated
  <2>2. conflict # NoConflict => 0 # Level(s)
    BY <1>15 DEF unlucky, Phases, Complete, Quiet
  <2>3. CutBack(0)
    BY <1>1, <2>1, CutBackPlain
  <2> QED BY <2>1, <2>2, <2>3, CutBackCore
<1>16. CASE StartWalk
  <2>1. /\ conflict = NoConflict /\ visiting = {} /\ s.propagated = Len(s.trail) /\ ~unsat
        /\ UNCHANGED <<conflict, visiting, unsat>> /\ s' = s
        /\ irredundant' = Flushed(irredundant)
        /\ redundant' = Flushed(redundant) \ Flushed(irredundant)
        /\ watched' = FlushedWatches(irredundant \cup redundant)
    BY <1>16 DEF StartWalk, Settled, Propagated, Clauses
  <2>2. RootBelow
    BY <1>1, <1>16 DEF StartWalk, Phases, RootBelow
  <2>3. redundant \in SUBSET redundant
    OBVIOUS
  <2> QED BY <2>1, <2>2, <2>3, FlushCore
<1>17. CASE EndWalk
  <2>1. /\ Complete /\ \A c \in Clauses : \A lit \in c : vidx(lit) \in Free(s)
        /\ watched' \in Reconnected(Clauses)
        /\ UNCHANGED <<s, irredundant, redundant, conflict, visiting, unsat>>
    BY <1>17 DEF EndWalk, Phases
  <2> QED BY <2>1, EndWalkCore
<1>18. CASE DecidePrepared
  <2>1. PICK P : decide(P)
    BY <1>18 DEF DecidePrepared
  <2>2. Settled /\ ~satisfied /\ UNCHANGED <<clauseVars, conflict, visiting, unsat>>
    BY <1>18 DEF DecidePrepared
  <2> QED BY <1>1, <2>1, <2>2, DecideShape, DecidedCore
<1>19. CASE SavedConflict
  <2>1. /\ visiting = {} /\ visiting' = {} /\ conflict' = NoConflict /\ s' = backtrack(s, 0)
        /\ UNCHANGED <<clauseVars, unsat>>
    BY <1>19 DEF SavedConflict, Propagated
  <2>2. conflict # NoConflict => 0 # Level(s)
    BY <1>19 DEF SavedConflict, Phases, Complete, Quiet
  <2>3. CutBack(0)
    BY <1>1, <2>1, CutBackPlain
  <2> QED BY <2>1, <2>2, <2>3, CutBackCore
<1> QED BY <1>2, <1>3, <1>4, <1>5, <1>6, <1>7, <1>8, <1>9, <1>10, <1>11, <1>12, <1>13,
           <1>14, <1>15, <1>16, <1>17, <1>18, <1>19, Steps

-----------------------------------------------------------------------------
(* Types of what the calls add, and of the answers.                        *)

(* Only a call takes from the plan and makes assumptions.                  *)
LEMMA UserSteps ==
    ASSUME Next
    PROVE  BeginCall \/ AddClause \/ UNCHANGED <<plan, input, formula, assumptions>>
BY Steps DEF StartSolve, StartSearch, LuckyFound, EndLucky, SavedSatisfied, LoopUnsat,
       LoopSatisfied, LoopTerminated, Stabilize, DecideFails, Walk, Terminate, Done, vars,
       userVars, AddUnit, Propagate, AlreadyRefuted, Analyze, Restart, Rephase, Reduce,
       CollectGarbage, Decide, LuckyDecide, unlucky, StartWalk, EndWalk, DecidePrepared,
       SavedConflict

(* Calls, clauses and assumptions stay sequences of literals.              *)
LEMMA InputTyped ==
    ASSUME Typed, Next
    PROVE  /\ plan' \in Seq([add : Seq(Seq(Literals(Vars))), assume : Seq(Literals(Vars)),
                             localsearch : Nat])
           /\ input' \in Seq(Seq(Literals(Vars)))
           /\ assumptions' \in Seq(Literals(Vars))
<1>1. CASE BeginCall
  <2>1. /\ plan # <<>> /\ plan' = Tail(plan) /\ input' = Head(plan).add
        /\ assumptions' = Oracle!assume(Head(plan).assume)
    BY <1>1 DEF BeginCall
  <2>2. /\ Head(plan) \in [add : Seq(Seq(Literals(Vars))), assume : Seq(Literals(Vars)),
                           localsearch : Nat]
        /\ Tail(plan) \in Seq([add : Seq(Seq(Literals(Vars))), assume : Seq(Literals(Vars)),
                               localsearch : Nat])
    BY <2>1, HeadTailProperties DEF Typed
  <2>3. PICK q \in Seq(Literals(Vars)) : q = Head(plan).assume
    BY <2>2
  <2>4. PICK d : d = Subsequence(q, FirstOccurrences(q))
    OBVIOUS
  <2>5. d \in Seq(Literals(Vars))
    <3>1. FirstOccurrences(q) \in SUBSET FirstOccurrences(q)
      OBVIOUS
    <3>2. PICK c : c = ToSet(d)
      OBVIOUS
    <3>3. Listed(q, FirstOccurrences(q), d, c)
      BY <2>4, <3>1, <3>2, Distinct
    <3> QED BY <3>3 DEF Listed
  <2>6. assumptions' = d
    <3>1. \A P : Oracle!Subsequence(q, P) = Subsequence(q, P)
      BY DEF Oracle!Subsequence, Oracle!Nth, Oracle!Cardinality, Subsequence, Nth, Cardinality
    <3> QED BY <2>1, <2>3, <2>4, <3>1 DEF Oracle!assume, Oracle!FirstOccurrences, FirstOccurrences
  <2> QED BY <2>1, <2>2, <2>5, <2>6
<1>2. CASE AddClause
  <2>1. input # <<>> /\ input' = Tail(input) /\ UNCHANGED <<plan, assumptions>>
    BY <1>2 DEF AddClause
  <2> QED BY <2>1, HeadTailProperties DEF Typed
<1>3. CASE UNCHANGED <<plan, input, formula, assumptions>>
  BY <1>3 DEF Typed
<1> QED BY <1>1, <1>2, <1>3, UserSteps

(* Failed assumptions are assumptions.                                     *)
LEMMA FailedTyped ==
    ASSUME NEW t
    PROVE  \A F \in failing(t) : F \subseteq ToSet(assumptions)
<1> DEFINE A == ToSet(assumptions)
<1>1. failing(t) \subseteq
          {{lit, -lit} : lit \in {k \in A : -k \in A}}
          \cup {IF LevelOf(t, lit) = 0 THEN {lit}
                ELSE {lit} \cup (A \cap {k \in Because(t, {-lit}) :
                                  LevelOf(t, k) > 0 /\ t.reason[vidx(k)] = NoReason})
                : lit \in A}
  BY DEF failing
<1> HIDE DEF A
<1> QED BY <1>1 DEF A

(* A round of local search remembers its caller.                           *)
LEMMA WalkBegins ==
    ASSUME NEW from, WalkInit(from)
    PROVE  walk'.from = from /\ DOMAIN walk' = DOMAIN NoWalk
<1>1. PICK v, a, f, b, n :
          walk' = IF AssumptionsClash \/ \E c \in b : Falsified(c, a)
                  THEN [NoWalk EXCEPT !.failed = TRUE, !.from = from]
                  ELSE [vals |-> v, assumed |-> a, front |-> f, broken |-> b, minimum |-> n,
                        failed |-> FALSE, from |-> from]
  BY DEF WalkInit
<1> QED BY <1>1 DEF NoWalk

(* A flip changes neither the caller nor the failure of a round.           *)
LEMMA WalkGoesOn ==
    ASSUME DOMAIN walk = DOMAIN NoWalk, WalkFlip
    PROVE  /\ DOMAIN walk' = DOMAIN NoWalk
           /\ walk'.from = walk.from /\ walk'.failed = walk.failed
           /\ walk'.assumed = walk.assumed
<1>1. PICK lit : walk_flip_lit(lit)
  BY DEF WalkFlip
<1>2. PICK v, b, f, n : walk' = [walk EXCEPT !.vals = v, !.broken = b, !.front = f, !.minimum = n]
  <2>1. PICK g : walk_flip_lit(lit)!1!(g)
    BY <1>1, Zenon DEF walk_flip_lit
  <2> QED BY <2>1, Zenon
<1>3. DOMAIN NoWalk = {"vals", "assumed", "front", "broken", "minimum", "failed", "from"}
  BY DEF NoWalk
<1> QED BY <1>2, <1>3

(* Where the search stands, its answers, and the lucky strategies.         *)
LEMMA TypedNext ==
    ASSUME Typed, Next
    PROVE  Typed'
<1> DEFINE PCs == {"idle", "add", "unit", "root", "start_walk", "start_rephase", "walk",
                   "saved", "produce", "lucky", "search", "reduce"}
           Good == /\ pc' \in PCs /\ result' \in {-1, 0, 10, 20}
                   /\ failed' \subseteq ToSet(assumptions)'
                   /\ pc' \in {"lucky", "start_walk", "saved"} => luck' \in 1..9
                   /\ pc' = "walk" /\ walk'.from # "rephase" => luck' \in 1..9
                   /\ DOMAIN walk' = DOMAIN NoWalk
<1> SUFFICES Good
  BY InputTyped DEF Typed
<1>1. /\ pc \in PCs /\ result \in {-1, 0, 10, 20} /\ failed \subseteq ToSet(assumptions)
      /\ pc \in {"lucky", "start_walk", "saved"} => luck \in 1..9
      /\ pc = "walk" /\ walk.from # "rephase" => luck \in 1..9
      /\ DOMAIN walk = DOMAIN NoWalk
  BY DEF Typed
<1>2. CASE BeginCall
  <2>1. /\ pc' = "add" /\ result' = -1 /\ failed' = {} /\ walk' = walk
    BY <1>2 DEF BeginCall, Oracle!Running, walkVars
  <2> QED BY <1>1, <2>1
<1>3. CASE AddClause \/ AddUnit
  <2>1. /\ pc' \in {"add", "unit"} /\ UNCHANGED <<assumptions, result, failed, walk>>
    BY <1>3 DEF AddClause, AddUnit, userVars, answerVars, learn_empty_clause, walkVars
  <2> QED BY <1>1, <2>1
<1>4. CASE StartSolve \/ AlreadyRefuted \/ LuckyFound \/ SavedSatisfied \/ LoopUnsat
           \/ LoopSatisfied \/ LoopTerminated
  <2>1. /\ pc' \in {"idle", "root"} /\ result' \in {result, 0, 10, 20}
        /\ UNCHANGED <<assumptions, failed, walk>>
    BY <1>4 DEF StartSolve, AlreadyRefuted, LuckyFound, SavedSatisfied, LoopUnsat,
                LoopSatisfied, LoopTerminated, Answer, userVars, walkVars,
                learn_empty_clause
  <2> QED BY <1>1, <2>1
<1>5. CASE StartSearch
  <2>1. /\ pc' \in {"start_walk", "lucky"} /\ luck' = 1
        /\ UNCHANGED <<assumptions, result, failed, walk>>
    BY <1>5 DEF StartSearch, userVars, answerVars, walkVars
  <2> QED BY <1>1, <2>1
<1>6. CASE EndLucky \/ CollectGarbage
  <2>1. pc' = "search" /\ UNCHANGED <<assumptions, result, failed, walk>>
    BY <1>6 DEF EndLucky, CollectGarbage, userVars, answerVars, walkVars
  <2> QED BY <1>1, <2>1
<1>7. CASE DecideFails
  <2>1. pc' = "idle" /\ result' = 20 /\ failed' \in failing(s) /\ UNCHANGED <<assumptions, walk>>
    BY <1>7 DEF DecideFails, Answer, userVars
  <2> QED BY <1>1, <2>1, FailedTyped
<1>8. CASE unlucky
  <2>1. /\ pc = "lucky" /\ luck < 9 /\ (luck' = 9 \/ luck' = luck + 1)
        /\ UNCHANGED <<pc, assumptions, result, failed, walk>>
    BY <1>8 DEF unlucky, userVars, answerVars, walkVars
  <2> QED BY <1>1, <2>1
<1>9. CASE Rephase \/ Reduce
  <2>1. /\ pc' \in {"start_rephase", "search", "reduce"}
        /\ UNCHANGED <<assumptions, result, failed, walk>>
    BY <1>9 DEF Rephase, Reduce, Looping, userVars, walkVars
  <2> QED BY <1>1, <2>1
<1>10. CASE StartWalk
  <2>1. /\ pc \in {"start_walk", "start_rephase"} /\ pc' = "walk"
        /\ WalkInit(IF pc = "start_walk" THEN "local_search" ELSE "rephase")
        /\ UNCHANGED <<assumptions, result, failed, luck>>
    BY <1>10 DEF StartWalk, userVars, limitVars
  <2>2. /\ walk'.from = IF pc = "start_walk" THEN "local_search" ELSE "rephase"
        /\ DOMAIN walk' = DOMAIN NoWalk
    BY <2>1, WalkBegins
  <2> QED BY <1>1, <2>1, <2>2
<1>11. CASE Walk
  <2>1. pc' = pc /\ UNCHANGED <<assumptions, result, failed, luck>> /\ WalkFlip
    BY <1>11 DEF Walk, userVars, answerVars, scheduleVars, limitVars
  <2>2. walk'.from = walk.from /\ DOMAIN walk' = DOMAIN NoWalk
    BY <1>1, <2>1, WalkGoesOn
  <2> QED BY <1>1, <2>1, <2>2
<1>12. CASE EndWalk
  <2>1. /\ pc = "walk" /\ UNCHANGED <<assumptions, result, failed, luck>>
        /\ pc' \in {"search", "saved", "produce", "start_walk", "lucky"}
        /\ walk.from = "rephase" => pc' = "search"
        /\ walk' = NoWalk
    BY <1>12 DEF EndWalk, userVars
  <2> QED BY <1>1, <2>1
<1>13. CASE SavedConflict
  <2>1. pc = "saved" /\ pc' = "lucky" /\ UNCHANGED <<assumptions, result, failed, luck, walk>>
    BY <1>13 DEF SavedConflict, userVars, limitVars
  <2> QED BY <1>1, <2>1
<1>14. CASE Stabilize \/ Terminate \/ Done \/ Propagate \/ Analyze \/ Restart \/ Decide
            \/ LuckyDecide \/ DecidePrepared
  <2>1. UNCHANGED <<pc, assumptions, result, failed, luck, walk>>
    BY <1>14 DEF Stabilize, Terminate, Done, Propagate, Analyze, Restart, Decide, LuckyDecide,
                 DecidePrepared, vars, userVars, answerVars, scheduleVars, limitVars, walkVars
  <2> QED BY <1>1, <2>1
<1> QED BY <1>2, <1>3, <1>4, <1>5, <1>6, <1>7, <1>8, <1>9, <1>10, <1>11, <1>12, <1>13, <1>14,
           Steps

-----------------------------------------------------------------------------
(* What a step of propagation does to the assignment.                      *)

(* A step of propagate() moves on, assigns the literal that a visited      *)
(* clause forces, or finds a falsified clause.                             *)
SameTrails(t, u) ==
    /\ u.trail = t.trail /\ u.control = t.control
    /\ u.level = t.level /\ u.reason = t.reason

Moves == SameTrails(s, s') /\ conflict' = conflict

Forces ==
    \E c \in Clauses : \E lit \in c :
        /\ Assignable(s, lit, c) /\ c # NoReason /\ c # DecisionReason
        /\ s' = search_assign(s, lit, c)
        /\ Falsified(c \ {lit}, Holds) /\ Falsum \in c \ {lit}
        /\ s.propagated \in 1..Len(s.trail) /\ s.trail[s.propagated] = -Falsum
        /\ \A k \in 1..Level(s) : s.control[k] < s.propagated
        /\ conflict' = conflict

Clashes == s' = s /\ \E c \in Clauses : Falsified(c, Holds)

(* There are no other steps of propagate(), and each finds work to do.     *)
LEMMA PropagateShape ==
    ASSUME Core, propagate
    PROVE  (Moves \/ Forces \/ Clashes) /\ ~Complete
<1>1. CASE NextLiteral
  <2>1. s \in Stacks /\ s.propagated < Len(s.trail) /\ conflict' = conflict
        /\ s' = [s EXCEPT !.propagated = s.propagated + 1]
    BY <1>1 DEF NextLiteral, Core, Stack
  <2>2. SameTrails(s, s')
    BY <2>1 DEF SameTrails, Stacks
  <2>3. s.propagated \in Nat /\ Len(s.trail) \in Nat
    BY <2>1, StackFields
  <2>4. ~Complete
    BY <2>1, <2>3 DEF Complete
  <2> QED BY <2>1, <2>2, <2>4 DEF Moves
<1>2. CASE \E c \in visiting :
              \/ VisitBinary(c) \/ StopAtLong(c) \/ VisitSatisfied(c)
              \/ ReplaceWatch(c) \/ VisitUnit(c) \/ VisitConflict(c)
  <2>1. PICK c \in visiting : \/ VisitBinary(c) \/ StopAtLong(c) \/ VisitSatisfied(c)
                              \/ ReplaceWatch(c) \/ VisitUnit(c) \/ VisitConflict(c)
    BY <1>2
  <2>2. ~Complete
    BY DEF Complete, Quiet
  <2> DEFINE other == OtherWatch(c)
  <2>3. /\ c \in Clauses /\ c \in SUBSET Literals(Vars)
        /\ s.propagated \in 1..Len(s.trail) /\ s.trail[s.propagated] = -Falsum
        /\ Falsum \in Literals(Vars) /\ Falsum \in c /\ -Falsum \in Holds
        /\ other \in c /\ other # Falsum /\ other \in Literals(Vars)
        /\ watched[c] = {Falsum, other}
        /\ \A k \in 1..Level(s) : s.control[k] < s.propagated
    BY VisitedWatch
  <2>4. 0 \notin Literals(Vars)
    BY LiteralFacts
  <2> HIDE DEF other
  <2>5. c # NoReason /\ c # DecisionReason
    BY <2>3, <2>4 DEF NoReason, DecisionReason
  <2>6. s' = s /\ conflict' = conflict => Moves
    BY DEF Moves, SameTrails
  <2>7. ASSUME vidx(other) \in Free(s), s' = search_assign(s, other, c), conflict' = conflict,
               Falsified(c \ {other}, Holds)
        PROVE  Forces
    <3>1. \A k \in c \ {other} : -k \in HoldsIn(s)
      BY <2>7 DEF Falsified, Negated, Holds, HoldsIn
    <3>2. Assignable(s, other, c)
      BY <2>3, <2>7, <3>1 DEF Assignable
    <3> QED BY <2>3, <2>5, <2>7, <3>2 DEF Forces
  <2>8. CASE VisitBinary(c)
    <3>1. c = {Falsum, other}
      <4>1. watched[c] \in kSubset(2, c) /\ Cardinality(c) = 2
        BY <2>3, <2>8 DEF VisitBinary, Core, Database
      <4> QED BY <2>3, <4>1, Pairs
    <3>2. \/ s' = s /\ conflict' = conflict
          \/ -other \in Holds /\ s' = s
          \/ vidx(other) \in Free(s) /\ s' = search_assign(s, other, c) /\ conflict' = conflict
      BY <2>8 DEF VisitBinary, other
    <3>3. Falsified(c \ {other}, Holds)
      BY <2>3, <3>1 DEF Falsified, Negated
    <3>4. -other \in Holds => Falsified(c, Holds)
      BY <2>3, <3>1 DEF Falsified, Negated
    <3> QED BY <2>2, <2>3, <2>6, <2>7, <3>2, <3>3, <3>4 DEF Clashes
  <2>9. CASE StopAtLong(c) \/ VisitSatisfied(c) \/ ReplaceWatch(c)
    BY <2>2, <2>6, <2>9 DEF StopAtLong, VisitSatisfied, ReplaceWatch
  <2>10. CASE VisitUnit(c)
    BY <2>2, <2>7, <2>10 DEF VisitUnit, other
  <2>11. CASE VisitConflict(c)
    BY <2>2, <2>3, <2>11 DEF VisitConflict, Clashes
  <2> QED BY <2>1, <2>8, <2>9, <2>10, <2>11
<1> QED BY <1>1, <1>2 DEF propagate

(* What an added clause leaves behind: it holds at the root level, or the  *)
(* clauses have what is left of it.                                        *)
Recorded(f) ==
    /\ f \in SUBSET Literals(Vars) /\ formula' = formula \cup {f}
    /\ irredundant \subseteq irredundant'
    /\ \/ unsat' \/ Tautological(f) \/ f \cap RootIn(s') # {}
       \/ \E c \in irredundant' : c \subseteq f

(* Adding a clause leaves it behind so, and takes no literal away.         *)
LEMMA AddClauseRecords ==
    ASSUME Stack(s), Level(s) = 0, input \in Seq(Seq(Literals(Vars))), AddClause
    PROVE  Persists(s, s') /\ \E f : Recorded(f)
<1>1. PICK q, d, c : /\ q = Head(input) /\ c = ToSet(d)
                     /\ d = Subsequence(q, {i \in FirstOccurrences(q) : -q[i] \notin Root})
  OBVIOUS
<1> DEFINE skip == unsat \/ Tautological(ToSet(q)) \/ Satisfied(ToSet(q), Root)
           unit == ~skip /\ Cardinality(c) = 1
<1>2. /\ input # <<>> /\ formula' = formula \cup {ToSet(q)}
      /\ unsat' = (unsat \/ (~skip /\ c = {}))
      /\ s' = IF unit THEN search_assign(s, d[1], NoReason) ELSE s
      /\ IF skip \/ Cardinality(c) < 2 THEN UNCHANGED clauseVars
         ELSE irredundant' = irredundant \cup {c}
  BY <1>1 DEF AddClause
<1>3. /\ c = {lit \in ToSet(q) : -lit \notin Root} /\ ToSet(q) \in SUBSET Literals(Vars)
      /\ ~Satisfied(ToSet(q), Root) => \A lit \in c : vidx(lit) \in Free(s)
      /\ Cardinality(c) \in Nat /\ (Cardinality(c) = 0 => c = {})
      /\ Cardinality(c) = 1 => c = {d[1]}
  <2>1. Shortened(q, d, c)
    BY <1>1, <1>2, ShortenedClause
  <2> QED BY <2>1 DEF Shortened
<1>4. s \in Stacks /\ Levels(s) /\ Root = RootIn(s)
  BY DEF Stack, Root
<1>5. CASE unit
  <2>1. d[1] \in c /\ d[1] \in ToSet(q) /\ d[1] \in Literals(Vars)
    BY <1>3, <1>5
  <2>2. Assignable(s, d[1], NoReason) /\ s' = search_assign(s, d[1], NoReason)
    BY <1>2, <1>3, <1>5, <2>1 DEF Assignable
  <2>3. Persists(s, s')
    BY <2>2, AssignPersists
  <2>4. d[1] \in RootIn(s')
    <3>1. HoldsIn(s') = HoldsIn(s) \cup {d[1]} /\ LevelOf(s', d[1]) = LevelFor(s, d[1], NoReason)
      BY <1>4, <2>2, AssignResult
    <3> QED BY <3>1 DEF LevelFor, RootIn
  <2>5. irredundant' = irredundant
    BY <1>2, <1>5 DEF clauseVars
  <2>6. Recorded(ToSet(q))
    BY <1>2, <1>3, <2>1, <2>4, <2>5 DEF Recorded
  <2> QED BY <2>3, <2>6
<1>6. CASE ~unit
  <2>1. s' = s /\ Persists(s, s')
    BY <1>2, <1>4, <1>6, SamePersists
  <2>2. CASE skip
    <3>1. irredundant' = irredundant
      BY <1>2, <2>2 DEF clauseVars
    <3>2. unsat' \/ Tautological(ToSet(q)) \/ ToSet(q) \cap RootIn(s') # {}
      BY <1>2, <1>4, <2>1, <2>2 DEF Satisfied
    <3>3. Recorded(ToSet(q))
      BY <1>2, <1>3, <3>1, <3>2 DEF Recorded
    <3> QED BY <2>1, <3>3
  <2>3. CASE ~skip /\ Cardinality(c) < 2
    <3>1. irredundant' = irredundant
      BY <1>2, <2>3 DEF clauseVars
    <3>2. Cardinality(c) = 0 /\ c = {}
      <4> HIDE DEF skip
      <4> QED BY <1>3, <1>6, <2>3
    <3>3. c = {} /\ unsat'
      <4> HIDE DEF skip
      <4> QED BY <1>2, <2>3, <3>2
    <3>4. Recorded(ToSet(q))
      BY <1>2, <1>3, <3>1, <3>3 DEF Recorded
    <3> QED BY <2>1, <3>4
  <2>4. CASE ~skip /\ ~(Cardinality(c) < 2)
    <3>1. irredundant' = irredundant \cup {c} /\ c \subseteq ToSet(q)
      BY <1>2, <1>3, <2>4
    <3>2. Recorded(ToSet(q))
      BY <1>2, <1>3, <3>1 DEF Recorded
    <3> QED BY <2>1, <3>2
  <2> QED BY <2>2, <2>3, <2>4
<1> QED BY <1>5, <1>6

(* A decision opens a level; the other steps persist.                      *)
Opens ==
    /\ Level(s') = Level(s) + 1 /\ Len(s.trail) <= Len(s'.trail)
    /\ \A i \in 1..Len(s.trail) : s'.trail[i] = s.trail[i]
    /\ \A i \in 1..Len(s'.trail) : i <= Len(s.trail) \/ LevelOf(s', s'.trail[i]) = Level(s')
    /\ \A lit \in HoldsIn(s) : lit \in HoldsIn(s') /\ LevelOf(s', lit) = LevelOf(s, lit)
    /\ s'.control[Level(s')] = Len(s.trail)
    /\ \A k \in 1..Level(s) : s'.control[k] = s.control[k]
    /\ Level(s) < Len(assumptions) =>
          /\ assumptions[Level(s) + 1] \in HoldsIn(s')
          /\ LevelOf(s', assumptions[Level(s) + 1]) <= Level(s')

(* A decision does so.                                                     *)
LEMMA DecidedOpens ==
    ASSUME Stack(s), Settled, NEW P, Decided(P)
    PROVE  Opens
<1>1. /\ s \in Stacks /\ s.propagated = Len(s.trail) /\ Level(s) \in Nat /\ Len(s.trail) \in Nat
      /\ HoldsIn(s) \subseteq Literals(Vars) /\ Holds = HoldsIn(s) /\ Levels(s)
      /\ \A i \in 1..Len(s.trail) : s.trail[i] \in HoldsIn(s)
      /\ \A lit \in HoldsIn(s) : LevelOf(s, lit) \in 0..Level(s)
  <2>1. /\ s \in Stacks /\ s.propagated = Len(s.trail) /\ Levels(s) /\ Holds = HoldsIn(s)
    BY DEF Stack, Settled, Propagated, Holds, HoldsIn
  <2> QED BY <2>1, StackFields, TrailConsistent
<1>2. CASE /\ Level(s) < Len(assumptions) /\ assumptions[Level(s) + 1] \in Holds
           /\ s' = [s EXCEPT !.control = Append(@, Len(s.trail))]
  <2>1. /\ Level(s') = Level(s) + 1 /\ s'.control[Level(s')] = Len(s'.trail)
        /\ \A k \in 1..Level(s) : s'.control[k] = s.control[k]
        /\ s'.trail = s.trail /\ s'.level = s.level /\ HoldsIn(s') = HoldsIn(s)
    BY <1>1, <1>2, OpenKeeps
  <2>2. \A lit : LevelOf(s', lit) = LevelOf(s, lit)
    BY <2>1 DEF LevelOf
  <2>3. assumptions[Level(s) + 1] \in HoldsIn(s')
    BY <1>1, <1>2, <2>1
  <2>4. LevelOf(s', assumptions[Level(s) + 1]) <= Level(s')
    BY <1>1, <2>1, <2>2, <2>3
  <2> QED BY <1>1, <2>1, <2>2, <2>3, <2>4 DEF Opens
<1>3. CASE \E t : \E lit \in Literals(Vars) :
              /\ Stack(t) /\ SameStack(s, t) /\ vidx(lit) \in Free(s)
              /\ s' = search_assume_decision(t, lit)
              /\ Level(s) < Len(assumptions) => lit = assumptions[Level(s) + 1]
  <2>1. PICK t, lit : /\ lit \in Literals(Vars)
                      /\ Stack(t) /\ SameStack(s, t) /\ vidx(lit) \in Free(s)
                      /\ s' = search_assume_decision(t, lit)
                      /\ Level(s) < Len(assumptions) => lit = assumptions[Level(s) + 1]
    BY <1>3
  <2>2. /\ t.trail = s.trail /\ t.control = s.control /\ t.propagated = Len(t.trail)
        /\ HoldsIn(t) = HoldsIn(s) /\ Free(t) = Free(s) /\ Level(t) = Level(s)
        /\ \A k : LevelOf(t, k) = LevelOf(s, k)
    BY <1>1, <2>1 DEF SameStack, HoldsIn, Free, Level, LevelOf
  <2>3. /\ Level(s') = Level(t) + 1 /\ Len(s'.trail) = Len(t.trail) + 1
        /\ HoldsIn(s') = HoldsIn(t) \cup {lit} /\ LevelOf(s', lit) = Level(t) + 1
        /\ \A i \in 1..Len(t.trail) : s'.trail[i] = t.trail[i]
        /\ s'.trail[Len(t.trail) + 1] = lit
        /\ s'.control[Level(s')] = Len(t.trail)
        /\ \A k \in 1..Level(t) : s'.control[k] = t.control[k]
        /\ \A k \in Literals(Vars) : k \in HoldsIn(t) \/ -k \in HoldsIn(t) =>
              LevelOf(s', k) = LevelOf(t, k)
    BY <2>1, <2>2, DecideStack
  <2>4. \A i \in 1..Len(s'.trail) : i <= Len(s.trail) \/ LevelOf(s', s'.trail[i]) = Level(s')
    <3>1. \A i \in 1..(Len(s.trail) + 1) : i <= Len(s.trail) \/ i = Len(s.trail) + 1
      BY <1>1
    <3> QED BY <2>2, <2>3, <3>1
  <2>5. Level(s) < Len(assumptions) =>
          /\ assumptions[Level(s) + 1] \in HoldsIn(s')
          /\ LevelOf(s', assumptions[Level(s) + 1]) <= Level(s')
    BY <1>1, <2>1, <2>2, <2>3
  <2> QED BY <1>1, <2>2, <2>3, <2>4, <2>5 DEF Opens
<1> QED BY <1>2, <1>3 DEF Decided

(* In every step, what is assigned on the levels that are left stays.      *)
LEMMA StepPersists ==
    ASSUME Core, Typed, Phases, Next
    PROVE  Persists(s, s') \/ (Settled /\ Opens)
<1>1. /\ Stack(s) /\ s \in Stacks /\ Level(s) \in Nat /\ 0 \in 0..Level(s)
      /\ Len(assumptions) \in Nat
  BY StackFields, LenProperties DEF Core, Stack, Typed
<1>2. s' = s => Persists(s, s')
  BY <1>1, SamePersists
<1>3. \A n \in 0..Level(s) : s' = backtrack(s, n) => Persists(s, s')
  BY <1>1, BacktrackPersists
<1>4. CASE \/ StartSolve \/ StartSearch \/ LuckyFound \/ EndLucky \/ SavedSatisfied
           \/ LoopUnsat \/ LoopSatisfied \/ LoopTerminated \/ Stabilize \/ DecideFails
           \/ Walk \/ Terminate \/ Done
  BY <1>2, <1>4, StandingSteps DEF Standing
<1>5. CASE BeginCall \/ Rephase \/ unlucky \/ SavedConflict
  BY <1>1, <1>3, <1>5 DEF BeginCall, Rephase, unlucky, SavedConflict
<1>6. CASE AddClause
  <2>1. Level(s) = 0 /\ input \in Seq(Seq(Literals(Vars)))
    BY <1>6 DEF AddClause, Phases, Typed
  <2> QED BY <1>1, <1>6, <2>1, AddClauseRecords
<1>7. CASE AddUnit \/ AlreadyRefuted \/ EndWalk
  BY <1>2, <1>7 DEF AddUnit, AlreadyRefuted, learn_empty_clause, EndWalk
<1>8. CASE Propagate
  <2>1. Moves \/ Forces \/ Clashes
    BY <1>8, PropagateShape DEF Propagate
  <2>2. CASE Moves \/ Clashes
    BY <1>1, <2>2, SamePersists DEF Moves, SameTrails, Clashes
  <2>3. CASE Forces
    BY <1>1, <2>3, AssignPersists DEF Forces
  <2> QED BY <2>1, <2>2, <2>3
<1>9. CASE Analyze
  <2>1. /\ Propagated /\ conflict # NoConflict /\ ~unsat
        /\ UNCHANGED <<irredundant, visiting>>
    BY <1>9 DEF Analyze
  <2>2. CASE AnalyzeForced /\ UNCHANGED unsat
    BY <2>1, <2>2, AnalyzeForcedCore
  <2>3. CASE AnalyzeLearn /\ UNCHANGED unsat
    BY <2>1, <2>3, AnalyzeLearnCore
  <2>4. CASE UNCHANGED s
    BY <1>2, <2>4
  <2> QED BY <1>9, <2>2, <2>3, <2>4 DEF Analyze
<1>10. CASE Restart
  <2>1. PICK n \in Len(assumptions)..Level(s) : CutBack(n)
    BY <1>1, <1>10, RestartShape
  <2>2. n \in 0..Level(s) /\ \E t : Stack(t) /\ SameStack(s, t) /\ s' = backtrack(t, n)
    BY <2>1 DEF CutBack
  <2>3. PICK t : Stack(t) /\ SameStack(s, t) /\ s' = backtrack(t, n)
    BY <2>2
  <2>4. Persists(s, t) /\ Level(t) = Level(s)
    BY <1>1, <2>3, SamePersists DEF SameStack
  <2>5. Persists(t, s')
    BY <2>2, <2>3, <2>4, BacktrackPersists
  <2> QED BY <1>1, <2>3, <2>4, <2>5, PersistsTwice DEF Stack
<1>11. CASE Reduce
  BY <1>1, <1>2, <1>3, <1>11 DEF Reduce
<1>12. CASE CollectGarbage
  <2>1. s' = [s EXCEPT !.reason = [v \in Vars |-> @[v] \ Negated(RootIn(s))]]
    BY <1>12 DEF CollectGarbage, Root
  <2>2. s'.trail = s.trail /\ s'.control = s.control /\ s'.level = s.level
    BY <1>1, <2>1, FlushedReasons
  <2> QED BY <1>1, <2>2, SamePersists
<1>13. CASE StartWalk
  BY <1>2, <1>13 DEF StartWalk
<1>14. CASE Decide \/ DecidePrepared
  <2>1. Settled /\ ~satisfied /\ \E P : decide(P)
    BY <1>14 DEF Decide, DecidePrepared, Looping
  <2>2. \E P : Decided(P)
    BY <1>1, <2>1, DecideShape
  <2> QED BY <1>1, <2>1, <2>2, DecidedOpens
<1>15. CASE LuckyDecide
  <2>1. Settled /\ Decided(Literals(Vars))
    BY <1>1, <1>15, LuckyShape DEF LuckyDecide
  <2> QED BY <1>1, <2>1, DecidedOpens
<1> QED BY <1>4, <1>5, <1>6, <1>7, <1>8, <1>9, <1>10, <1>11, <1>12, <1>13, <1>14, <1>15, Steps

(* What holds at the root level never ceases to hold.                      *)
LEMMA RootStays ==
    ASSUME Core, Typed, Phases, Next
    PROVE  Root \subseteq Root'
<1>1. s \in Stacks /\ Level(s) \in Nat /\ Root = RootIn(s) /\ Root' = RootIn(s')
  BY StackFields DEF Core, Stack, Root
<1>2. CASE Persists(s, s')
  <2>1. Level(s') \in 0..Level(s) /\ 0 <= Level(s')
    BY <1>1, <1>2 DEF Persists
  <2> QED BY <1>1, <1>2, <2>1 DEF Persists, RootIn
<1>3. CASE Opens
  BY <1>1, <1>3 DEF Opens, RootIn
<1> QED BY <1>2, <1>3, StepPersists

(* Assumptions hold on their levels.                                       *)
LEMMA AssumedNext ==
    ASSUME Core, Typed, Phases, Assumed, Next
    PROVE  Assumed'
<1>1. /\ Stack(s) /\ s \in Stacks /\ Level(s) \in Nat /\ Holds = HoldsIn(s) /\ Holds' = HoldsIn(s')
      /\ HoldsIn(s) \subseteq Literals(Vars)
      /\ \A lit \in HoldsIn(s) : LevelOf(s, lit) \in Nat
  <2>1. Stack(s) /\ s \in Stacks /\ Holds = HoldsIn(s) /\ Holds' = HoldsIn(s')
    BY DEF Core, Stack, Holds, HoldsIn
  <2> QED BY <2>1, StackFields
<1>2. CASE BeginCall
  <2>1. Level(s') = 0
    BY <1>1, <1>2, BacktrackKeeps DEF BeginCall
  <2> QED BY <2>1 DEF Assumed
<1>3. CASE ~BeginCall
  <2>1. assumptions' = assumptions
    BY <1>3, UserSteps DEF AddClause
  <2>2. \A k \in 1..Level(s) : k <= Len(assumptions) =>
           assumptions[k] \in HoldsIn(s) /\ LevelOf(s, assumptions[k]) <= k
    BY <1>1 DEF Assumed
  <2>3. SUFFICES ASSUME NEW k \in 1..Level(s'), k <= Len(assumptions)
                 PROVE  assumptions[k] \in HoldsIn(s') /\ LevelOf(s', assumptions[k]) <= k
    BY <1>1, <2>1 DEF Assumed
  <2>4. CASE Persists(s, s')
    <3>1. k \in 1..Level(s) /\ k <= Level(s')
      BY <1>1, <2>3, <2>4 DEF Persists
    <3>2. assumptions[k] \in HoldsIn(s) /\ LevelOf(s, assumptions[k]) <= k
      BY <2>2, <2>3, <3>1
    <3>3. LevelOf(s, assumptions[k]) <= Level(s')
      BY <1>1, <2>4, <3>1, <3>2 DEF Persists
    <3> QED BY <2>4, <3>2, <3>3 DEF Persists
  <2>5. CASE Opens
    <3>1. CASE k \in 1..Level(s)
      BY <2>2, <2>3, <2>5, <3>1 DEF Opens
    <3>2. CASE k \notin 1..Level(s)
      <4>1. Level(s') = Level(s) + 1
        BY <2>5 DEF Opens
      <4>2. k = Level(s) + 1 /\ k = Level(s')
        BY <1>1, <2>3, <3>2, <4>1
      <4>3. Level(s) < Len(assumptions)
        <5>1. Len(assumptions) \in Nat
          BY LenProperties DEF Typed
        <5> QED BY <1>1, <2>3, <4>2, <5>1
      <4> QED BY <2>5, <4>2, <4>3 DEF Opens
    <3> QED BY <3>1, <3>2
  <2> QED BY <2>4, <2>5, StepPersists
<1> QED BY <1>2, <1>3

-----------------------------------------------------------------------------
(* When propagation is complete.                                           *)

(* Every clause has a true literal or two unassigned watches.              *)
LEMMA CompleteWatches ==
    ASSUME Core, ~unsat, Complete, NEW c \in Clauses
    PROVE  /\ Satisfied(c, Holds) \/ \A lit \in watched[c] : vidx(lit) \in Free(s)
           /\ watched[c] \in kSubset(2, c) /\ c \in SUBSET Literals(Vars)
           /\ watched[c] \in SUBSET c
<1>1. /\ s \in Stacks /\ Holds = HoldsIn(s) /\ c \in SUBSET Literals(Vars)
      /\ watched[c] \in kSubset(2, c) /\ Guarded(s, c, watched[c], Len(s.trail))
  BY DEF Core, Stack, Holds, HoldsIn, Database, Clauses, LongClauses, Watches, Visited,
         Complete, Quiet
<1>2. watched[c] \in SUBSET c
  BY <1>1, Pairs
<1>3. ASSUME NEW lit \in watched[c], vidx(lit) \notin Free(s)
      PROVE  Satisfied(c, Holds)
  <2>1. lit \in Literals(Vars) /\ lit \in c
    BY <1>1, <1>2
  <2>2. CASE lit \in Holds
    BY <2>1, <2>2 DEF Satisfied
  <2>3. CASE -lit \in Holds
    <3>1. PICK i \in 1..Len(s.trail) : s.trail[i] = -lit
      BY <1>1, <2>3, StackFields
    <3>2. PICK j \in 1..Len(s.trail) : s.trail[j] \in c
      BY <1>1, <3>1 DEF Guarded
    <3>3. s.trail[j] \in Holds
      BY <1>1, StackFields
    <3> QED BY <3>2, <3>3 DEF Satisfied
  <2> QED BY <1>1, <1>3, <2>1, <2>2, <2>3, StackFields
<1> QED BY <1>1, <1>2, <1>3

(* The loop goes on when propagation is complete without a conflict.       *)
LEMMA SettledComplete ==
    ASSUME Settled
    PROVE  Complete /\ Quiet /\ ~unsat
BY DEF Settled, Propagated, Complete, Quiet

(* The present assignment is then one that propagation need not leave.     *)
LEMMA CompleteExtends ==
    ASSUME Core, ~unsat, Complete
    PROVE  Extends(Holds)
<1>1. Holds = HoldsIn(s) /\ Stack(s)
  BY DEF Holds, HoldsIn, Core
<1>2. Consistent(Holds)
  BY <1>1, TrailConsistent DEF Consistent
<1>3. ASSUME NEW c \in Clauses, c \cap Holds = {}
      PROVE  \E k, l \in c : k # l /\ -k \notin Holds /\ -l \notin Holds
  <2>1. /\ \A lit \in watched[c] : vidx(lit) \in Free(s)
        /\ watched[c] \in kSubset(2, c) /\ c \in SUBSET Literals(Vars)
        /\ watched[c] \in SUBSET c
    BY <1>3, CompleteWatches DEF Satisfied
  <2>2. PICK k \in watched[c] : TRUE
    BY <2>1, Pairs
  <2>3. PICK l \in watched[c] : l # k
    BY <2>1, Pairs
  <2>4. k \in Literals(Vars) /\ l \in Literals(Vars) /\ k \in c /\ l \in c
    BY <2>1
  <2>5. -k \notin Holds /\ -l \notin Holds
    BY <1>1, <2>1, <2>4, StackFields DEF Stack
  <2> QED BY <2>3, <2>4, <2>5
<1> QED BY <1>2, <1>3 DEF Extends

(* Propagation stays inside of such an assignment.                         *)
LEMMA PropagateExtends ==
    ASSUME Core, propagate, UNCHANGED <<irredundant, redundant>>, conflict = NoConflict,
           NEW A, Extends(A)
    PROVE  conflict' = NoConflict /\ Extends(A)'
<1>1. /\ Clauses' = Clauses /\ Stack(s) /\ s \in Stacks /\ Levels(s)
      /\ Holds = HoldsIn(s) /\ Holds' = HoldsIn(s')
      /\ \A c \in Clauses : c \in SUBSET Literals(Vars)
  BY DEF Clauses, Core, Stack, Holds, HoldsIn, Database, LongClauses
<1>2. /\ Consistent(A) /\ Holds \subseteq A
      /\ \A c \in Clauses : c \cap A # {} \/ \E k, l \in c : k # l /\ -k \notin A /\ -l \notin A
  BY DEF Extends
<1>3. \A lit \in Literals(Vars) : -lit \in A => lit \notin A
  BY <1>2, LiteralFacts DEF Consistent
<1>4. CASE Moves
  <2>1. Holds' = Holds /\ conflict' = NoConflict
    BY <1>1, <1>4 DEF Moves, SameTrails, HoldsIn
  <2> QED BY <1>1, <1>2, <2>1 DEF Extends
<1>5. CASE Forces
  <2>1. PICK c, lit : /\ c \in Clauses /\ lit \in c /\ Assignable(s, lit, c)
                     /\ s' = search_assign(s, lit, c)
                     /\ Falsified(c \ {lit}, Holds) /\ conflict' = conflict
    BY <1>5 DEF Forces
  <2>2. HoldsIn(s') = HoldsIn(s) \cup {lit}
    BY <1>1, <2>1, AssignResult
  <2>3. \A k \in c \ {lit} : -k \in A
    BY <1>2, <2>1 DEF Falsified, Negated
  <2>4. \A k \in c \ {lit} : k \notin A
    BY <1>1, <1>3, <2>1, <2>3
  <2>5. c \cap A # {}
    BY <1>2, <2>1, <2>3
  <2>6. lit \in A
    BY <2>4, <2>5
  <2>7. Holds' \subseteq A
    BY <1>1, <1>2, <2>2, <2>6
  <2> QED BY <1>1, <1>2, <2>1, <2>7 DEF Extends
<1>6. CASE Clashes
  <2>1. PICK c \in Clauses : Falsified(c, Holds)
    BY <1>6 DEF Clashes
  <2>2. \A k \in c : -k \in A
    BY <1>2, <2>1 DEF Falsified, Negated
  <2> QED BY <1>1, <1>2, <1>3, <2>2
<1> QED BY <1>4, <1>5, <1>6, PropagateShape

(* While no level is left, nothing is assigned at the root level that is   *)
(* not below the first decision: the literal propagated is above it.       *)
LEMMA PropagateBelow ==
    ASSUME Core, propagate, RootBelow, Level(s) > 0
    PROVE  RootBelow'
<1>1. /\ Stack(s) /\ s \in Stacks /\ Levels(s) /\ Level(s) \in Nat /\ Len(s.trail) \in Nat
      /\ \A i \in 1..Len(s.trail) : s.trail[i] \in Literals(Vars) /\ s.trail[i] \in HoldsIn(s)
      /\ \A k \in 1..Level(s) : s.control[k] \in Nat
      /\ Holds = HoldsIn(s)
  <2>1. Stack(s) /\ s \in Stacks /\ Levels(s) /\ Holds = HoldsIn(s)
    BY DEF Core, Stack, Holds, HoldsIn
  <2> QED BY <2>1, StackFields
<1>2. CASE Moves \/ Clashes
  BY <1>2 DEF Moves, SameTrails, Clashes, RootBelow, Level, LevelOf
<1>3. CASE Forces
  <2>1. PICK c, lit :
             /\ c \in Clauses /\ lit \in c /\ Assignable(s, lit, c)
             /\ c # NoReason /\ c # DecisionReason
             /\ s' = search_assign(s, lit, c) /\ Falsum \in c \ {lit}
             /\ s.propagated \in 1..Len(s.trail) /\ s.trail[s.propagated] = -Falsum
             /\ \A k \in 1..Level(s) : s.control[k] < s.propagated
    BY <1>3 DEF Forces
  <2>2. /\ Level(s') = Level(s) /\ s'.control = s.control /\ Len(s'.trail) = Len(s.trail) + 1
        /\ \A i \in 1..Len(s.trail) : s'.trail[i] = s.trail[i]
        /\ s'.trail[Len(s.trail) + 1] = lit
        /\ LevelOf(s', lit) = LevelFor(s, lit, c)
        /\ \A k \in Literals(Vars) : k \in HoldsIn(s) \/ -k \in HoldsIn(s) =>
              LevelOf(s', k) = LevelOf(s, k)
    BY <1>1, <2>1, AssignResult
  <2>3. c \in SUBSET Literals(Vars) /\ Falsum \in Literals(Vars)
    BY <2>1 DEF Core, Database, Clauses, LongClauses
  <2>4. LevelOf(s, Falsum) > 0
    <3>1. 1 \in 1..Level(s)
      BY <1>1
    <3>2. s.control[1] \in Nat /\ s.control[1] < s.propagated
      BY <1>1, <2>1, <3>1
    <3>3. ~(s.propagated <= s.control[1])
      BY <2>1, <3>2
    <3>4. LevelOf(s, -Falsum) # 0
      BY <2>1, <3>1, <3>3 DEF RootBelow
    <3>5. LevelOf(s, -Falsum) = LevelOf(s, Falsum) /\ LevelOf(s, Falsum) \in Nat
      BY <1>1, <2>3, StackFields
    <3> QED BY <3>4, <3>5
  <2>5. LevelOf(s', lit) > 0
    <3>1. LevelFor(s, lit, c) = assignment_level(s, lit, c)
      BY <2>1 DEF LevelFor
    <3>2. /\ lit \in Literals(Vars) /\ c \in SUBSET Literals(Vars)
          /\ \A k \in c \ {lit} : -k \in HoldsIn(s)
      BY <2>1, <2>3 DEF Assignable
    <3>3. /\ assignment_level(s, lit, c) \in 0..Level(s)
          /\ LevelOf(s, Falsum) <= assignment_level(s, lit, c)
      BY <1>1, <2>1, <3>2, AssignmentLevel
    <3> QED BY <1>1, <2>2, <2>3, <2>4, <3>1, <3>3, StackFields
  <2>6. ASSUME NEW i \in 1..Len(s'.trail), LevelOf(s', s'.trail[i]) = 0
        PROVE  i \in 1..Len(s.trail) /\ LevelOf(s, s.trail[i]) = 0
    <3>1. i # Len(s.trail) + 1
      BY <2>2, <2>5, <2>6
    <3>2. i \in 1..Len(s.trail)
      BY <1>1, <2>2, <3>1
    <3> QED BY <1>1, <2>2, <2>6, <3>2
  <2> QED BY <2>2, <2>6 DEF RootBelow
<1> QED BY <1>2, <1>3, PropagateShape

(* The root level stays below a level that is opened.                      *)
LEMMA OpensBelow ==
    ASSUME Core, RootBelow, Opens
    PROVE  RootBelow'
<1>1. /\ s \in Stacks /\ Level(s) \in Nat /\ Len(s.trail) \in Nat
      /\ \A i \in 1..Len(s.trail) : s.trail[i] \in HoldsIn(s)
  BY StackFields DEF Core, Stack
<1>2. /\ Level(s') = Level(s) + 1 /\ Len(s.trail) <= Len(s'.trail)
      /\ \A i \in 1..Len(s.trail) : s'.trail[i] = s.trail[i]
      /\ \A i \in 1..Len(s'.trail) : i <= Len(s.trail) \/ LevelOf(s', s'.trail[i]) = Level(s')
      /\ \A lit \in HoldsIn(s) : LevelOf(s', lit) = LevelOf(s, lit)
      /\ s'.control[Level(s')] = Len(s.trail)
      /\ \A k \in 1..Level(s) : s'.control[k] = s.control[k]
  BY DEF Opens
<1>3. SUFFICES ASSUME NEW i \in 1..Len(s'.trail), LevelOf(s', s'.trail[i]) = 0,
                      NEW k \in 1..Level(s')
               PROVE  i <= s'.control[k]
  BY DEF RootBelow
<1>4. i \in 1..Len(s.trail) /\ LevelOf(s, s.trail[i]) = 0
  BY <1>1, <1>2, <1>3
<1>5. k \in 1..Level(s) \/ k = Level(s')
  BY <1>1, <1>2
<1> QED BY <1>2, <1>4, <1>5 DEF RootBelow

(* Back at the root level, everything is propagated still.                 *)
LEMMA BackToRoot ==
    ASSUME Stack(s), RootBelow, Level(s) = 0 => Complete, s' = backtrack(s, 0),
           visiting' = {}, conflict' = NoConflict
    PROVE  Level(s') = 0 /\ RootBelow' /\ Complete'
<1>1. /\ s \in Stacks /\ Level(s) \in Nat /\ 0 \in 0..Level(s) /\ Len(s.trail) \in Nat
  BY StackFields DEF Stack
<1>2. Level(s') = 0 /\ Stack(s')
  BY <1>1, BacktrackKeeps
<1>3. RootBelow'
  BY <1>2 DEF RootBelow
<1>4. s'.propagated = Len(s'.trail)
  <2>1. CASE Level(s) = 0
    BY <2>1 DEF backtrack, Complete
  <2>2. CASE Level(s) # 0
    <3>1. 0 \in 0..(Level(s) - 1) /\ 1 \in 1..Level(s)
      BY <1>1, <2>2
    <3>2. Retained(s, 0, s')
      BY <3>1, BacktrackShape
    <3>3. /\ s'.propagated = s.control[1] /\ s'.propagated \in Nat
          /\ s'.propagated <= Len(s'.trail)
      BY <3>2, StackFields DEF Retained, Height
    <3>4. PICK pos \in [1..Len(s'.trail) -> 1..Len(s.trail)] : Positions(s, 0, s'.trail, pos)
      BY <3>2 DEF Retained
    <3>5. ASSUME s'.propagated < Len(s'.trail)
          PROVE  FALSE
      <4>1. PICK i : i = s'.propagated + 1
        OBVIOUS
      <4>2. i \in 1..Len(s'.trail) /\ i \in (s.control[1] + 1)..Len(s'.trail)
        <5>1. Len(s'.trail) \in Nat
          BY <1>2, StackFields DEF Stack
        <5> QED BY <3>3, <3>5, <4>1, <5>1
      <4>3. /\ pos[i] \in 1..Len(s.trail) /\ pos[i] > s.control[1]
            /\ LevelOf(s, s.trail[pos[i]]) <= 0
        BY <3>4, <4>2 DEF Positions, Height
      <4>4. LevelOf(s, s.trail[pos[i]]) = 0
        BY <1>1, <4>3, StackFields
      <4>5. pos[i] <= s.control[1] /\ s.control[1] \in Nat
        BY <1>1, <3>1, <4>3, <4>4, StackFields DEF RootBelow
      <4> QED BY <4>3, <4>5
    <3>6. Len(s'.trail) \in Nat
      BY <1>2, StackFields DEF Stack
    <3> QED BY <3>3, <3>5, <3>6
  <2> QED BY <2>1, <2>2
<1> QED BY <1>2, <1>3, <1>4 DEF Complete, Quiet

(* Without levels, the root level literals are below the first decision.   *)
LEMMA NoLevels ==
    ASSUME Level(s) = 0
    PROVE  RootBelow
BY DEF RootBelow

-----------------------------------------------------------------------------
(* Where the solver stands.                                                *)

(* Nothing the solver relies on changes.                                   *)
LEMMA PhasesUnchanged ==
    ASSUME Phases, UNCHANGED <<s, irredundant, redundant, conflict, visiting, unsat, pc, walk,
                               assumptions>>
    PROVE  Phases'
BY DEF Phases, Quiet, RootBelow, Complete, Extends, Holds, Clauses, Hopeless, Root

(* What is to be shown of the state a step leads to.                       *)
LEMMA PhasesAt ==
    ASSUME unsat' => Quiet'
    PROVE  /\ pc' = "idle" /\ Quiet' => Phases'
           /\ pc' = "search" => Phases'
           /\ pc' = "add" /\ Quiet' /\ Level(s') = 0 => Phases'
           /\ pc' \in {"unit", "root"} /\ Level(s') = 0 => Phases'
           /\ pc' = "produce" /\ Hopeless' => Phases'
           /\ /\ pc' \in {"saved", "lucky"} /\ ~unsat'
              /\ RootBelow' /\ (Level(s') = 0 => Complete')
              => Phases'
           /\ /\ pc' \in {"start_walk", "start_rephase"} /\ ~unsat'
              /\ Level(s') = 0 /\ conflict' = NoConflict
              /\ \E A \in SUBSET Literals(Vars) : Extends(A)'
              => Phases'
           /\ /\ pc' = "reduce" /\ ~unsat' /\ conflict' = NoConflict
              /\ Level(s') > 0 => RootBelow' /\ Complete'
              /\ \E A \in SUBSET Literals(Vars) : Extends(A)'
              => Phases'
           /\ /\ pc' = "walk" /\ ~unsat' /\ Level(s') = 0 /\ Complete'
              /\ \A c \in Clauses' : \A lit \in c : vidx(lit) \in Free(s')
              /\ walk'.failed => Hopeless'
              => Phases'
BY DEF Phases

(* What is hopeless stays so.                                              *)
LEMMA HopelessStays ==
    ASSUME Hopeless, Root \subseteq Root', UNCHANGED <<irredundant, assumptions>>
    PROVE  Hopeless'
BY DEF Hopeless

(* Local search only fails when the assumptions are hopeless.              *)
LEMMA HopelessWalk ==
    ASSUME NEW from, WalkInit(from), irredundant' = Flushed(irredundant),
           UNCHANGED <<s, assumptions>>, assumptions \in Seq(Literals(Vars)), walk'.failed
    PROVE  Hopeless'
<1>1. PICK b, v, f, n, fixed :
          /\ fixed \subseteq ToSet(assumptions) /\ b \subseteq Flushed(irredundant)
          /\ walk' = IF AssumptionsClash \/ \E c \in b : Falsified(c, fixed)
                     THEN [NoWalk EXCEPT !.failed = TRUE, !.from = from]
                     ELSE [vals |-> v, assumed |-> fixed, front |-> f, broken |-> b,
                           minimum |-> n, failed |-> FALSE, from |-> from]
  BY DEF WalkInit
<1>2. AssumptionsClash \/ \E c \in b : Falsified(c, fixed)
  BY <1>1
<1>3. Root' = Root /\ DOMAIN assumptions = 1..Len(assumptions) /\ Len(assumptions) \in Nat
  BY LenProperties DEF Root
<1>4. CASE AssumptionsClash
  <2>1. PICK i \in 1..Len(assumptions) : \/ -assumptions[i] \in Root
                                         \/ \E j \in 1..(i - 1) : assumptions[j] = -assumptions[i]
    BY <1>3, <1>4 DEF AssumptionsClash
  <2>2. \A j \in 1..(i - 1) : j \in 1..Len(assumptions)
    BY <1>3
  <2> QED BY <1>3, <2>1, <2>2 DEF Hopeless
<1>5. CASE \E c \in b : Falsified(c, fixed)
  <2>1. PICK c \in irredundant' : Falsified(c, fixed)
    BY <1>1, <1>5
  <2>2. Falsified(c, ToSet(assumptions))
    BY <1>1, <2>1 DEF Falsified
  <2>3. ToSet(assumptions)' = ToSet(assumptions)
    OBVIOUS
  <2> QED BY <2>1, <2>2, <2>3 DEF Hopeless
<1> QED BY <1>2, <1>4, <1>5

(* At the root level all literals are root level literals.                 *)
LEMMA AllAtRoot ==
    ASSUME NEW t, Stack(t), Level(t) = 0
    PROVE  RootIn(t) = HoldsIn(t)
<1>1. \A lit \in HoldsIn(t) : LevelOf(t, lit) \in 0..0
  BY TrailConsistent
<1> QED BY <1>1 DEF RootIn

(* Flushed clauses have unassigned literals only.                          *)
LEMMA FlushedFree ==
    ASSUME Stack(s), Level(s) = 0, NEW C \in SUBSET SUBSET Literals(Vars),
           NEW c \in Flushed(C), NEW lit \in c
    PROVE  vidx(lit) \in Free(s)
<1>1. RootIn(s) = HoldsIn(s) /\ Root = RootIn(s)
  BY AllAtRoot DEF Root
<1>2. PICK d \in C : ~Satisfied(d, Root) /\ c = d \ Negated(Root)
  BY DEF Flushed
<1>3. lit \in Literals(Vars) /\ lit \notin Root /\ lit \notin Negated(Root)
  BY <1>2 DEF Satisfied
<1>4. -lit \notin HoldsIn(s)
  BY <1>1, <1>3, RootFacts
<1> QED BY <1>1, <1>3, <1>4, StackFields DEF Stack

(* Propagation opens and closes no level.                                  *)
LEMMA PropagateLevel ==
    ASSUME Core, propagate
    PROVE  Level(s') = Level(s) /\ ~Complete
<1>1. Stack(s) /\ s \in Stacks /\ Levels(s)
  BY DEF Core, Stack
<1>2. CASE Moves \/ Clashes
  BY <1>2, PropagateShape DEF Moves, SameTrails, Clashes, Level
<1>3. CASE Forces
  BY <1>1, <1>3, AssignResult, PropagateShape DEF Forces
<1> QED BY <1>2, <1>3, PropagateShape

(* Backtracking leaves an assignment an extension of what is assigned.     *)
LEMMA BacktrackExtends ==
    ASSUME Stack(s), NEW A, Extends(A), s' = backtrack(s, 0),
           UNCHANGED <<irredundant, redundant>>
    PROVE  Extends(A)'
<1>1. Level(s) \in Nat
  BY StackFields DEF Stack
<1>2. HoldsIn(s') \subseteq HoldsIn(s)
  <2>1. CASE Level(s) = 0
    BY <2>1 DEF backtrack
  <2>2. CASE Level(s) # 0
    <3>1. Retained(s, 0, s')
      BY <1>1, <2>2, BacktrackShape
    <3> QED BY <3>1 DEF Retained
  <2> QED BY <2>1, <2>2
<1>3. Holds' \subseteq Holds /\ Clauses' = Clauses
  BY <1>2 DEF Holds, HoldsIn, Clauses
<1> QED BY <1>3 DEF Extends

(* The walk starts on clauses without assigned literals.                   *)
LEMMA StartWalkPhases ==
    ASSUME Core, Typed, Phases, StartWalk
    PROVE  Phases'
<1>1. /\ Stack(s) /\ Level(s) = 0 /\ Complete /\ Quiet /\ ~unsat
      /\ UNCHANGED <<s, conflict, visiting, unsat, assumptions>> /\ pc' = "walk"
      /\ assumptions \in Seq(Literals(Vars))
  BY SettledComplete DEF StartWalk, Core, Phases, Typed, userVars
<1>2. /\ irredundant' = Flushed(irredundant)
      /\ Clauses' \subseteq Flushed(irredundant) \cup Flushed(redundant)
  BY DEF StartWalk, Clauses
<1>3. irredundant \in SUBSET SUBSET Literals(Vars) /\ redundant \in SUBSET SUBSET Literals(Vars)
  BY DEF Core, Database, LongClauses
<1>4. \A c \in Clauses' : \A lit \in c : vidx(lit) \in Free(s)
  BY <1>1, <1>2, <1>3, FlushedFree
<1>5. \A c \in Clauses' : \A lit \in c : vidx(lit) \in Free(s')
  BY <1>1, <1>4
<1>6. \E from : WalkInit(from)
  BY DEF StartWalk
<1>7. walk'.failed => Hopeless'
  BY <1>1, <1>2, <1>6, HopelessWalk
<1>8. Complete' /\ Quiet' /\ ~unsat' /\ Level(s') = 0
  BY <1>1 DEF Complete, Quiet
<1> QED BY <1>1, <1>5, <1>7, <1>8, PhasesAt

(* After the walk nothing is assigned but what was before.                 *)
LEMMA EndWalkPhases ==
    ASSUME Core, Phases, EndWalk
    PROVE  Phases'
<1>1. /\ Level(s) = 0 /\ Complete /\ ~unsat /\ (walk.failed => Hopeless)
      /\ UNCHANGED <<s, irredundant, redundant, conflict, visiting, unsat, assumptions>>
  BY DEF EndWalk, Phases, userVars
<1>2. /\ pc' \in {"search", "saved", "produce", "start_walk", "lucky"}
      /\ pc' = "produce" => walk.failed
  BY DEF EndWalk, walk_result
<1>3. Complete' /\ Quiet' /\ ~unsat' /\ Level(s') = 0 /\ RootBelow'
  BY <1>1, NoLevels DEF Complete, Quiet, RootBelow
<1>4. pc' = "produce" => Hopeless'
  BY <1>1, <1>2 DEF Hopeless, Root
<1>5. \E A \in SUBSET Literals(Vars) : Extends(A)'
  <2>1. Extends(Holds) /\ Holds \in SUBSET Literals(Vars)
    BY <1>1, CompleteExtends, StackFields DEF Core, Stack, Holds, HoldsIn
  <2>2. PICK A \in SUBSET Literals(Vars) : Extends(A)
    BY <2>1
  <2>3. Extends(A)'
    BY <1>1, <2>2 DEF Extends, Holds, Clauses
  <2> QED BY <2>3
<1>6. conflict' = NoConflict
  BY <1>3 DEF Quiet
<1> QED BY <1>2, <1>3, <1>4, <1>5, <1>6, PhasesAt

(* Propagation leaves the solver where it stands.                          *)
LEMMA PropagatePhases ==
    ASSUME Core, Typed, Phases, Propagate, Next
    PROVE  Phases'
<1>1. /\ pc \in Propagating /\ ~unsat /\ propagate /\ pc' = pc /\ unsat' = unsat
      /\ UNCHANGED <<irredundant, redundant, assumptions>>
      /\ Stack(s) /\ Level(s) \in Nat
  BY StackFields DEF Propagate, Core, Stack, userVars
<1>2. Level(s') = Level(s) /\ ~Complete
  BY <1>1, PropagateLevel
<1>3. ~unsat' /\ (unsat' => Quiet')
  BY <1>1
<1>4. CASE pc \in {"unit", "root", "search"}
  <2>1. pc = "search" \/ Level(s) = 0
    BY <1>4 DEF Phases
  <2> QED BY <1>1, <1>2, <1>3, <1>4, <2>1, PhasesAt
<1>5. CASE pc = "produce"
  <2>1. Hopeless /\ Root \subseteq Root'
    BY <1>5, RootStays DEF Phases
  <2>2. Hopeless'
    BY <1>1, <2>1, HopelessStays
  <2> QED BY <1>1, <1>3, <1>5, <2>2, PhasesAt
<1>6. CASE pc \in {"start_walk", "start_rephase", "reduce"}
  <2>1. conflict = NoConflict /\ Level(s) = 0
    BY <1>1, <1>2, <1>6 DEF Phases
  <2>2. PICK A \in SUBSET Literals(Vars) : Extends(A)
    BY <1>6 DEF Phases
  <2>3. conflict' = NoConflict /\ Extends(A)'
    BY <1>1, <2>1, <2>2, PropagateExtends
  <2>4. \E B \in SUBSET Literals(Vars) : Extends(B)'
    BY <2>3
  <2>5. Level(s') = 0 /\ ~(Level(s') > 0)
    BY <1>2, <2>1
  <2> QED BY <1>1, <1>3, <1>6, <2>3, <2>4, <2>5, PhasesAt
<1>7. CASE pc \in {"saved", "lucky"}
  <2>1. RootBelow /\ Level(s) > 0
    BY <1>1, <1>2, <1>7 DEF Phases
  <2>2. RootBelow' /\ Level(s') # 0
    BY <1>1, <1>2, <2>1, PropagateBelow
  <2> QED BY <1>1, <1>3, <1>7, <2>2, PhasesAt
<1> QED BY <1>1, <1>4, <1>5, <1>6, <1>7 DEF Propagating

(* A decision keeps the root level below it.                               *)
LEMMA DecidedPhases ==
    ASSUME Core, Typed, Phases, LuckyDecide \/ DecidePrepared, Next
    PROVE  Phases'
<1>1. /\ pc \in {"lucky", "saved", "produce"} /\ pc' = pc /\ Settled /\ unsat' = unsat
      /\ UNCHANGED <<irredundant, assumptions>> /\ Stack(s) /\ Level(s) \in Nat
  BY StackFields DEF LuckyDecide, DecidePrepared, Core, Stack, userVars, clauseVars
<1>2. Opens
  <2>1. CASE LuckyDecide
    BY <1>1, <2>1, LuckyShape, DecidedOpens
  <2>2. CASE DecidePrepared
    BY <1>1, <2>2, DecideShape, DecidedOpens DEF DecidePrepared
  <2> QED BY <2>1, <2>2
<1>3. ~unsat'
  BY <1>1 DEF Settled
<1>4. CASE pc = "produce"
  <2>1. Hopeless /\ Root \subseteq Root'
    BY <1>4, RootStays DEF Phases
  <2>2. Hopeless'
    BY <1>1, <2>1, HopelessStays
  <2> QED BY <1>1, <1>3, <1>4, <2>2, PhasesAt
<1>5. CASE pc \in {"lucky", "saved"}
  <2>1. RootBelow
    BY <1>5 DEF Phases
  <2>2. RootBelow'
    BY <1>2, <2>1, OpensBelow
  <2>3. Level(s') # 0
    BY <1>1, <1>2 DEF Opens
  <2> QED BY <1>1, <1>3, <1>5, <2>2, <2>3, PhasesAt
<1> QED BY <1>1, <1>4, <1>5

(* A guess that fails is taken back to the root level.                     *)
LEMMA GuessFailsPhases ==
    ASSUME Core, Phases, unlucky \/ SavedConflict
    PROVE  Phases'
<1>1. /\ pc \in {"lucky", "saved"} /\ pc' = "lucky" /\ Propagated /\ unsat' = unsat
      /\ s' = backtrack(s, 0) /\ visiting' = visiting /\ conflict' = NoConflict
  BY DEF unlucky, SavedConflict
<1>2. ~unsat /\ RootBelow /\ (Level(s) = 0 => Complete) /\ visiting' = {} /\ Stack(s)
  BY <1>1 DEF Phases, Propagated, Core
<1>3. RootBelow' /\ Complete'
  BY <1>1, <1>2, BackToRoot
<1>4. ~unsat'
  BY <1>1, <1>2
<1> QED BY <1>1, <1>3, <1>4, PhasesAt

(* Reducing and rephasing begin when propagation is complete.              *)
LEMMA LoopingPhases ==
    ASSUME Core, Phases, Reduce \/ Rephase
    PROVE  Phases'
<1>1. /\ Settled /\ Complete /\ ~unsat /\ Stack(s) /\ Level(s) \in Nat /\ 0 \in 0..Level(s)
      /\ UNCHANGED <<irredundant, redundant, conflict, visiting, unsat>>
  BY SettledComplete, StackFields DEF Reduce, Rephase, Looping, Core, Stack, clauseVars
<1>2. PICK A \in SUBSET Literals(Vars) : Extends(A)
  BY <1>1, CompleteExtends, StackFields DEF Stack, Holds, HoldsIn
<1>3. conflict' = NoConflict /\ Quiet' /\ ~unsat'
  BY <1>1 DEF Complete, Quiet
<1>4. CASE s' = backtrack(s, 0)
  <2>1. Level(s') = 0 /\ ~(Level(s') > 0)
    BY <1>1, <1>4, BacktrackKeeps
  <2>2. Extends(A)'
    BY <1>1, <1>2, <1>4, BacktrackExtends
  <2>3. \E B \in SUBSET Literals(Vars) : Extends(B)'
    BY <2>2
  <2>4. pc' \in {"search", "start_rephase", "reduce"}
    BY DEF Reduce, Rephase, Looping
  <2> QED BY <1>3, <2>1, <2>3, <2>4, PhasesAt
<1>5. CASE Reduce /\ s' = s /\ s' # backtrack(s, 0)
  <2>1. \A i \in DOMAIN s.trail : ~(LevelOf(s, s.trail[i]) = 0 /\ Level(s) > 0 /\ i > s.control[1])
    BY <1>5 DEF Reduce
  <2>2. RootBelow
    <3>1. SUFFICES ASSUME NEW i \in 1..Len(s.trail), LevelOf(s, s.trail[i]) = 0,
                          NEW k \in 1..Level(s)
                   PROVE  i <= s.control[k]
      BY DEF RootBelow
    <3>2. /\ Heights(s) /\ 1 \in 1..Level(s) /\ s.control[1] \in Nat /\ s.control[k] \in Nat
          /\ Level(s) > 0 /\ i \in DOMAIN s.trail
      BY <1>1, <3>1, StackFields, LenProperties DEF Stack
    <3>3. i <= s.control[1]
      BY <2>1, <3>1, <3>2
    <3>4. s.control[1] <= s.control[k]
      BY <3>1, <3>2 DEF Heights
    <3> QED BY <3>1, <3>2, <3>3, <3>4
  <2>3. RootBelow' /\ Complete' /\ Extends(A)'
    BY <1>1, <1>2, <1>5, <2>2 DEF RootBelow, Complete, Quiet, Extends, Holds, Clauses
  <2>4. \E B \in SUBSET Literals(Vars) : Extends(B)'
    BY <2>3
  <2>5. pc' = "reduce"
    BY <1>5 DEF Reduce
  <2> QED BY <1>3, <2>3, <2>4, <2>5, PhasesAt
<1> QED BY <1>4, <1>5 DEF Reduce, Rephase

(* A call begins, and its clauses are added, at the root level.            *)
LEMMA AddingPhases ==
    ASSUME Core, Typed, Phases, BeginCall \/ AddClause \/ AddUnit
    PROVE  Phases'
<1>1. Stack(s) /\ Level(s) \in Nat
  BY StackFields DEF Core, Stack
<1>2. CASE BeginCall
  <2>1. Level(s') = 0
    BY <1>1, <1>2, BacktrackKeeps DEF BeginCall
  <2>2. Quiet /\ UNCHANGED <<conflict, visiting>> /\ pc' = "add"
    BY <1>2 DEF BeginCall, Phases
  <2> QED BY <2>1, <2>2, PhasesAt DEF Quiet
<1>3. CASE AddClause
  <2>1. Level(s) = 0 /\ Quiet /\ input \in Seq(Seq(Literals(Vars)))
    BY <1>3 DEF AddClause, Phases, Typed
  <2>2. Persists(s, s') /\ Quiet' /\ pc' \in {"add", "unit"}
    BY <1>1, <1>3, <2>1, AddClauseRecords DEF AddClause, Quiet
  <2>3. Level(s') = 0
    BY <2>1, <2>2 DEF Persists
  <2> QED BY <2>2, <2>3, PhasesAt
<1>4. CASE AddUnit
  <2>1. Level(s') = 0 /\ Quiet' /\ pc' = "add"
    BY <1>4 DEF AddUnit, learn_empty_clause, Phases, Propagated, Quiet
  <2> QED BY <2>1, PhasesAt
<1> QED BY <1>2, <1>3, <1>4

(* Every step leaves the solver where its assumptions about the assignment *)
(* and the clauses hold.                                                   *)
LEMMA PhasesNext ==
    ASSUME Core, Typed, Phases, Next
    PROVE  Phases'
<1>1. Stack(s) /\ Level(s) \in Nat /\ 0 \in 0..Level(s) /\ (pc \in {"idle", "add"} \/ unsat => Quiet)
  BY StackFields DEF Core, Stack, Phases
<1>2. CASE Stabilize \/ Terminate \/ Done
  <2>1. UNCHANGED <<s, irredundant, redundant, conflict, visiting, unsat, pc, walk, assumptions>>
    BY <1>2 DEF Stabilize, Terminate, Done, vars, clauseVars, walkVars, userVars
  <2> QED BY <2>1, PhasesUnchanged
<1>3. CASE Walk
  <2>1. /\ pc = "walk" /\ pc' = pc /\ UNCHANGED <<s, clauseVars, conflict, visiting, unsat, assumptions>>
        /\ WalkFlip
    BY <1>3 DEF Walk, userVars
  <2>2. walk'.failed = walk.failed
    BY <2>1, WalkGoesOn DEF Typed
  <2>3. /\ ~unsat' /\ Level(s') = 0 /\ Complete'
        /\ \A c \in Clauses' : \A lit \in c : vidx(lit) \in Free(s')
        /\ walk'.failed => Hopeless'
    BY <2>1, <2>2 DEF Phases, Complete, Quiet, Clauses, clauseVars, Hopeless, Root
  <2> QED BY <2>1, <2>3, PhasesAt
<1>4. CASE StartSolve
  <2>1. /\ pc = "add" /\ UNCHANGED <<s, conflict, visiting, unsat>>
        /\ pc' = "idle" \/ pc' = "root"
    BY <1>4 DEF StartSolve, Answer
  <2>2. Quiet' /\ Level(s') = 0
    BY <2>1 DEF Phases, Quiet
  <2> QED BY <2>1, <2>2, PhasesAt
<1>5. CASE AlreadyRefuted
  <2>1. Quiet' /\ pc' = "idle"
    BY <1>5 DEF AlreadyRefuted, learn_empty_clause, Propagated, Answer, Quiet
  <2> QED BY <2>1, PhasesAt
<1>6. CASE LuckyFound \/ LoopSatisfied \/ LoopTerminated \/ SavedSatisfied \/ DecideFails
  <2>1. pc' = "idle" /\ Settled /\ UNCHANGED <<conflict, visiting>>
    BY <1>6 DEF LuckyFound, LoopSatisfied, LoopTerminated, SavedSatisfied, DecideFails,
                Looping, Answer
  <2>2. Quiet'
    BY <2>1, SettledComplete DEF Quiet
  <2> QED BY <2>1, <2>2, PhasesAt
<1>7. CASE LoopUnsat
  <2>1. pc' = "idle" /\ Quiet'
    BY <1>1, <1>7 DEF LoopUnsat, Answer, Quiet
  <2> QED BY <2>1, PhasesAt
<1>8. CASE EndLucky \/ CollectGarbage \/ Decide \/ Restart
  <2>1. pc' = "search" /\ UNCHANGED <<conflict, visiting, unsat>>
    BY <1>8 DEF EndLucky, CollectGarbage, Decide, Restart, Looping, Restartable
  <2> QED BY <1>1, <2>1, PhasesAt DEF Quiet
<1>9. CASE StartSearch
  <2>1. /\ pc = "root" /\ Settled /\ pc' \in {"start_walk", "lucky"}
        /\ UNCHANGED <<s, irredundant, redundant, conflict, visiting, unsat>>
    BY <1>9 DEF StartSearch, clauseVars
  <2>2. Complete /\ Level(s) = 0 /\ ~unsat
    BY <2>1, SettledComplete DEF Phases
  <2>3. PICK A \in SUBSET Literals(Vars) : Extends(A)
    BY <1>1, <2>2, CompleteExtends, StackFields DEF Stack, Holds, HoldsIn
  <2>4. /\ Extends(A)' /\ RootBelow' /\ Complete' /\ ~unsat' /\ Level(s') = 0 /\ Quiet'
        /\ conflict' = NoConflict
    BY <2>1, <2>2, <2>3, NoLevels DEF Extends, Holds, Clauses, RootBelow, Complete, Quiet
  <2>5. \E B \in SUBSET Literals(Vars) : Extends(B)'
    BY <2>4
  <2> QED BY <2>1, <2>4, <2>5, PhasesAt
<1>10. CASE Analyze
  <2>1. pc \in {"search", "produce"} /\ pc' = pc /\ UNCHANGED <<irredundant, assumptions>>
    BY <1>10 DEF Analyze, userVars
  <2>2. unsat' => Quiet'
    BY <1>10 DEF Analyze, Propagated, Quiet
  <2>3. pc = "produce" => Hopeless'
    BY <2>1, RootStays, HopelessStays DEF Phases
  <2> QED BY <2>1, <2>2, <2>3, PhasesAt
<1> QED BY <1>2, <1>3, <1>4, <1>5, <1>6, <1>7, <1>8, <1>9, <1>10, Steps, AddingPhases,
           LoopingPhases, DecidedPhases, GuessFailsPhases, StartWalkPhases, EndWalkPhases,
           PropagatePhases

-----------------------------------------------------------------------------
(* Local search.                                                           *)

(* A choice function picks one of the options of every argument.           *)
LEMMA OptionsChosen ==
    ASSUME NEW options, NEW D, DOMAIN options = D, NEW f \in ChoiceFunctions(options)
    PROVE  DOMAIN f = D /\ \A c \in D : f[c] \in options[c]
<1>1. f \in [D -> UNION {options[c] : c \in D}] /\ \A c \in D : f[c] \in options[c]
  BY DEF ChoiceFunctions
<1>2. DOMAIN f = D
  BY <1>1
<1> QED BY <1>1, <1>2

(* What BrokenExact says, of values v, broken clauses b, watched literals  *)
(* f and clauses C.                                                        *)
Exact(v, b, f, C) ==
    /\ b = {c \in C : ~Satisfied(c, v)}
    /\ DOMAIN f = C \ b
    /\ \A c \in C \ b : f[c] \in c \cap v

(* The counts are exact when a round of local search begins.               *)
LEMMA WalkInitExact ==
    ASSUME NEW from, WalkInit(from), ~walk'.failed
    PROVE  Exact(walk'.vals, walk'.broken, walk'.front, Flushed(irredundant))
<1> DEFINE C == Flushed(irredundant)
           fixed == {lit \in ToSet(assumptions) : vidx(lit) \in Active}
           values(start) == fixed \cup {lit \in start : -lit \notin fixed}
           unsatisfied(v) == {c \in C : ~Satisfied(c, v)}
           options(v) == [c \in C \ unsatisfied(v) |-> c \cap v]
           begun(v, f) ==
              walk' = IF AssumptionsClash \/ \E c \in unsatisfied(v) : Falsified(c, fixed)
                      THEN [NoWalk EXCEPT !.failed = TRUE, !.from = from]
                      ELSE [vals |-> v, assumed |-> fixed, front |-> f,
                            broken |-> unsatisfied(v), minimum |-> Cardinality(unsatisfied(v)),
                            failed |-> FALSE, from |-> from]
<1>1. \E start : \E f \in ChoiceFunctions(options(values(start))) : begun(values(start), f)
  BY DEF WalkInit
<1>2. PICK v : \E f \in ChoiceFunctions(options(v)) : begun(v, f)
  BY <1>1
<1>3. PICK f \in ChoiceFunctions(options(v)) : begun(v, f)
  BY <1>2
<1>4. /\ walk'.vals = v /\ walk'.broken = unsatisfied(v) /\ walk'.front = f
  BY <1>3 DEF NoWalk
<1>5. DOMAIN options(v) = C \ unsatisfied(v) /\ \A c \in C \ unsatisfied(v) : options(v)[c] = c \cap v
  OBVIOUS
<1> HIDE DEF options
<1>6. DOMAIN f = C \ unsatisfied(v) /\ \A c \in C \ unsatisfied(v) : f[c] \in c \cap v
  BY <1>3, <1>5, OptionsChosen
<1> QED BY <1>4, <1>6 DEF Exact

(* The parts of walk_flip_lit.                                             *)
Flip(v, lit) == (v \ {-lit}) \cup {lit}
Made(b, lit) == {d \in b : lit \in d}
Left(f, lit) == {d \in DOMAIN f : f[d] = -lit}
Lost(f, lit, w) == {d \in Left(f, lit) : ~Satisfied(d, w)}
Options(f, lit, w) == [d \in Left(f, lit) \ Lost(f, lit, w) |-> d \cap w]
Fronts(b, f, lit, w, g) ==
    [d \in (DOMAIN f \cup Made(b, lit)) \ Lost(f, lit, w) |->
        IF d \in Made(b, lit) THEN lit ELSE IF d \in Left(f, lit) THEN g[d] ELSE f[d]]

(* A flip keeps the counts exact.                                          *)
LEMMA FlipExact ==
    ASSUME NEW v, NEW b, NEW f, NEW C, Exact(v, b, f, C), NEW lit, NEW w, w = Flip(v, lit),
           NEW g \in ChoiceFunctions(Options(f, lit, w))
    PROVE  Exact(w, (b \ Made(b, lit)) \cup Lost(f, lit, w), Fronts(b, f, lit, w, g), C)
<1> DEFINE made == Made(b, lit)
           left == Left(f, lit)
           lost == Lost(f, lit, w)
           h == Fronts(b, f, lit, w, g)
<1>0. /\ w = (v \ {-lit}) \cup {lit} /\ made = {d \in b : lit \in d}
      /\ left = {d \in DOMAIN f : f[d] = -lit} /\ lost = {d \in left : ~Satisfied(d, w)}
      /\ h = [d \in (DOMAIN f \cup made) \ lost |->
                 IF d \in made THEN lit ELSE IF d \in left THEN g[d] ELSE f[d]]
  BY DEF Flip, Made, Left, Lost, Fronts
<1>1. b \subseteq C /\ DOMAIN f = C \ b /\ left \subseteq C \ b /\ made \subseteq b
  BY <1>0 DEF Exact
<1> HIDE DEF made, left, lost, h
<1>2. \A d \in left \ lost : g[d] \in d \cap w
  <2> DEFINE options == [d \in left \ lost |-> d \cap w]
  <2>1. DOMAIN options = left \ lost /\ \A d \in left \ lost : options[d] = d \cap w
    OBVIOUS
  <2>2. Options(f, lit, w) = options
    BY DEF Options, left, lost
  <2> HIDE DEF options
  <2> QED BY <2>1, <2>2, OptionsChosen
<1>3. ASSUME NEW c \in C
      PROVE  c \in (b \ made) \cup lost <=> ~Satisfied(c, w)
  <2>1. CASE c \in b
    <3>1. c \cap v = {} /\ c \notin lost
      BY <1>0, <1>1, <2>1 DEF Exact, Satisfied
    <3>2. Satisfied(c, w) <=> lit \in c
      BY <1>0, <3>1 DEF Satisfied
    <3> QED BY <1>0, <2>1, <3>1, <3>2
  <2>2. CASE c \notin b /\ c \in left
    <3>1. c \in lost <=> ~Satisfied(c, w)
      BY <1>0, <2>2
    <3> QED BY <2>2, <3>1
  <2>3. CASE c \notin b /\ c \notin left
    <3>1. f[c] \in c /\ f[c] \in v /\ f[c] # -lit
      BY <1>0, <1>1, <2>3 DEF Exact
    <3>2. Satisfied(c, w) /\ c \notin lost
      BY <1>0, <2>3, <3>1 DEF Satisfied
    <3> QED BY <2>3, <3>2
  <2> QED BY <2>1, <2>2, <2>3
<1>4. (b \ made) \cup lost = {c \in C : ~Satisfied(c, w)}
  BY <1>0, <1>1, <1>3
<1>5. (DOMAIN f \cup made) \ lost = C \ ((b \ made) \cup lost)
  <2>1. lost \subseteq left
    BY <1>0
  <2> QED BY <1>1, <2>1
<1>6. ASSUME NEW c \in C \ ((b \ made) \cup lost)
      PROVE  h[c] \in c \cap w
  <2>1. h[c] = IF c \in made THEN lit ELSE IF c \in left THEN g[c] ELSE f[c]
    BY <1>0, <1>5
  <2>2. CASE c \in made
    BY <1>0, <2>1, <2>2
  <2>3. CASE c \notin made /\ c \in left
    BY <1>2, <2>1, <2>3
  <2>4. CASE c \notin made /\ c \notin left
    <3>1. c \in C \ b /\ f[c] \in c \cap v /\ f[c] # -lit
      BY <1>0, <1>1, <2>4 DEF Exact
    <3> QED BY <1>0, <2>1, <2>4, <3>1
  <2> QED BY <2>2, <2>3, <2>4
<1>7. DOMAIN h = C \ ((b \ made) \cup lost)
  BY <1>0, <1>5
<1>8. Exact(w, (b \ made) \cup lost, h, C)
  BY <1>4, <1>6, <1>7 DEF Exact
<1> QED BY <1>8 DEF made, lost, h

(* The clauses that local search counts as broken are the falsified ones.  *)
LEMMA BrokenNext ==
    ASSUME Typed, BrokenExact, Next
    PROVE  BrokenExact'
<1>1. CASE StartWalk
  <2>1. irredundant' = Flushed(irredundant) /\ \E from : WalkInit(from)
    BY <1>1 DEF StartWalk
  <2>2. ~walk'.failed => Exact(walk'.vals, walk'.broken, walk'.front, irredundant')
    BY <2>1, WalkInitExact
  <2> QED BY <2>2 DEF BrokenExact, Exact
<1>2. CASE Walk
  <2>1. /\ pc = "walk" /\ WalkFlip /\ ~walk.failed /\ irredundant' = irredundant
        /\ DOMAIN walk = DOMAIN NoWalk
    BY <1>2 DEF Walk, WalkFlip, clauseVars, Typed
  <2>2. PICK lit : walk_flip_lit(lit)
    BY <2>1, Zenon DEF WalkFlip
  <2> DEFINE v == Flip(walk.vals, lit)
             b == (walk.broken \ Made(walk.broken, lit)) \cup Lost(walk.front, lit, v)
             h(g) == Fronts(walk.broken, walk.front, lit, v, g)
  <2>3. PICK g \in ChoiceFunctions(Options(walk.front, lit, v)) : \E n :
           walk' = [walk EXCEPT !.vals = v, !.broken = b, !.front = h(g), !.minimum = n]
    <3>1. PICK g \in ChoiceFunctions(Options(walk.front, lit, v)) : walk_flip_lit(lit)!1!(g)
      BY <2>2, Zenon DEF walk_flip_lit, Options, Left, Lost, Flip
    <3> QED BY <3>1, Zenon DEF Fronts, Made, Left, Lost, Flip
  <2>4. Exact(walk.vals, walk.broken, walk.front, irredundant)
    BY <2>1 DEF BrokenExact, Exact
  <2>5. Exact(v, b, h(g), irredundant)
    BY <2>3, <2>4, FlipExact
  <2> HIDE DEF h, v, b
  <2>6. walk'.vals = v /\ walk'.broken = b /\ walk'.front = h(g)
    <3>1. DOMAIN walk = {"vals", "assumed", "front", "broken", "minimum", "failed", "from"}
      BY <2>1 DEF NoWalk
    <3> QED BY <2>3, <3>1
  <2>7. Exact(walk'.vals, walk'.broken, walk'.front, irredundant')
    BY <2>1, <2>5, <2>6
  <2> QED BY <2>7 DEF BrokenExact, Exact
<1>3. CASE Terminate \/ Done
  BY <1>3 DEF Terminate, Done, BrokenExact, vars, clauseVars, walkVars
<1>4. CASE \/ StartSolve \/ StartSearch \/ LuckyFound \/ EndLucky \/ SavedSatisfied
           \/ LoopUnsat \/ LoopSatisfied \/ LoopTerminated \/ DecideFails
           \/ BeginCall \/ AddClause \/ AddUnit \/ AlreadyRefuted
           \/ EndWalk \/ SavedConflict \/ CollectGarbage \/ Rephase \/ Reduce
  <2>1. pc' # "walk"
    BY <1>4 DEF StartSolve, StartSearch, LuckyFound, EndLucky, SavedSatisfied, LoopUnsat,
                LoopSatisfied, LoopTerminated, DecideFails, BeginCall, AddClause, AddUnit,
                AlreadyRefuted, EndWalk, SavedConflict, CollectGarbage, Rephase, Reduce,
                Answer, Looping
  <2> QED BY <2>1 DEF BrokenExact
<1>5. CASE \/ Propagate \/ Analyze \/ Stabilize \/ Restart \/ Decide \/ LuckyDecide
           \/ unlucky \/ DecidePrepared
  <2>1. pc' = pc /\ pc # "walk"
    BY <1>5 DEF Propagate, Analyze, Stabilize, Restart, Decide, LuckyDecide, unlucky,
                DecidePrepared, Propagating, Looping, Restartable
  <2> QED BY <2>1 DEF BrokenExact
<1> QED BY <1>1, <1>2, <1>3, <1>4, <1>5, Steps

-----------------------------------------------------------------------------
(* Answers.                                                                *)

(* An assignment of all variables has every literal or its negation.       *)
LEMMA TotalAssignment ==
    ASSUME NEW A \in Assignments(Vars), NEW lit \in Literals(Vars)
    PROVE  lit \in A \/ -lit \in A
<1>1. PICK P \in SUBSET Vars : A = P \cup Negated(Vars \ P)
  BY DEF Assignments
<1>2. /\ lit = vidx(lit) \/ lit = -vidx(lit)
      /\ vidx(lit) \in Vars /\ -(-lit) = lit
  BY LiteralFacts
<1>3. vidx(lit) \in A \/ -vidx(lit) \in A
  BY <1>1, <1>2 DEF Negated
<1>4. CASE lit = vidx(lit)
  <2>1. -vidx(lit) = -lit
    BY <1>4
  <2> QED BY <1>3, <1>4, <2>1
<1>5. CASE lit = -vidx(lit)
  <2>1. -lit = vidx(lit)
    BY <1>2, <1>5, LiteralFacts
  <2> QED BY <1>3, <1>5, <2>1
<1> QED BY <1>2, <1>4, <1>5

(* Without free variables, what holds is such an assignment.               *)
LEMMA HoldsTotal ==
    ASSUME Stack(s), Free(s) = {}
    PROVE  Holds \in Assignments(Vars)
<1>1. /\ Holds = HoldsIn(s) /\ Holds \subseteq Literals(Vars)
      /\ \A lit \in Literals(Vars) : lit \in Holds \/ -lit \in Holds
  BY StackFields, LiteralFacts DEF Stack, Holds, HoldsIn
<1>2. \A lit \in Holds : -lit \notin Holds
  BY <1>1, TrailConsistent
<1> DEFINE P == {v \in Vars : v \in Holds}
<1>3. \A v \in Vars \ P : -v \in Holds
  BY <1>1, LiteralFacts
<1>4. \A lit \in Holds : lit \in P \cup Negated(Vars \ P)
  <2>1. SUFFICES ASSUME NEW lit \in Holds
                 PROVE  lit \in P \cup Negated(Vars \ P)
    OBVIOUS
  <2>2. lit \in Literals(Vars) /\ -lit \notin Holds /\ vidx(lit) \in Vars
        /\ -(-lit) = lit /\ (lit = vidx(lit) \/ lit = -vidx(lit))
    BY <1>1, <1>2, LiteralFacts
  <2>3. CASE lit = vidx(lit)
    BY <2>2, <2>3
  <2>4. CASE lit = -vidx(lit)
    <3>1. -lit = vidx(lit)
      BY <2>2, <2>4, LiteralFacts
    <3>2. vidx(lit) \in Vars \ P
      BY <2>2, <3>1
    <3> QED BY <2>4, <3>2 DEF Negated
  <2> QED BY <2>2, <2>3, <2>4
<1>5. P \cup Negated(Vars \ P) \subseteq Holds
  BY <1>3 DEF Negated
<1>6. Holds = P \cup Negated(Vars \ P) /\ P \in SUBSET Vars
  BY <1>4, <1>5
<1> QED BY <1>6 DEF Assignments

(* Clauses that are only weakened by what holds at the root level lose     *)
(* nothing of the formula.                                                 *)
LEMMA FormulaStays ==
    ASSUME Formula, Root \subseteq Root', unsat => unsat', formula' = formula,
           \A A \in Assignments(Vars) :
              Root \subseteq A /\ (\A c \in irredundant' : Satisfied(c, A)) =>
                  \A c \in irredundant : Satisfied(c, A)
    PROVE  Formula'
BY DEF Formula

(* Flushing a clause at the root level is an equivalence there.            *)
LEMMA FlushedImply ==
    ASSUME NEW A, Root \subseteq A, NEW C, \A c \in Flushed(C) : Satisfied(c, A), NEW d \in C
    PROVE  Satisfied(d, A)
<1>1. CASE Satisfied(d, Root)
  BY <1>1 DEF Satisfied
<1>2. CASE ~Satisfied(d, Root)
  <2>1. d \ Negated(Root) \in Flushed(C)
    BY <1>2 DEF Flushed
  <2> QED BY <2>1 DEF Satisfied
<1> QED BY <1>1, <1>2

(* Nothing that was added is lost, in any step.                            *)
LEMMA FormulaNext ==
    ASSUME Core, Typed, Phases, Formula, Next
    PROVE  Formula'
<1>1. Root \subseteq Root' /\ Root' = RootIn(s')
  BY RootStays DEF Root
<1>2. CASE AddClause
  <2>1. /\ Level(s) = 0 /\ input \in Seq(Seq(Literals(Vars))) /\ Stack(s)
        /\ (unsat => unsat')
    BY <1>2 DEF AddClause, Phases, Typed, Core
  <2>2. PICK f : Recorded(f)
    BY <1>2, <2>1, AddClauseRecords
  <2>3. SUFFICES ASSUME ~unsat', NEW A \in Assignments(Vars), Root' \subseteq A,
                        \A c \in irredundant' : Satisfied(c, A), NEW c \in formula'
                 PROVE  Satisfied(c, A)
    BY DEF Formula
  <2>4. CASE c \in formula
    <3>1. \A d \in irredundant : Satisfied(d, A)
      BY <2>2, <2>3 DEF Recorded
    <3> QED BY <1>1, <2>1, <2>3, <2>4, <3>1 DEF Formula
  <2>5. CASE c = f
    <3>1. f \in SUBSET Literals(Vars) /\ \/ Tautological(f) \/ f \cap RootIn(s') # {}
                                         \/ \E d \in irredundant' : d \subseteq f
      BY <2>2, <2>3 DEF Recorded
    <3>2. CASE Tautological(f)
      BY <2>5, <3>1, <3>2, TotalAssignment DEF Tautological, Satisfied
    <3>3. CASE f \cap RootIn(s') # {}
      BY <1>1, <2>3, <2>5, <3>3 DEF Satisfied
    <3>4. CASE \E d \in irredundant' : d \subseteq f
      BY <2>3, <2>5, <3>4 DEF Satisfied
    <3> QED BY <3>1, <3>2, <3>3, <3>4
  <2> QED BY <2>2, <2>3, <2>4, <2>5 DEF Recorded
<1>3. CASE StartWalk \/ CollectGarbage
  <2>1. irredundant' = Flushed(irredundant) /\ formula' = formula /\ (unsat => unsat')
    <3>1. CASE StartWalk
      BY <3>1 DEF StartWalk, userVars
    <3>2. CASE CollectGarbage
      BY <3>2 DEF CollectGarbage, userVars
    <3> QED BY <1>3, <3>1, <3>2
  <2>2. \A A \in Assignments(Vars) :
           Root \subseteq A /\ (\A c \in irredundant' : Satisfied(c, A)) =>
              \A c \in irredundant : Satisfied(c, A)
    BY <2>1, FlushedImply
  <2> QED BY <1>1, <2>1, <2>2, FormulaStays
<1>4. ASSUME irredundant' = irredundant /\ formula' = formula /\ (unsat => unsat')
      PROVE  Formula'
  BY <1>1, <1>4, FormulaStays
<1>5. CASE \/ StartSolve \/ StartSearch \/ LuckyFound \/ EndLucky \/ SavedSatisfied
           \/ LoopUnsat \/ LoopSatisfied \/ LoopTerminated \/ Stabilize \/ DecideFails
           \/ Walk \/ Terminate \/ Done
  <2>1. Standing
    BY <1>5, StandingSteps
  <2>2. formula' = formula
    BY <1>5, UserSteps DEF StartSolve, StartSearch, LuckyFound, EndLucky, SavedSatisfied,
             LoopUnsat, LoopSatisfied, LoopTerminated, Stabilize, DecideFails, Walk, Terminate,
             Done, vars, userVars
  <2> QED BY <1>4, <2>1, <2>2 DEF Standing, clauseVars
<1>6. CASE \/ BeginCall \/ AddUnit \/ Propagate \/ AlreadyRefuted \/ Analyze \/ Restart
           \/ Rephase \/ Reduce \/ Decide \/ LuckyDecide \/ unlucky \/ EndWalk
           \/ DecidePrepared \/ SavedConflict
  <2>1. irredundant' = irredundant /\ formula' = formula /\ (unsat => unsat')
    BY <1>6 DEF BeginCall, AddUnit, Propagate, AlreadyRefuted, Analyze, Restart, Rephase,
                Reduce, Decide, LuckyDecide, unlucky, EndWalk, DecidePrepared, SavedConflict,
                learn_empty_clause, clauseVars, userVars
  <2> QED BY <1>4, <2>1
<1> QED BY <1>2, <1>3, <1>5, <1>6, Steps

(* With every variable assigned and nothing left to propagate, all clauses *)
(* hold.                                                                   *)
LEMMA ClausesAtEnd ==
    ASSUME Core, Settled, Free(s) = {}, NEW c \in irredundant
    PROVE  Satisfied(c, Holds)
<1>1. Complete /\ ~unsat /\ c \in Clauses
  BY SettledComplete DEF Clauses
<1>2. /\ Satisfied(c, Holds) \/ \A lit \in watched[c] : vidx(lit) \in Free(s)
      /\ watched[c] \in kSubset(2, c) /\ c \in SUBSET Literals(Vars)
  BY <1>1, CompleteWatches
<1>3. PICK lit \in watched[c] : TRUE
  BY <1>2, Pairs
<1> QED BY <1>2, <1>3

(* With them holds all that was ever added.                                *)
LEMMA ModelAtEnd ==
    ASSUME Core, Settled, Formula, Free(s) = {}, ToSet(assumptions) \subseteq Holds
    PROVE  Holds \in Models(formula \cup Units(ToSet(assumptions)), Vars)
<1>1. Complete /\ ~unsat /\ Stack(s) /\ Holds \in Assignments(Vars) /\ Root \subseteq Holds
  BY SettledComplete, HoldsTotal DEF Core, Root, RootIn, Holds, HoldsIn
<1>2. \A c \in irredundant : Satisfied(c, Holds)
  BY ClausesAtEnd
<1>3. \A c \in formula : Satisfied(c, Holds)
  BY <1>1, <1>2 DEF Formula
<1>4. \A c \in Units(ToSet(assumptions)) : Satisfied(c, Holds)
  BY DEF Units, Satisfied
<1> QED BY <1>1, <1>3, <1>4 DEF Models

(* The assumptions all hold above their levels.                            *)
LEMMA SatisfiedAssumptions ==
    ASSUME Core, Typed, Assumed, satisfied
    PROVE  Free(s) = {} /\ ToSet(assumptions) \subseteq Holds
<1>1. /\ Stack(s) /\ Len(s.trail) = Cardinality(Vars) /\ Level(s) >= Len(assumptions)
      /\ Level(s) \in Nat
  BY StackFields DEF satisfied, Core, Stack
<1>2. Free(s) = {}
  BY <1>1, TrailFull
<1>3. Len(assumptions) \in Nat /\ ToSet(assumptions) = {assumptions[k] : k \in 1..Len(assumptions)}
  BY LenProperties DEF Typed, ToSet
<1>4. \A k \in 1..Len(assumptions) : assumptions[k] \in Holds
  BY <1>1, <1>3 DEF Assumed
<1> QED BY <1>2, <1>3, <1>4

(* The answer 10 comes with a model of all that was added and assumed.     *)
LEMMA ModelFoundNext ==
    ASSUME Core, Typed, Assumed, Formula, ModelFound, Next
    PROVE  ModelFound'
<1>1. CASE LuckyFound \/ LoopSatisfied \/ SavedSatisfied
  <2>1. /\ Settled /\ pc' = "idle" /\ UNCHANGED <<s, formula, assumptions>>
        /\ Free(s) = {} /\ ToSet(assumptions) \subseteq Holds
    <3>1. CASE LuckyFound
      BY <3>1 DEF LuckyFound, Answer, userVars, ToSet
    <3>2. CASE LoopSatisfied \/ SavedSatisfied
      BY <3>2, SatisfiedAssumptions DEF LoopSatisfied, SavedSatisfied, Answer, userVars
    <3> QED BY <1>1, <3>1, <3>2
  <2>2. Holds \in Models(formula \cup Units(ToSet(assumptions)), Vars)
    BY <2>1, ModelAtEnd
  <2>3. Holds' = Holds
    BY <2>1 DEF Holds
  <2> QED BY <2>1, <2>2, <2>3 DEF ModelFound
<1>2. CASE Terminate \/ Done
  <2>1. UNCHANGED <<result, pc, s, formula, assumptions>>
    BY <1>2 DEF Terminate, Done, vars, answerVars, userVars
  <2>2. Holds' = Holds
    BY <2>1 DEF Holds
  <2> QED BY <2>1, <2>2 DEF ModelFound
<1>3. CASE BeginCall \/ StartSolve \/ AlreadyRefuted \/ LoopUnsat \/ LoopTerminated \/ DecideFails
  <2>1. result' # 10
    <3>1. CASE StartSolve
      <4>1. pc = "add" /\ result' \in {20, result}
        BY <3>1 DEF StartSolve, Answer
      <4> QED BY <4>1 DEF ModelFound
    <3>2. CASE BeginCall \/ AlreadyRefuted \/ LoopUnsat \/ LoopTerminated \/ DecideFails
      BY <3>2 DEF BeginCall, AlreadyRefuted, LoopUnsat, LoopTerminated, DecideFails, Answer,
                  Oracle!Running
    <3> QED BY <1>3, <3>1, <3>2
  <2> QED BY <2>1 DEF ModelFound
<1>4. CASE \/ AddClause \/ AddUnit \/ Propagate \/ StartSearch \/ Analyze \/ Stabilize \/ Restart
           \/ Rephase \/ Reduce \/ CollectGarbage \/ Decide \/ LuckyDecide \/ unlucky
           \/ EndLucky \/ StartWalk \/ Walk \/ EndWalk \/ DecidePrepared \/ SavedConflict
  <2>1. pc # "idle"
    BY <1>4 DEF AddClause, AddUnit, Propagate, StartSearch, Analyze, Stabilize, Restart, Rephase,
                Reduce, CollectGarbage, Decide, LuckyDecide, unlucky, EndLucky, StartWalk, Walk,
                EndWalk, DecidePrepared, SavedConflict, Looping, Restartable, Propagating
  <2>2. result' = result
    BY <1>4 DEF AddClause, AddUnit, Propagate, StartSearch, Analyze, Stabilize, Restart, Rephase,
                Reduce, CollectGarbage, Decide, LuckyDecide, unlucky, EndLucky, StartWalk, Walk,
                EndWalk, DecidePrepared, SavedConflict, answerVars
  <2> QED BY <2>1, <2>2 DEF ModelFound
<1> QED BY <1>1, <1>2, <1>3, <1>4, Steps

-----------------------------------------------------------------------------
(* What follows from the formula: the assignments that satisfy it.         *)

(* An assignment has a literal exactly if it does not have its negation.   *)
LEMMA AssignmentExact ==
    ASSUME NEW A \in Assignments(Vars)
    PROVE  A \subseteq Literals(Vars) /\ \A lit \in Literals(Vars) : lit \in A <=> -lit \notin A
<1>1. PICK P \in SUBSET Vars : A = P \cup Negated(Vars \ P)
  BY DEF Assignments
<1>2. A \subseteq Literals(Vars)
  BY <1>1, LiteralFacts DEF Negated
<1>3. ASSUME NEW v \in Vars
      PROVE  ~(v \in A /\ -v \in A)
  <2>1. v \in Nat /\ v > 0 /\ \A w \in Vars : w \in Nat /\ w > 0
    BY VarsAssumption
  <2>2. v \in A => v \in P
    BY <1>1, <2>1 DEF Negated
  <2>3. -v \in A => v \notin P
    BY <1>1, <2>1 DEF Negated
  <2> QED BY <2>2, <2>3
<1>4. ASSUME NEW lit \in Literals(Vars)
      PROVE  ~(lit \in A /\ -lit \in A)
  <2>1. /\ lit = vidx(lit) \/ lit = -vidx(lit)
        /\ vidx(lit) \in Vars /\ -(-lit) = lit /\ -(-vidx(lit)) = vidx(lit)
    BY LiteralFacts DEF Literals
  <2> QED BY <1>3, <2>1
<1> QED BY <1>2, <1>4, TotalAssignment

(* What holds in u holds in t, on the same level and for the same reason.  *)
Remains(t, u) ==
    \A lit \in HoldsIn(u) : /\ lit \in HoldsIn(t) /\ LevelOf(u, lit) = LevelOf(t, lit)
                            /\ u.reason[vidx(lit)] = t.reason[vidx(lit)]

(* The queue matters not.                                                  *)
LEMMA SameRemains ==
    ASSUME NEW t, NEW u, u.trail = t.trail, u.level = t.level, u.reason = t.reason
    PROVE  Remains(t, u)
BY DEF Remains, HoldsIn, LevelOf

(* Backtracking only takes away.                                           *)
LEMMA BacktrackRemains ==
    ASSUME NEW t, Stack(t), NEW n \in 0..Level(t)
    PROVE  Stack(backtrack(t, n)) /\ Remains(t, backtrack(t, n))
<1>1. Level(t) \in Nat /\ t \in Stacks /\ Stack(backtrack(t, n))
  BY StackFields, BacktrackKeeps DEF Stack
<1>2. CASE n = Level(t)
  BY <1>1, <1>2, SameRemains DEF backtrack
<1>3. CASE n # Level(t)
  <2>1. n \in 0..(Level(t) - 1)
    BY <1>1, <1>3
  <2>2. PICK u : u = backtrack(t, n)
    OBVIOUS
  <2>3. Retained(t, n, u)
    BY <2>1, <2>2, BacktrackShape
  <2>4. \A lit \in HoldsIn(u) : /\ lit \in HoldsIn(t) /\ LevelOf(u, lit) = LevelOf(t, lit)
                                /\ u.reason[vidx(lit)] = t.reason[vidx(lit)]
    BY <1>1, <2>3, StackFields DEF Retained
  <2> QED BY <1>1, <2>2, <2>4 DEF Remains
<1> QED BY <1>2, <1>3

(* One after the other.                                                    *)
LEMMA RemainsTwice ==
    ASSUME NEW t, NEW u, NEW w, Remains(t, u), Remains(u, w)
    PROVE  Remains(t, w)
BY DEF Remains

(* What remains fixes nothing new.                                         *)
LEMMA ObeysRemains ==
    ASSUME NEW t, NEW u, Remains(t, u), NEW A, Obeys(t, A)
    PROVE  Obeys(u, A)
BY DEF Obeys, RootIn, Remains

(* Neither does the assignment of a literal that has to hold.              *)
LEMMA ObeysAssign ==
    ASSUME NEW t, Stack(t), NEW lit, NEW c, Assignable(t, lit, c),
           NEW A \in Assignments(Vars), Obeys(t, A),
           c = NoReason => lit \in A,
           c = NoReason \/ c = DecisionReason \/ Satisfied(c, A)
    PROVE  Obeys(search_assign(t, lit, c), A)
<1>1. t \in Stacks /\ Levels(t) /\ lit \in Literals(Vars)
  BY DEF Stack, Assignable
<1>2. PICK u : u = search_assign(t, lit, c)
  OBVIOUS
<1>3. /\ HoldsIn(u) = HoldsIn(t) \cup {lit}
      /\ LevelOf(u, lit) = LevelFor(t, lit, c) /\ u.reason[vidx(lit)] = ReasonFor(t, lit, c)
      /\ \A k \in Literals(Vars) : k \in HoldsIn(t) \/ -k \in HoldsIn(t) =>
            /\ LevelOf(u, k) = LevelOf(t, k)
            /\ u.reason[vidx(k)] = t.reason[vidx(k)]
  BY <1>1, <1>2, AssignResult
<1>4. \A k \in HoldsIn(t) : /\ LevelOf(u, k) = LevelOf(t, k)
                            /\ u.reason[vidx(k)] = t.reason[vidx(k)]
  BY <1>1, <1>3, StackFields
<1>5. LevelFor(t, lit, c) = 0 => lit \in A
  <2>1. CASE c = NoReason
    BY <2>1
  <2>2. CASE c = DecisionReason
    <3>1. Level(t) \in Nat /\ DecisionReason # NoReason
      BY <1>1, StackFields DEF DecisionReason, NoReason
    <3>2. c = DecisionReason => Level(t) > 0
      <4>1. 0 \notin Literals(Vars)
        BY LiteralFacts
      <4> QED BY <2>2, <3>1, <4>1 DEF Assignable, DecisionReason
    <3> QED BY <2>2, <3>1, <3>2 DEF LevelFor
  <2>3. CASE c # NoReason /\ c # DecisionReason
    <3>1. /\ LevelFor(t, lit, c) = assignment_level(t, lit, c)
          /\ c \in SUBSET Literals(Vars) /\ lit \in c
          /\ \A k \in c \ {lit} : -k \in HoldsIn(t)
      BY <1>1, <2>3, AssignTypes
    <3>2. \A k \in c \ {lit} : LevelOf(t, k) <= assignment_level(t, lit, c)
      BY <1>1, <3>1, AssignmentLevel
    <3>3. SUFFICES ASSUME assignment_level(t, lit, c) = 0
                   PROVE  lit \in A
      BY <3>1
    <3>4. \A k \in c \ {lit} : LevelOf(t, k) = 0 /\ LevelOf(t, -k) = 0
      BY <1>1, <3>1, <3>2, <3>3, StackFields
    <3>5. \A k \in c \ {lit} : -k \in A
      BY <3>1, <3>4 DEF Obeys, RootIn
    <3>6. \A k \in c \ {lit} : k \notin A
      BY <3>1, <3>5, AssignmentExact
    <3>7. Satisfied(c, A)
      BY <2>3
    <3> QED BY <3>6, <3>7 DEF Satisfied
  <2> QED BY <2>1, <2>2, <2>3
<1>6. RootIn(u) \subseteq A
  BY <1>3, <1>4, <1>5 DEF Obeys, RootIn
<1>7. \A k \in HoldsIn(u) : u.reason[vidx(k)] # NoReason => Satisfied(u.reason[vidx(k)], A)
  <2>1. ReasonFor(t, lit, c) # NoReason => Satisfied(ReasonFor(t, lit, c), A)
    BY DEF ReasonFor, LevelFor
  <2> QED BY <1>3, <1>4, <2>1 DEF Obeys
<1> QED BY <1>2, <1>6, <1>7 DEF Obeys

(* The literals whose negations the conflict has been traced back to: an   *)
(* assignment that obeys the stack contains one of them.                   *)
Blamed(t, a, m, A) ==
    \E k \in Lower(t, a) \cup (IF a.uip = 0 THEN OpenIn(t, a.seen, m) ELSE {-a.uip}) : k \in A

(* The only open literal is its level's unique implication point; with     *)
(* another one below it, a literal is no decision.                         *)
LEMMA OpenLiterals ==
    ASSUME NEW t, Stack(t), Level(t) > 0, NEW m \in 1..Len(t.trail), NEW a, Traced(t, a, m),
           a.uip = 0, -t.trail[m] \in a.seen, LevelOf(t, t.trail[m]) = Level(t)
    PROVE  /\ a.open = 1 => OpenIn(t, a.seen, m) = {-t.trail[m]}
           /\ a.open # 1 => t.reason[vidx(t.trail[m])] # NoReason
<1> DEFINE O == OpenIn(t, a.seen, m)
<1>1. PICK lit : lit = t.trail[m]
  OBVIOUS
<1>2. /\ t \in Stacks /\ Level(t) \in Nat /\ Len(t.trail) \in Nat /\ m \in Nat
      /\ \A i \in 1..Len(t.trail) : t.trail[i] \in Literals(Vars)
      /\ \A k \in 1..Level(t) : t.control[k] \in Nat
  BY StackFields DEF Stack
<1>3. /\ lit \in Literals(Vars) /\ -lit \in Literals(Vars) /\ -(-lit) = lit
      /\ LevelOf(t, -lit) = LevelOf(t, lit)
  BY <1>1, <1>2, LiteralFacts, StackFields
<1>4. O \in SUBSET Literals(Vars)
  BY DEF OpenIn, Traced
<1>5. IsFiniteSet(O) /\ Cardinality(O) = a.open /\ a.open \in Nat
  BY <1>4, Pairs DEF Traced
<1>6. -lit \in O
  <2>1. t.trail[m] = -(-lit) /\ m \in 1..m
    BY <1>1, <1>2, <1>3
  <2> QED BY <1>1, <1>3, <2>1 DEF OpenIn
<1>7. ASSUME a.open = 1
      PROVE  O = {-lit}
  <2>1. PICK k : O = {k}
    BY <1>5, <1>7, FS_Singleton
  <2> QED BY <1>6, <2>1
<1>8. ASSUME a.open # 1
      PROVE  t.reason[vidx(lit)] # NoReason
  <2>1. O # {-lit}
    BY <1>5, <1>8, FS_Singleton
  <2>2. PICK k \in O : k # -lit
    BY <1>6, <2>1
  <2>3. PICK j \in 1..m : t.trail[j] = -k
    BY DEF OpenIn
  <2>4. k \in Literals(Vars) /\ LevelOf(t, k) = Level(t) /\ -(-k) = k
        /\ LevelOf(t, -k) = Level(t)
    BY <1>2, <1>4, LiteralFacts, StackFields DEF OpenIn
  <2>5. j # m
    BY <1>1, <2>2, <2>3, <2>4
  <2>6. j < m /\ j \in 1..Len(t.trail) /\ LevelOf(t, t.trail[j]) = Level(t)
    BY <1>2, <2>3, <2>4, <2>5
  <2>7. Level(t) \in 1..Level(t)
    BY <1>2
  <2>8. t.control[Level(t)] < j
    BY <2>6, <2>7 DEF Stack, Levels
  <2>9. t.control[Level(t)] + 1 # m
    BY <1>2, <2>6, <2>7, <2>8
  <2> QED BY <1>1, <2>9 DEF Stack, Decisions, ReasonOf
<1> QED BY <1>1, <1>7, <1>8

(* The conflict itself is not satisfied by literals of the root level.     *)
LEMMA BlameStarts ==
    ASSUME NEW t, Stack(t), NEW c \in SUBSET Literals(Vars), Falsified(c, HoldsIn(t)),
           NEW A \in Assignments(Vars), Obeys(t, A), Satisfied(c, A)
    PROVE  Blamed(t, analyze_reason(t, [seen |-> {}, open |-> 0, uip |-> 0], c, 0),
                  Len(t.trail), A)
<1>1. PICK a : a = [seen |-> {}, open |-> 0, uip |-> 0]
  OBVIOUS
<1>2. a \in [seen : SUBSET Literals(Vars), open : Nat, uip : Int]
      /\ a.seen = {} /\ a.uip = 0
  BY <1>1
<1>3. PICK b : b = analyze_reason(t, a, c, 0)
  OBVIOUS
<1>4. Opened(t, a, c, 0, b)
  BY <1>2, <1>3, ReasonFields
<1>5. b.seen = Fresh(t, a, c, 0) /\ b.uip = 0
  BY <1>2, <1>4 DEF Opened
<1>6. PICK k \in c : k \in A
  BY DEF Satisfied
<1>7. t \in Stacks /\ Level(t) \in Nat /\ k \in Literals(Vars) /\ k # 0 /\ -k \in HoldsIn(t)
      /\ LevelOf(t, k) \in Nat /\ LevelOf(t, -k) = LevelOf(t, k)
  BY StackFields, LiteralFacts DEF Stack, Falsified, Negated
<1>8. LevelOf(t, k) # 0
  BY <1>6, <1>7, AssignmentExact DEF Obeys, RootIn
<1>9. k \in b.seen
  BY <1>2, <1>5, <1>7, <1>8 DEF Fresh
<1>10. LevelOf(t, k) <= Level(t) /\ \E j \in 1..Len(t.trail) : t.trail[j] = -k
  BY <1>7, StackFields, TrailConsistent, SMTT(20)
<1>11. k \in Lower(t, b) \cup OpenIn(t, b.seen, Len(t.trail))
  BY <1>7, <1>9, <1>10 DEF Lower, OpenIn
<1> QED BY <1>1, <1>3, <1>5, <1>6, <1>11 DEF Blamed

(* Resolving with a reason blames one of its other literals.               *)
LEMMA BlameStep ==
    ASSUME NEW t, Stack(t), Level(t) > 0, NEW m \in 1..Len(t.trail), NEW a, Traced(t, a, m),
           NEW A \in Assignments(Vars), Obeys(t, A), Blamed(t, a, m, A)
    PROVE  Blamed(t, analyze_literal(t, a, t.trail[m]), m - 1, A)
<1>1. PICK lit : lit = t.trail[m]
  OBVIOUS
<1>2. /\ t \in Stacks /\ Level(t) \in Nat /\ Len(t.trail) \in Nat /\ m \in Nat /\ m - 1 \in Nat
      /\ lit \in Literals(Vars) /\ lit # 0 /\ lit \in HoldsIn(t) /\ -lit \in Literals(Vars)
      /\ -(-lit) = lit /\ t.reason[vidx(lit)] \in SUBSET Literals(Vars)
      /\ LevelOf(t, lit) \in Nat /\ LevelOf(t, -lit) = LevelOf(t, lit)
      /\ LevelOf(t, lit) <= Level(t)
  <2>1. t \in Stacks /\ Level(t) \in Nat /\ Len(t.trail) \in Nat /\ m \in Nat /\ m - 1 \in Nat
    BY StackFields DEF Stack
  <2>2. lit \in Literals(Vars) /\ lit \in HoldsIn(t)
    BY <1>1, <2>1, StackFields
  <2>3. LevelOf(t, lit) <= Level(t)
    BY <2>1, <2>2, TrailConsistent
  <2>4. lit # 0 /\ -lit \in Literals(Vars) /\ -(-lit) = lit
    BY <2>2, LiteralFacts
  <2> QED BY <2>1, <2>2, <2>3, <2>4, StackFields
<1>3. /\ a \in [seen : SUBSET Literals(Vars), open : Nat, uip : Int]
      /\ \A k \in a.seen : /\ k \in Literals(Vars) /\ -k \in HoldsIn(t) /\ LevelOf(t, k) > 0
                           /\ LevelOf(t, k) = Level(t) \/ k \in Lower(t, a)
  <2>1. ASSUME NEW k \in a.seen
        PROVE  k \in Literals(Vars) /\ LevelOf(t, k) \in Nat /\ LevelOf(t, k) <= Level(t)
    BY <1>2, StackFields, TrailConsistent DEF Traced
  <2> QED BY <1>2, <2>1 DEF Traced, Lower
<1>4. ASSUME NEW S, S \subseteq a.seen, NEW k \in OpenIn(t, S, m), k # -lit
      PROVE  k \in OpenIn(t, S, m - 1)
  <2>1. PICK j \in 1..m : t.trail[j] = -k
    BY DEF OpenIn
  <2>2. k \in Literals(Vars) /\ -(-k) = k
    BY <1>3, <1>4, LiteralFacts DEF OpenIn
  <2>3. j # m
    BY <1>1, <1>4, <2>1, <2>2
  <2>4. j \in 1..(m - 1)
    BY <1>2, <2>3
  <2> QED BY <2>1, <2>4 DEF OpenIn
<1>5. CASE a.uip # 0
  BY <1>1, <1>5 DEF analyze_literal, Blamed
<1>6. CASE a.uip = 0 /\ (-lit \notin a.seen \/ LevelOf(t, lit) < Level(t))
  <2>1. analyze_literal(t, a, lit) = a
    BY <1>6 DEF analyze_literal
  <2>2. -lit \notin OpenIn(t, a.seen, m)
    BY <1>2, <1>6 DEF OpenIn
  <2>3. OpenIn(t, a.seen, m) \subseteq OpenIn(t, a.seen, m - 1)
    BY <1>4, <2>2
  <2> QED BY <1>1, <1>6, <2>1, <2>3 DEF Blamed
<1>7. CASE a.uip = 0 /\ -lit \in a.seen /\ ~(LevelOf(t, lit) < Level(t)) /\ a.open = 1
  <2>1. LevelOf(t, lit) = Level(t)
    BY <1>2, <1>7
  <2>2. OpenIn(t, a.seen, m) = {-lit}
    BY <1>1, <1>7, <2>1, OpenLiterals
  <2>3. PICK b : b = [a EXCEPT !.uip = lit]
    OBVIOUS
  <2>4. analyze_literal(t, a, lit) = b
    BY <1>7, <2>3 DEF analyze_literal
  <2>5. b.seen = a.seen /\ b.uip = lit
    BY <1>2, <1>3, <2>3
  <2>6. Lower(t, b) = Lower(t, a)
    BY <2>5 DEF Lower
  <2> QED BY <1>1, <1>2, <1>7, <2>2, <2>4, <2>5, <2>6 DEF Blamed
<1>8. CASE a.uip = 0 /\ -lit \in a.seen /\ ~(LevelOf(t, lit) < Level(t)) /\ a.open # 1
  <2>1. LevelOf(t, lit) = Level(t)
    BY <1>2, <1>8
  <2>2. PICK r : r = t.reason[vidx(lit)]
    OBVIOUS
  <2>3. r # NoReason /\ r \in SUBSET Literals(Vars)
    BY <1>1, <1>2, <1>8, <2>1, <2>2, OpenLiterals
  <2>4. PICK b : b = [a EXCEPT !.open = @ - 1]
    OBVIOUS
  <2>5. /\ b \in [seen : SUBSET Literals(Vars), open : Nat, uip : Int]
        /\ b.seen = a.seen /\ b.uip = 0
    <3>1. a.open - 1 \in Nat
      BY <1>3, <1>8 DEF Traced
    <3> QED BY <1>3, <1>8, <2>4, <3>1
  <2>6. PICK d : d = analyze_reason(t, b, r, lit)
    OBVIOUS
  <2>7. analyze_literal(t, a, lit) = d
    BY <1>8, <2>2, <2>4, <2>6 DEF analyze_literal
  <2>8. Opened(t, b, r, lit, d)
    BY <2>3, <2>5, <2>6, ReasonFields
  <2>9. d.seen = a.seen \cup Fresh(t, b, r, lit) /\ d.uip = 0
    BY <2>5, <2>8 DEF Opened
  <2>10. PICK k \in Lower(t, a) \cup OpenIn(t, a.seen, m) : k \in A
    BY <1>8 DEF Blamed
  <2>11. CASE k \in Lower(t, a)
    <3>1. k \in Lower(t, d)
      BY <2>9, <2>11 DEF Lower
    <3> QED BY <1>1, <2>7, <2>10, <3>1 DEF Blamed
  <2>12. CASE k \in OpenIn(t, a.seen, m) /\ k # -lit
    <3>1. k \in OpenIn(t, a.seen, m - 1)
      BY <1>4, <2>12
    <3>2. k \in OpenIn(t, d.seen, m - 1)
      BY <2>9, <3>1 DEF OpenIn
    <3> QED BY <1>1, <2>7, <2>9, <2>10, <3>2 DEF Blamed
  <2>13. CASE k = -lit
    <3>1. lit \notin A
      BY <1>2, <2>10, <2>13, AssignmentExact
    <3>2. PICK l \in r : l \in A
      BY <1>2, <2>2, <2>3 DEF Obeys, Satisfied
    <3>3. l \in r \ {lit} /\ l \in Literals(Vars)
      BY <2>3, <3>1, <3>2
    <3>4. PICK j \in 1..(m - 1) : t.trail[j] = -l
      BY <1>1, <2>2, <2>3, <3>3 DEF Stack, Reasons, ReasonOf
    <3>5. -l \in HoldsIn(t) /\ LevelOf(t, -l) = LevelOf(t, l) /\ LevelOf(t, l) \in Nat
          /\ LevelOf(t, l) <= Level(t)
      <4>1. j \in 1..Len(t.trail)
        BY <1>2
      <4>2. -l \in HoldsIn(t)
        BY <1>2, <3>4, <4>1, StackFields
      <4> QED BY <1>2, <3>3, <4>2, StackFields, TrailConsistent
    <3>6. LevelOf(t, l) # 0
      BY <3>2, <3>3, <3>5, AssignmentExact DEF Obeys, RootIn
    <3>7. l \in d.seen
      BY <2>5, <2>9, <3>3, <3>5, <3>6 DEF Fresh
    <3>8. l \in Lower(t, d) \cup OpenIn(t, d.seen, m - 1)
      BY <1>2, <3>4, <3>5, <3>7 DEF Lower, OpenIn
    <3> QED BY <1>1, <2>7, <2>9, <3>2, <3>8 DEF Blamed
  <2> QED BY <2>10, <2>11, <2>12, <2>13
<1> QED BY <1>5, <1>6, <1>7, <1>8

(* The clause that conflict analysis derives follows.                      *)
LEMMA AnalysisSound ==
    ASSUME NEW t, Stack(t), NEW c \in SUBSET Literals(Vars), Falsified(c, HoldsIn(t)),
           Level(t) > 0, \E k \in c : LevelOf(t, k) = Level(t),
           NEW A \in Assignments(Vars), Obeys(t, A), Satisfied(c, A),
           NEW a, a = Analyzed(t, c)
    PROVE  \E k \in Lower(t, a) \cup {-a.uip} : k \in A
<1> DEFINE n == Len(t.trail)
<1>1. t \in Stacks /\ n \in Nat
  BY StackFields DEF Stack
<1>2. PICK f : /\ f[0] = analyze_reason(t, [seen |-> {}, open |-> 0, uip |-> 0], c, 0)
               /\ \A i \in 1..n : f[i] = analyze_literal(t, f[i - 1], t.trail[n - i + 1])
               /\ Analyzed(t, c) = f[n]
  BY <1>1, AnalyzedRun
<1> DEFINE S == {i \in 0..n : Traced(t, f[i], n - i) /\ Blamed(t, f[i], n - i, A)}
<1>3. 0 \in S
  <2>1. n - 0 = n
    BY <1>1
  <2> QED BY <1>1, <1>2, <2>1, TraceStarts, BlameStarts
<1>4. \A i \in 1..n : i - 1 \in S => i \in S
  <2> SUFFICES ASSUME NEW i \in 1..n, i - 1 \in S
               PROVE  i \in S
    OBVIOUS
  <2>1. n - i + 1 \in 1..n /\ n - (i - 1) = n - i + 1 /\ (n - i + 1) - 1 = n - i /\ i \in 0..n
    BY <1>1
  <2>2. Traced(t, f[i - 1], n - i + 1) /\ Blamed(t, f[i - 1], n - i + 1, A)
    BY <2>1
  <2>3. /\ Traced(t, analyze_literal(t, f[i - 1], t.trail[n - i + 1]), (n - i + 1) - 1)
        /\ Blamed(t, analyze_literal(t, f[i - 1], t.trail[n - i + 1]), (n - i + 1) - 1, A)
    BY <2>1, <2>2, TraceStep, BlameStep
  <2> QED BY <1>2, <2>1, <2>3
<1>5. n \in S
  <2>1. n \in 0..n
    BY <1>1
  <2> HIDE DEF S, n
  <2> QED BY <1>1, <1>3, <1>4, <2>1, StepsReachAll
<1>6. n - n = 0 /\ OpenIn(t, a.seen, 0) = {}
  BY <1>1 DEF OpenIn
<1>7. Blamed(t, a, 0, A) /\ Traced(t, a, 0)
  BY <1>2, <1>5, <1>6
<1> QED BY <1>6, <1>7, AnalyzedFacts, LiteralFacts DEF Blamed, Traced

-----------------------------------------------------------------------------
(* What minimising a clause and explaining a failed assumption rest on.    *)

(* Covering one literal of the trail.                                      *)
Covering(t, lower, before, lit) ==
    IF LevelOf(t, lit) = 0 \/ -lit \in lower \/ CoveredBy(t, before, lower, lit)
    THEN before \cup {lit} ELSE before

(* The literals covered are collected along the trail.                     *)
LEMMA CoveredRun ==
    ASSUME NEW t \in Stacks, NEW lower
    PROVE  /\ Covered(t, lower)[0] = {}
           /\ \A i \in 1..Len(t.trail) : Covered(t, lower)[i] =
                 Covering(t, lower, Covered(t, lower)[i - 1], t.trail[i])
<1> DEFINE n == Len(t.trail)
           step(x, i) == Covering(t, lower, x, t.trail[i])
           next(f, i) == IF i = 0 THEN {} ELSE step(f[i - 1], i)
           run(m) == \E f : f = [i \in 0..m |-> next(f, i)]
           S == {m \in 0..n : run(m)}
<1>1. n \in Nat
  BY StackFields
<1>2. 0 \in S
  <2> HIDE DEF step
  <2> DEFINE f == [i \in 0..0 |-> {}]
  <2>1. \A i \in 0..0 : next(f, i) = {}
    OBVIOUS
  <2>2. f = [i \in 0..0 |-> next(f, i)]
    BY <2>1
  <2> HIDE DEF next, f
  <2> QED BY <1>1, <2>2
<1>3. ASSUME NEW m \in 1..n, m - 1 \in S
      PROVE  m \in S
  <2> HIDE DEF step
  <2>1. PICK f : f = [i \in 0..(m - 1) |-> next(f, i)]
    BY <1>3
  <2> DEFINE g == [i \in 0..m |-> IF i = m THEN step(f[m - 1], m) ELSE f[i]]
  <2>2. ASSUME NEW i \in 0..m
        PROVE  g[i] = next(g, i)
    <3>1. CASE i = 0
      <4>1. i \in 0..(m - 1) /\ i # m
        BY <1>1, <3>1
      <4>2. g[i] = f[i] /\ f[i] = next(f, i)
        BY <2>1, <4>1
      <4> QED BY <3>1, <4>2
    <3>2. CASE i # 0 /\ i # m
      <4>1. i \in 0..(m - 1) /\ i - 1 \in 0..m /\ i - 1 # m
        BY <1>1, <3>2
      <4>2. g[i] = f[i] /\ g[i - 1] = f[i - 1] /\ f[i] = next(f, i)
        BY <2>1, <3>2, <4>1
      <4> QED BY <3>2, <4>2
    <3>3. CASE i = m
      <4>1. i # 0 /\ i - 1 \in 0..m /\ i - 1 # m
        BY <1>1, <3>3
      <4>2. g[i] = step(f[m - 1], m) /\ g[i - 1] = f[i - 1]
        BY <3>3, <4>1
      <4> QED BY <3>3, <4>1, <4>2
    <3> QED BY <3>1, <3>2, <3>3
  <2>3. g = [i \in 0..m |-> next(g, i)]
    BY <2>2
  <2>4. m \in 0..n
    BY <1>1
  <2> HIDE DEF next, g
  <2> QED BY <2>3, <2>4
<1>4. run(n)
  <2>1. n \in 0..n
    BY <1>1
  <2>2. \A i \in 0..n : i \in S
    <3> HIDE DEF S, n
    <3> QED BY <1>1, <1>2, <1>3, StepsReachAll
  <2> HIDE DEF run
  <2> QED BY <2>1, <2>2
<1> DEFINE a == CHOOSE f : f = [i \in 0..n |-> next(f, i)]
<1>5. a = [i \in 0..n |-> next(a, i)]
  <2> HIDE DEF step, next
  <2> QED BY <1>4
<1>6. Covered(t, lower) = a
  BY DEF Covered, Covering
<1> HIDE DEF a
<1>7. a[0] = {} /\ \A i \in 1..n : a[i] = step(a[i - 1], i)
  <2> HIDE DEF step
  <2>1. \A i \in 0..n : a[i] = next(a, i)
    BY <1>5
  <2> QED BY <1>1, <2>1
<1> QED BY <1>6, <1>7

(* A literal whose reason is covered by literals that hold has to hold.    *)
LEMMA CoveredHolds ==
    ASSUME NEW t, Stack(t), NEW A \in Assignments(Vars), Obeys(t, A),
           NEW lit \in HoldsIn(t), NEW C, C \subseteq A, NEW lower, CoveredBy(t, C, lower, lit)
    PROVE  lit \in A
<1>1. PICK r : r = t.reason[vidx(lit)]
  OBVIOUS
<1>2. lit \in Literals(Vars) /\ r \in SUBSET Literals(Vars)
  BY <1>1, StackFields DEF Stack
<1>3. r # NoReason /\ Negated(r \ {lit}) \subseteq A
  BY <1>1 DEF CoveredBy
<1>4. PICK k \in r : k \in A
  BY <1>1, <1>3 DEF Obeys, Satisfied
<1>5. k # lit => -k \in A
  BY <1>3, <1>4 DEF Negated
<1> QED BY <1>2, <1>4, <1>5, AssignmentExact

(* A literal that is covered is false when all that are left are.          *)
LEMMA MinimizeSound ==
    ASSUME NEW t, Stack(t), NEW lower \in SUBSET Literals(Vars),
           \A k \in lower : -k \in HoldsIn(t),
           NEW A \in Assignments(Vars), Obeys(t, A), NEW k \in lower, k \in A
    PROVE  \E l \in minimize_clause(t, lower) : l \in A
<1> DEFINE n == Len(t.trail)
           f == Covered(t, lower)
<1>1. SUFFICES ASSUME \A l \in minimize_clause(t, lower) : l \notin A
               PROVE  FALSE
  OBVIOUS
<1>2. /\ t \in Stacks /\ n \in Nat
      /\ \A i \in 1..n : t.trail[i] \in Literals(Vars) /\ t.trail[i] \in HoldsIn(t)
  BY StackFields DEF Stack
<1>3. f[0] = {} /\ \A i \in 1..n : f[i] = Covering(t, lower, f[i - 1], t.trail[i])
  BY <1>2, CoveredRun
<1> HIDE DEF f
<1>4. ASSUME NEW i \in 1..n, NEW l \in lower, -l = t.trail[i]
      PROVE  TrailPlace(t, l) = i
  <2>1. DOMAIN t.trail = 1..n
    BY <1>2, StackFields, LenProperties
  <2>2. \A j \in 1..n : vidx(t.trail[j]) = vidx(l) <=> j = i
    BY <1>4, LiteralFacts DEF Stack, Single
  <2> QED BY <2>1, <2>2 DEF TrailPlace
<1>5. ASSUME NEW i \in 1..n, f[i - 1] \subseteq A, NEW l \in lower, -l = t.trail[i]
      PROVE  -l \in A
  <2>1. CASE l \in minimize_clause(t, lower)
    BY <1>1, <2>1, AssignmentExact
  <2>2. CASE l \notin minimize_clause(t, lower)
    <3>1. CoveredBy(t, f[i - 1], lower, -l)
      BY <1>4, <1>5, <2>2 DEF minimize_clause, f
    <3> QED BY <1>2, <1>5, <3>1, CoveredHolds
  <2> QED BY <2>1, <2>2
<1> DEFINE S == {i \in 0..n : f[i] \subseteq A}
<1>6. 0 \in S
  BY <1>2, <1>3
<1>7. \A i \in 1..n : i - 1 \in S => i \in S
  <2> SUFFICES ASSUME NEW i \in 1..n, f[i - 1] \subseteq A
               PROVE  f[i] \subseteq A
    BY <1>2
  <2>1. PICK lit : lit = t.trail[i]
    OBVIOUS
  <2>2. lit \in Literals(Vars) /\ lit \in HoldsIn(t) /\ -(-lit) = lit
    BY <1>2, <2>1, LiteralFacts
  <2>3. CASE LevelOf(t, lit) = 0
    <3>1. lit \in A
      BY <2>2, <2>3 DEF Obeys, RootIn
    <3> QED BY <1>3, <2>1, <3>1 DEF Covering
  <2>4. CASE -lit \in lower
    <3>1. lit \in A
      BY <1>5, <2>1, <2>2, <2>4
    <3> QED BY <1>3, <2>1, <3>1 DEF Covering
  <2>5. CASE CoveredBy(t, f[i - 1], lower, lit)
    <3>1. lit \in A
      BY <2>2, <2>5, CoveredHolds
    <3> QED BY <1>3, <2>1, <3>1 DEF Covering
  <2>6. CASE ~(LevelOf(t, lit) = 0 \/ -lit \in lower \/ CoveredBy(t, f[i - 1], lower, lit))
    BY <1>3, <2>1, <2>6 DEF Covering
  <2> QED BY <2>3, <2>4, <2>5, <2>6
<1>8. \A i \in 0..n : i \in S
  <2> HIDE DEF S, n
  <2> QED BY <1>2, <1>6, <1>7, StepsReachAll
<1>9. PICK i \in 1..n : t.trail[i] = -k
  BY <1>2, StackFields
<1>10. i - 1 \in 0..n
  BY <1>2
<1>11. f[i - 1] \subseteq A
  BY <1>8, <1>10
<1>12. -k \in A
  BY <1>5, <1>9, <1>11
<1> QED BY <1>12, AssignmentExact

(* The literals one literal of the trail rests on.                         *)
Resting(t, before, lit) ==
    IF lit \in before /\ LevelOf(t, lit) > 0
    THEN before \cup Negated(t.reason[vidx(lit)] \ {lit}) ELSE before

(* They are collected from the end of the trail.                           *)
LEMMA BecauseRun ==
    ASSUME NEW t \in Stacks, NEW seen
    PROVE  LET n == Len(t.trail) IN
           \E a : /\ a[0] = seen
                  /\ \A i \in 1..n : a[i] = Resting(t, a[i - 1], t.trail[n - i + 1])
                  /\ Because(t, seen) = a[n]
<1> DEFINE n == Len(t.trail)
           step(x, i) == Resting(t, x, t.trail[n - i + 1])
           next(f, i) == IF i = 0 THEN seen ELSE step(f[i - 1], i)
           run(m) == \E f : f = [i \in 0..m |-> next(f, i)]
           S == {m \in 0..n : run(m)}
<1>1. n \in Nat
  BY StackFields
<1>2. 0 \in S
  <2> HIDE DEF step
  <2> DEFINE f == [i \in 0..0 |-> seen]
  <2>1. \A i \in 0..0 : next(f, i) = seen
    OBVIOUS
  <2>2. f = [i \in 0..0 |-> next(f, i)]
    BY <2>1
  <2> HIDE DEF next, f
  <2> QED BY <1>1, <2>2
<1>3. ASSUME NEW m \in 1..n, m - 1 \in S
      PROVE  m \in S
  <2> HIDE DEF step
  <2>1. PICK f : f = [i \in 0..(m - 1) |-> next(f, i)]
    BY <1>3
  <2> DEFINE g == [i \in 0..m |-> IF i = m THEN step(f[m - 1], m) ELSE f[i]]
  <2>2. ASSUME NEW i \in 0..m
        PROVE  g[i] = next(g, i)
    <3>1. CASE i = 0
      <4>1. i \in 0..(m - 1) /\ i # m
        BY <1>1, <3>1
      <4>2. g[i] = f[i] /\ f[i] = next(f, i)
        BY <2>1, <4>1
      <4> QED BY <3>1, <4>2
    <3>2. CASE i # 0 /\ i # m
      <4>1. i \in 0..(m - 1) /\ i - 1 \in 0..m /\ i - 1 # m
        BY <1>1, <3>2
      <4>2. g[i] = f[i] /\ g[i - 1] = f[i - 1] /\ f[i] = next(f, i)
        BY <2>1, <3>2, <4>1
      <4> QED BY <3>2, <4>2
    <3>3. CASE i = m
      <4>1. i # 0 /\ i - 1 \in 0..m /\ i - 1 # m
        BY <1>1, <3>3
      <4>2. g[i] = step(f[m - 1], m) /\ g[i - 1] = f[i - 1]
        BY <3>3, <4>1
      <4> QED BY <3>3, <4>1, <4>2
    <3> QED BY <3>1, <3>2, <3>3
  <2>3. g = [i \in 0..m |-> next(g, i)]
    BY <2>2
  <2>4. m \in 0..n
    BY <1>1
  <2> HIDE DEF next, g
  <2> QED BY <2>3, <2>4
<1>4. run(n)
  <2>1. n \in 0..n
    BY <1>1
  <2>2. \A i \in 0..n : i \in S
    <3> HIDE DEF S, n
    <3> QED BY <1>1, <1>2, <1>3, StepsReachAll
  <2> HIDE DEF run
  <2> QED BY <2>1, <2>2
<1> DEFINE a == CHOOSE f : f = [i \in 0..n |-> next(f, i)]
<1>5. a = [i \in 0..n |-> next(a, i)]
  <2> HIDE DEF step, next
  <2> QED BY <1>4
<1>6. Because(t, seen) = a[n]
  BY DEF Because, Resting
<1> HIDE DEF a
<1>7. a[0] = seen /\ \A i \in 1..n : a[i] = step(a[i - 1], i)
  <2> HIDE DEF step
  <2>1. \A i \in 0..n : a[i] = next(a, i)
    BY <1>5
  <2> QED BY <1>1, <2>1
<1> QED BY <1>6, <1>7

(* What is still to be explained: decisions, root level literals, and those *)
(* among the first m of the trail.                                         *)
Unexplained(t, B, m) ==
    {k \in B : \/ LevelOf(t, k) = 0 \/ t.reason[vidx(k)] = NoReason
               \/ \E j \in 1..m : t.trail[j] = k}

Explained(t, B, m, A) == B \subseteq HoldsIn(t) /\ Unexplained(t, B, m) \subseteq A

(* Explaining one literal by its reason.                                   *)
LEMMA ExplainStep ==
    ASSUME NEW t, Stack(t), NEW m \in 1..Len(t.trail), NEW B, B \subseteq HoldsIn(t),
           NEW C, C = Resting(t, B, t.trail[m]), NEW A \in Assignments(Vars), Obeys(t, A)
    PROVE  /\ C \subseteq HoldsIn(t)
           /\ Explained(t, C, m - 1, A) => Explained(t, B, m, A)
<1>1. PICK lit : lit = t.trail[m]
  OBVIOUS
<1>2. PICK r : r = t.reason[vidx(lit)]
  OBVIOUS
<1>3. /\ t \in Stacks /\ Len(t.trail) \in Nat /\ m \in Nat
      /\ lit \in Literals(Vars) /\ r \in SUBSET Literals(Vars)
  <2>1. t \in Stacks /\ Len(t.trail) \in Nat /\ m \in Nat /\ lit \in Literals(Vars)
    BY <1>1, StackFields DEF Stack
  <2> QED BY <1>2, <2>1, StackFields
<1>4. ASSUME NEW k \in r \ {lit}
      PROVE  -k \in HoldsIn(t) /\ \E j \in 1..(m - 1) : t.trail[j] = -k
  <2>1. \E j \in 1..(m - 1) : t.trail[j] = -k
    BY <1>1, <1>2 DEF Stack, Reasons, ReasonOf, NoReason
  <2>2. \A j \in 1..(m - 1) : j \in 1..Len(t.trail)
    BY <1>3
  <2> QED BY <1>3, <2>1, <2>2, StackFields
<1>5. C \subseteq HoldsIn(t) /\ B \subseteq C
  BY <1>1, <1>2, <1>4 DEF Resting, Negated
<1>6. ASSUME Unexplained(t, C, m - 1) \subseteq A, NEW x \in Unexplained(t, B, m)
      PROVE  x \in A
  <2>1. CASE x \in Unexplained(t, C, m - 1)
    BY <1>6, <2>1
  <2>2. CASE x \notin Unexplained(t, C, m - 1)
    <3>1. x \in B /\ x \in C
      BY <1>5 DEF Unexplained
    <3>2. LevelOf(t, x) # 0 /\ t.reason[vidx(x)] # NoReason
          /\ ~(\E j \in 1..(m - 1) : t.trail[j] = x)
      BY <2>2, <3>1 DEF Unexplained
    <3>3. PICK j \in 1..m : t.trail[j] = x
      BY <3>2 DEF Unexplained
    <3>4. j = m
      BY <1>3, <3>2, <3>3
    <3>5. x = lit
      BY <1>1, <3>3, <3>4
    <3>6. LevelOf(t, lit) > 0 /\ lit \in B /\ lit \in HoldsIn(t)
      BY <1>3, <3>1, <3>2, <3>5, StackFields
    <3>7. C = B \cup Negated(r \ {lit})
      BY <1>1, <1>2, <3>6 DEF Resting
    <3>8. \A k \in r \ {lit} : -k \in A
      BY <1>4, <1>6, <3>7 DEF Unexplained, Negated
    <3>9. PICK k \in r : k \in A
      BY <1>2, <3>2, <3>5, <3>6 DEF Obeys, Satisfied
    <3>10. k = lit
      BY <1>3, <3>8, <3>9, AssignmentExact
    <3> QED BY <3>5, <3>9, <3>10
  <2> QED BY <2>1, <2>2
<1> QED BY <1>5, <1>6 DEF Explained

(* What holds, holds because of the decisions it is traced back to.        *)
LEMMA BecauseSound ==
    ASSUME NEW t, Stack(t), NEW lit \in HoldsIn(t), NEW A \in Assignments(Vars), Obeys(t, A),
           \A k \in HoldsIn(t) : /\ k \in Because(t, {lit}) /\ LevelOf(t, k) > 0
                                 /\ t.reason[vidx(k)] = NoReason
                                 => k \in A
    PROVE  lit \in A
<1> DEFINE n == Len(t.trail)
<1>1. /\ t \in Stacks /\ n \in Nat /\ HoldsIn(t) = {t.trail[i] : i \in 1..n}
      /\ \A k \in HoldsIn(t) : LevelOf(t, k) \in Nat
  BY StackFields DEF Stack
<1>2. PICK f : /\ f[0] = {lit}
               /\ \A i \in 1..n : f[i] = Resting(t, f[i - 1], t.trail[n - i + 1])
               /\ Because(t, {lit}) = f[n]
  BY <1>1, BecauseRun
<1> DEFINE S == {i \in 0..n : f[i] \subseteq HoldsIn(t) /\ (Explained(t, f[i], n - i, A) => lit \in A)}
<1>3. 0 \in S
  <2>1. lit \in Unexplained(t, {lit}, n)
    BY <1>1 DEF Unexplained
  <2>2. n - 0 = n /\ 0 \in 0..n
    BY <1>1
  <2> QED BY <1>2, <2>1, <2>2 DEF Explained
<1>4. \A i \in 1..n : i - 1 \in S => i \in S
  <2> SUFFICES ASSUME NEW i \in 1..n, i - 1 \in S
               PROVE  i \in S
    OBVIOUS
  <2>1. PICK m : m = n - i + 1
    OBVIOUS
  <2>2. m \in 1..n /\ n - (i - 1) = m /\ m - 1 = n - i /\ i \in 0..n
    BY <1>1, <2>1
  <2>3. f[i - 1] \subseteq HoldsIn(t) /\ f[i] = Resting(t, f[i - 1], t.trail[m])
    BY <1>2, <2>1
  <2>4. f[i] \subseteq HoldsIn(t)
        /\ (Explained(t, f[i], m - 1, A) => Explained(t, f[i - 1], m, A))
    <3> HIDE DEF S
    <3> QED BY <2>2, <2>3, ExplainStep
  <2> QED BY <2>2, <2>4
<1>5. n \in S
  <2>1. n \in 0..n
    BY <1>1
  <2> HIDE DEF S, n
  <2> QED BY <1>1, <1>3, <1>4, <2>1, StepsReachAll
<1>6. n - n = 0 /\ f[n] \subseteq HoldsIn(t)
  BY <1>1, <1>5
<1>7. Unexplained(t, f[n], 0) \subseteq A
  <2> SUFFICES ASSUME NEW k \in Unexplained(t, f[n], 0)
               PROVE  k \in A
    OBVIOUS
  <2>1. k \in f[n] /\ k \in HoldsIn(t) /\ (LevelOf(t, k) = 0 \/ t.reason[vidx(k)] = NoReason)
    BY <1>6 DEF Unexplained
  <2> QED BY <1>1, <1>2, <2>1 DEF Obeys, RootIn
<1> QED BY <1>5, <1>6, <1>7 DEF Explained

-----------------------------------------------------------------------------
(* How the stack moves: what is derived follows.                           *)

(* The literal has to hold, or has a reason that does, in every assignment *)
(* that nothing derived so far rules out.                                  *)
Due(lit, c) ==
    \A A \in Models(formula', Vars) : Fits(A) =>
        (c = NoReason => lit \in A) /\ (c = NoReason \/ Satisfied(c, A))

(* A step derives a literal, decides one, or flushes the reasons.          *)
Derives ==
    \E u, lit, c : /\ Stack(u) /\ Remains(s, u) /\ Assignable(u, lit, c)
                   /\ c # DecisionReason /\ Due(lit, c) /\ s' = search_assign(u, lit, c)

Decides ==
    \E u, lit : /\ Stack(u) /\ Remains(s, u) /\ Level(u) = Level(s) + 1
                /\ Assignable(u, lit, DecisionReason)
                /\ s' = search_assign(u, lit, DecisionReason)
                /\ Level(s) < Len(assumptions) => lit = assumptions[Level(s) + 1]

Flushes == s' = [s EXCEPT !.reason = [v \in Vars |-> @[v] \ Negated(Root)]]

(* A model is an assignment.                                               *)
LEMMA ModelsAssign ==
    ASSUME NEW F, NEW A \in Models(F, Vars)
    PROVE  A \in Assignments(Vars) /\ \A c \in F : Satisfied(c, A)
BY DEF Models

(* The next level is opened for nothing new or for a decision.             *)
LEMMA DecidedMoves ==
    ASSUME Stack(s), Settled, NEW P, Decided(P)
    PROVE  Remains(s, s') \/ Decides
<1>1. s.propagated = Len(s.trail) /\ s \in Stacks
  BY DEF Settled, Propagated, Stack
<1>2. CASE s' = [s EXCEPT !.control = Append(@, Len(s.trail))]
  <2>1. s'.trail = s.trail /\ s'.level = s.level /\ s'.reason = s.reason
    BY <1>1, <1>2, OpenKeeps
  <2> QED BY <2>1, SameRemains
<1>3. CASE \E t : \E lit \in Literals(Vars) :
              /\ Stack(t) /\ SameStack(s, t) /\ vidx(lit) \in Free(s)
              /\ s' = search_assume_decision(t, lit)
              /\ Level(s) < Len(assumptions) => lit = assumptions[Level(s) + 1]
  <2>1. PICK t, lit : /\ lit \in Literals(Vars)
                      /\ Stack(t) /\ SameStack(s, t) /\ vidx(lit) \in Free(s)
                      /\ s' = search_assume_decision(t, lit)
                      /\ Level(s) < Len(assumptions) => lit = assumptions[Level(s) + 1]
    BY <1>3
  <2>2. PICK u : u = [t EXCEPT !.control = Append(@, Len(t.trail))]
    OBVIOUS
  <2>3. /\ t.trail = s.trail /\ t.level = s.level /\ t.reason = s.reason
        /\ t.propagated = Len(t.trail) /\ Level(t) = Level(s) /\ Free(t) = Free(s)
    BY <1>1, <2>1 DEF SameStack, Level, Free, HoldsIn
  <2>4. /\ Stack(u) /\ Level(u) = Level(t) + 1 /\ u.control[Level(u)] = Len(u.trail)
        /\ u.trail = t.trail /\ u.level = t.level /\ u.reason = t.reason /\ Free(u) = Free(t)
    BY <2>1, <2>2, <2>3, OpenKeeps
  <2>5. Remains(s, u)
    BY <2>3, <2>4, SameRemains
  <2>6. Assignable(u, lit, DecisionReason)
    <3>1. Level(t) \in Nat
      BY <2>1, StackFields DEF Stack
    <3>2. Level(u) > 0
      BY <2>4, <3>1
    <3> QED BY <2>1, <2>3, <2>4, <3>2 DEF Assignable
  <2>7. s' = search_assign(u, lit, DecisionReason)
    BY <2>1, <2>2 DEF search_assume_decision
  <2> QED BY <2>1, <2>3, <2>4, <2>5, <2>6, <2>7 DEF Decides
<1> QED BY <1>2, <1>3 DEF Decided

(* Cutting back only takes away.                                           *)
LEMMA CutBackMoves ==
    ASSUME NEW n, CutBack(n)
    PROVE  Remains(s, s')
<1>1. PICK t : Stack(t) /\ SameStack(s, t) /\ s' = backtrack(t, n)
  BY DEF CutBack
<1>2. n \in 0..Level(t) /\ Remains(s, t)
  BY <1>1, SameRemains DEF SameStack, Level, CutBack
<1> QED BY <1>1, <1>2, BacktrackRemains, RemainsTwice

(* A clause of the solver is a reason that holds.                          *)
LEMMA ClauseDue ==
    ASSUME NEW c \in Clauses, c # NoReason, NEW lit
    PROVE  Due(lit, c)
BY DEF Due, Fits

(* A step of propagation derives at most one literal.                      *)
LEMMA PropagateMoves ==
    ASSUME Core, propagate
    PROVE  Remains(s, s') \/ Derives
<1>1. s \in Stacks /\ Stack(s)
  BY DEF Core, Stack
<1>2. CASE Moves \/ Clashes
  BY <1>2, SameRemains DEF Moves, SameTrails, Clashes
<1>3. CASE Forces
  <2>1. PICK c \in Clauses : \E lit \in c :
           /\ Assignable(s, lit, c) /\ c # NoReason /\ c # DecisionReason
           /\ s' = search_assign(s, lit, c)
    BY <1>3 DEF Forces
  <2> QED BY <1>1, <2>1, SameRemains, ClauseDue DEF Derives
<1> QED BY <1>2, <1>3, PropagateShape

(* So does a conflict that forces a literal.                               *)
LEMMA ForcedMoves ==
    ASSUME Core, Propagated, conflict # NoConflict, AnalyzeForced
    PROVE  Derives
<1>1. PICK lit \in forced(s, conflict), W \in RewatchedPairs(s, conflict) :
         s' = search_assign(backtrack(s, conflict_level(s, conflict) - 1), lit, conflict)
  BY DEF AnalyzeForced
<1>2. conflict_level(s, conflict) > 0
  BY DEF AnalyzeForced
<1>3. PICK u : u = backtrack(s, conflict_level(s, conflict) - 1)
  OBVIOUS
<1>4. /\ Stack(s) /\ conflict \in Clauses /\ conflict \in SUBSET Literals(Vars)
      /\ Level(s) \in Nat /\ conflict_level(s, conflict) \in 0..Level(s)
  BY ConflictFacts
<1>5. Assignable(u, lit, conflict)
  BY <1>2, <1>3, ForcedLiteral
<1>6. Stack(u) /\ Remains(s, u)
  <2>1. conflict_level(s, conflict) - 1 \in 0..Level(s)
    BY <1>2, <1>4
  <2> QED BY <1>3, <1>4, <2>1, BacktrackRemains
<1>7. conflict # NoReason /\ conflict # DecisionReason
  <2>1. 0 \notin Literals(Vars)
    BY LiteralFacts
  <2> QED BY <1>4, <2>1 DEF NoReason, NoConflict, DecisionReason
<1> QED BY <1>1, <1>3, <1>4, <1>5, <1>6, <1>7, ClauseDue DEF Derives

(* The learned clause holds in every assignment that nothing rules out.    *)
LEMMA LearnedHolds ==
    ASSUME Core, Propagated, conflict # NoConflict,
           NEW t, NEW a, NEW lower, NEW b, NEW n, NEW u, NEW W,
           Learns(t, a, lower, b, n, u, W), NEW A \in Assignments(Vars), Fits(A)
    PROVE  Satisfied({-a.uip} \cup lower, A)
<1>1. /\ Stack(s) /\ conflict \in Clauses /\ conflict \in SUBSET Literals(Vars)
      /\ conflict_level(s, conflict) \in 0..Level(s)
      /\ \E k \in conflict : LevelOf(s, k) = conflict_level(s, conflict)
  BY ConflictFacts, ConflictLevel
<1>2. /\ t = backtrack(s, conflict_level(s, conflict)) /\ Stack(t)
      /\ Level(t) = conflict_level(s, conflict) /\ Level(t) > 0
      /\ Falsified(conflict, HoldsIn(t)) /\ \A k \in conflict : LevelOf(t, k) = LevelOf(s, k)
  BY DEF Learns
<1>3. /\ a = Analyzed(t, conflict) /\ Lower(t, a) \in SUBSET Literals(Vars)
      /\ \A k \in Lower(t, a) : -k \in HoldsIn(t)
      /\ lower = minimize_clause(t, Lower(t, a))
  BY DEF Learns
<1>4. Obeys(t, A) /\ Satisfied(conflict, A)
  <2>1. Obeys(s, A) /\ Satisfied(conflict, A)
    BY <1>1 DEF Fits
  <2> QED BY <1>1, <1>2, <2>1, BacktrackRemains, ObeysRemains
<1>5. \E k \in conflict : LevelOf(t, k) = Level(t)
  BY <1>1, <1>2
<1>6. PICK k \in Lower(t, a) \cup {-a.uip} : k \in A
  BY <1>1, <1>2, <1>3, <1>4, <1>5, AnalysisSound
<1>7. CASE k = -a.uip
  BY <1>6, <1>7 DEF Satisfied
<1>8. CASE k \in Lower(t, a)
  <2>1. \E l \in minimize_clause(t, Lower(t, a)) : l \in A
    BY <1>2, <1>3, <1>4, <1>6, <1>8, MinimizeSound
  <2> QED BY <1>3, <2>1 DEF Satisfied
<1> QED BY <1>6, <1>7, <1>8

(* A conflict that teaches a clause derives the flipped literal.           *)
LEMMA LearnedMoves ==
    ASSUME Core, Propagated, conflict # NoConflict, ~unsat, AnalyzeLearn
    PROVE  /\ Derives
           /\ \A A \in Assignments(Vars) : Fits(A) => \A c \in redundant' : Satisfied(c, A)
<1>1. PICK t, a, lower, b, n, u, W : Learns(t, a, lower, b, n, u, W)
  BY LearnShape
<1>2. PICK c : c = {-a.uip} \cup lower
  OBVIOUS
<1>3. \A A \in Assignments(Vars) : Fits(A) => Satisfied(c, A)
  BY <1>1, <1>2, LearnedHolds
<1>4. /\ Stack(s) /\ Level(s) \in Nat /\ conflict_level(s, conflict) \in 0..Level(s)
  BY ConflictFacts
<1>5. Remains(s, t) /\ Remains(t, b) /\ Stack(b)
  BY <1>1, <1>4, BacktrackRemains, SameRemains DEF Learns, SameStack
<1>6. Stack(u) /\ Remains(b, u)
  <2>1. n \in 0..(Level(b) - 1) /\ u = backtrack(b, n) /\ Level(b) \in Nat
    BY <1>1, <1>5, StackFields DEF Learns, Stack
  <2>2. n \in 0..Level(b)
    BY <2>1
  <2> QED BY <1>5, <2>1, <2>2, BacktrackRemains
<1>7. Remains(s, u)
  BY <1>5, <1>6, RemainsTwice
<1>8. /\ Assignable(u, -a.uip, c) /\ Assignable(u, -a.uip, NoReason)
      /\ -a.uip \in Literals(Vars)
  BY <1>1, <1>2 DEF Learns, FlipAt
<1>9. /\ s' = search_assign(u, -a.uip, IF lower = {} THEN NoReason ELSE c)
      /\ redundant' = IF lower = {} THEN redundant
                      ELSE eagerly_subsume(redundant, c) \cup ({c} \ irredundant)
  BY <1>1, <1>2 DEF Learns
<1>10. PICK r : r = IF lower = {} THEN NoReason ELSE c
  OBVIOUS
<1>11. r # DecisionReason
  <2>1. 0 \notin Literals(Vars)
    BY LiteralFacts
  <2> QED BY <1>2, <1>8, <1>10, <2>1 DEF NoReason, DecisionReason
<1>12. Due(-a.uip, r)
  <2> SUFFICES ASSUME NEW A \in Models(formula', Vars), Fits(A)
               PROVE  (r = NoReason => -a.uip \in A) /\ (r = NoReason \/ Satisfied(r, A))
    BY DEF Due
  <2>1. Satisfied(c, A)
    BY <1>3, ModelsAssign
  <2>2. lower = {} => -a.uip \in A
    BY <1>2, <2>1 DEF Satisfied
  <2>3. lower # {} => r = c /\ c # NoReason
    BY <1>2, <1>10 DEF NoReason
  <2> QED BY <1>10, <2>1, <2>2, <2>3
<1>13. Assignable(u, -a.uip, r) /\ s' = search_assign(u, -a.uip, r)
  BY <1>8, <1>9, <1>10
<1>14. Derives
  BY <1>6, <1>7, <1>11, <1>12, <1>13 DEF Derives
<1>15. ASSUME NEW A \in Assignments(Vars), Fits(A), NEW d \in redundant'
       PROVE  Satisfied(d, A)
  <2>1. d \in redundant \/ d = c
    BY <1>9 DEF eagerly_subsume
  <2> QED BY <1>3, <1>15, <2>1 DEF Fits, Clauses
<1> QED BY <1>14, <1>15

(* What is left of an added clause holds wherever the clause does.         *)
LEMMA AddedHolds ==
    ASSUME NEW q, NEW d, NEW c, Shortened(q, d, c),
           NEW A \in Assignments(Vars), Obeys(s, A), Satisfied(ToSet(q), A)
    PROVE  Satisfied(c, A)
<1>1. /\ c = {lit \in ToSet(q) : -lit \notin Root} /\ ToSet(q) \in SUBSET Literals(Vars)
      /\ Root \subseteq A
  BY DEF Shortened, Obeys, Root
<1>2. PICK lit \in ToSet(q) : lit \in A
  BY DEF Satisfied
<1>3. -lit \notin Root
  BY <1>1, <1>2, AssignmentExact
<1> QED BY <1>1, <1>2, <1>3 DEF Satisfied

(* Adding a clause derives at most its unit, and nothing else.             *)
LEMMA AddedMoves ==
    ASSUME Stack(s), Level(s) = 0, input \in Seq(Seq(Literals(Vars))), AddClause
    PROVE  /\ Remains(s, s') \/ Derives
           /\ \A A \in Models(formula', Vars) : Fits(A) =>
                 ~unsat' /\ \A c \in Clauses' : Satisfied(c, A)
<1>1. PICK q, d, c : /\ q = Head(input) /\ c = ToSet(d)
                     /\ d = Subsequence(q, {i \in FirstOccurrences(q) : -q[i] \notin Root})
  OBVIOUS
<1> DEFINE skip == unsat \/ Tautological(ToSet(q)) \/ Satisfied(ToSet(q), Root)
           unit == ~skip /\ Cardinality(c) = 1
<1>2. /\ input # <<>> /\ formula' = formula \cup {ToSet(q)}
      /\ unsat' = (unsat \/ (~skip /\ c = {}))
      /\ s' = IF unit THEN search_assign(s, d[1], NoReason) ELSE s
      /\ IF skip \/ Cardinality(c) < 2 THEN UNCHANGED clauseVars
         ELSE irredundant' = irredundant \cup {c} /\ redundant' = redundant \ {c}
  BY <1>1 DEF AddClause
<1>3. Shortened(q, d, c)
  BY <1>1, <1>2, ShortenedClause
<1>4. ~skip => ~Satisfied(ToSet(q), Root)
  OBVIOUS
<1> HIDE DEF skip
<1>5. ASSUME NEW A \in Models(formula', Vars), Fits(A)
      PROVE  Satisfied(c, A)
  <2>1. A \in Assignments(Vars) /\ Satisfied(ToSet(q), A) /\ Obeys(s, A)
    BY <1>2, <1>5, ModelsAssign DEF Fits
  <2> QED BY <1>3, <2>1, AddedHolds
<1>6. ASSUME unit
      PROVE  Derives
  <2>1. c = {d[1]} /\ d[1] \in Literals(Vars) /\ vidx(d[1]) \in Free(s)
    BY <1>3, <1>4, <1>6 DEF Shortened
  <2>2. Assignable(s, d[1], NoReason) /\ s' = search_assign(s, d[1], NoReason)
    BY <1>2, <1>6, <2>1 DEF Assignable
  <2>3. Due(d[1], NoReason)
    BY <1>5, <2>1 DEF Due, Satisfied
  <2>4. Remains(s, s) /\ NoReason # DecisionReason
    BY SameRemains DEF NoReason, DecisionReason
  <2> QED BY <2>2, <2>3, <2>4 DEF Derives
<1>7. ASSUME ~unit
      PROVE  Remains(s, s')
  <2>1. s' = s
    BY <1>2, <1>7
  <2> QED BY <2>1, SameRemains
<1>8. ASSUME NEW A \in Models(formula', Vars), Fits(A)
      PROVE  ~unsat' /\ \A e \in Clauses' : Satisfied(e, A)
  <2>1. Satisfied(c, A) /\ ~unsat
    BY <1>5, <1>8 DEF Fits
  <2>2. c # {}
    BY <2>1 DEF Satisfied
  <2>3. \A e \in Clauses' : e \in Clauses \/ e = c
    BY <1>2 DEF Clauses, clauseVars
  <2> QED BY <1>2, <1>8, <2>1, <2>2, <2>3 DEF Fits
<1> QED BY <1>6, <1>7, <1>8

(* Every step moves the stack in one of these ways.                        *)
LEMMA StackMoves ==
    ASSUME Core, Typed, Phases, Next
    PROVE  Remains(s, s') \/ Derives \/ Decides \/ Flushes
<1>1. Stack(s) /\ Level(s) \in Nat /\ 0 \in 0..Level(s)
  BY StackFields DEF Core, Stack
<1>2. s' = s => Remains(s, s')
  BY SameRemains
<1>3. s' = backtrack(s, 0) => Remains(s, s')
  BY <1>1, BacktrackRemains
<1>4. CASE \/ StartSolve \/ StartSearch \/ LuckyFound \/ EndLucky \/ SavedSatisfied
           \/ LoopUnsat \/ LoopSatisfied \/ LoopTerminated \/ Stabilize \/ DecideFails
           \/ Walk \/ Terminate \/ Done
  BY <1>2, <1>4, StandingSteps DEF Standing
<1>5. CASE BeginCall \/ Rephase \/ Reduce \/ unlucky \/ SavedConflict
  BY <1>2, <1>3, <1>5 DEF BeginCall, Rephase, Reduce, unlucky, SavedConflict
<1>6. CASE AddClause
  <2>1. Level(s) = 0 /\ input \in Seq(Seq(Literals(Vars)))
    BY <1>6 DEF AddClause, Phases, Typed
  <2> QED BY <1>1, <1>6, <2>1, AddedMoves
<1>7. CASE AddUnit \/ AlreadyRefuted \/ StartWalk \/ EndWalk
  BY <1>2, <1>7 DEF AddUnit, AlreadyRefuted, learn_empty_clause, StartWalk, EndWalk
<1>8. CASE Propagate
  BY <1>8, PropagateMoves DEF Propagate
<1>9. CASE Analyze
  <2>1. Propagated /\ conflict # NoConflict /\ ~unsat
    BY <1>9 DEF Analyze
  <2> QED BY <1>2, <1>9, <2>1, ForcedMoves, LearnedMoves DEF Analyze
<1>10. CASE Restart
  BY <1>1, <1>10, RestartShape, CutBackMoves
<1>11. CASE CollectGarbage
  BY <1>11 DEF CollectGarbage, Flushes
<1>12. CASE Decide \/ DecidePrepared
  <2>1. Settled /\ ~satisfied /\ \E P : decide(P)
    BY <1>12 DEF Decide, DecidePrepared, Looping
  <2>2. \E P : Decided(P)
    BY <1>1, <2>1, DecideShape
  <2> QED BY <1>1, <2>1, <2>2, DecidedMoves
<1>13. CASE LuckyDecide
  <2>1. Settled /\ Decided(Literals(Vars))
    BY <1>1, <1>13, LuckyShape DEF LuckyDecide
  <2> QED BY <1>1, <2>1, DecidedMoves
<1> QED BY <1>4, <1>5, <1>6, <1>7, <1>8, <1>9, <1>10, <1>11, <1>12, <1>13, Steps

(* A clause keeps a true literal when the root level's are taken away.     *)
LEMMA FlushedHold ==
    ASSUME NEW A \in Assignments(Vars), Obeys(s, A), NEW c, Satisfied(c, A)
    PROVE  Satisfied(c \ Negated(Root), A)
<1>1. Root \subseteq A /\ A \subseteq Literals(Vars)
  BY AssignmentExact DEF Obeys, Root
<1>2. PICK lit \in c : lit \in A
  BY DEF Satisfied
<1>3. lit \notin Negated(Root)
  <2> SUFFICES ASSUME NEW k \in Root, lit = -k
               PROVE  FALSE
    BY DEF Negated
  <2> QED BY <1>1, <1>2, AssignmentExact
<1> QED BY <1>2, <1>3 DEF Satisfied

(* What a step fixes is satisfied by what nothing has ruled out.           *)
LEMMA ObeysNext ==
    ASSUME Core, Typed, Phases, Next, NEW A \in Models(formula', Vars), Fits(A)
    PROVE  Obeys(s', A)
<1>1. Stack(s) /\ s \in Stacks /\ Obeys(s, A) /\ A \in Assignments(Vars)
  BY ModelsAssign DEF Core, Stack, Fits
<1>2. CASE Remains(s, s')
  BY <1>1, <1>2, ObeysRemains
<1>3. CASE Derives
  <2>1. PICK u, lit, c : /\ Stack(u) /\ Remains(s, u) /\ Assignable(u, lit, c)
                         /\ c # DecisionReason /\ Due(lit, c) /\ s' = search_assign(u, lit, c)
    BY <1>3 DEF Derives
  <2>2. (c = NoReason => lit \in A) /\ (c = NoReason \/ Satisfied(c, A))
    BY <2>1 DEF Due
  <2>3. Obeys(u, A)
    BY <1>1, <2>1, ObeysRemains
  <2> QED BY <1>1, <2>1, <2>2, <2>3, ObeysAssign
<1>4. CASE Decides
  <2>1. PICK u, lit : /\ Stack(u) /\ Remains(s, u) /\ Assignable(u, lit, DecisionReason)
                      /\ s' = search_assign(u, lit, DecisionReason)
    BY <1>4 DEF Decides
  <2>2. Obeys(u, A) /\ DecisionReason # NoReason
    BY <1>1, <2>1, ObeysRemains DEF DecisionReason, NoReason
  <2> QED BY <1>1, <2>1, <2>2, ObeysAssign
<1>5. CASE Flushes
  <2>1. /\ s'.trail = s.trail /\ s'.level = s.level
        /\ s'.reason = [v \in Vars |-> s.reason[v] \ Negated(Root)]
    BY <1>1, <1>5 DEF Flushes, Stacks
  <2>2. /\ HoldsIn(s') = HoldsIn(s) /\ RootIn(s') = RootIn(s)
        /\ HoldsIn(s) \subseteq Literals(Vars)
    BY <1>1, <2>1, StackFields DEF HoldsIn, RootIn, LevelOf
  <2>3. ASSUME NEW lit \in HoldsIn(s'), s'.reason[vidx(lit)] # NoReason
        PROVE  Satisfied(s'.reason[vidx(lit)], A)
    <3>1. lit \in HoldsIn(s) /\ vidx(lit) \in Vars
      BY <2>2, LiteralFacts
    <3>2. s'.reason[vidx(lit)] = s.reason[vidx(lit)] \ Negated(Root)
      BY <2>1, <3>1
    <3>3. s.reason[vidx(lit)] # NoReason
      BY <2>3, <3>2 DEF NoReason
    <3>4. Satisfied(s.reason[vidx(lit)], A)
      BY <1>1, <3>1, <3>3 DEF Obeys
    <3> QED BY <1>1, <3>2, <3>4, FlushedHold
  <2> QED BY <1>1, <2>2, <2>3 DEF Obeys
<1> QED BY <1>2, <1>3, <1>4, <1>5, StackMoves

(* A conflict without a decision rules everything out.                     *)
LEMMA ConflictRefutes ==
    ASSUME Core, Propagated, conflict # NoConflict, conflict_level(s, conflict) = 0,
           NEW A \in Assignments(Vars), Fits(A)
    PROVE  FALSE
<1>1. /\ s \in Stacks /\ conflict \in Clauses
      /\ \A k \in conflict : /\ k \in Literals(Vars) /\ -k \in HoldsIn(s)
                             /\ LevelOf(s, k) \in Nat /\ LevelOf(s, -k) = LevelOf(s, k)
                             /\ LevelOf(s, k) <= 0
  BY ConflictFacts
<1>2. PICK k \in conflict : k \in A
  BY <1>1 DEF Fits, Satisfied
<1>3. LevelOf(s, -k) = 0
  BY <1>1
<1>4. -k \in A
  BY <1>1, <1>3 DEF Fits, Obeys, RootIn
<1> QED BY <1>1, <1>2, <1>4, AssignmentExact

(* What a step makes of the clauses is satisfied by it as well.            *)
LEMMA ClausesNext ==
    ASSUME Core, Typed, Phases, Next, NEW A \in Models(formula', Vars), Fits(A)
    PROVE  ~unsat' /\ \A c \in Clauses' : Satisfied(c, A)
<1>1. /\ Stack(s) /\ Level(s) \in Nat /\ Obeys(s, A) /\ ~unsat /\ A \in Assignments(Vars)
      /\ \A c \in Clauses : Satisfied(c, A)
  BY StackFields, ModelsAssign DEF Core, Stack, Fits
<1>2. ASSUME UNCHANGED <<irredundant, redundant, unsat>>
      PROVE  ~unsat' /\ \A c \in Clauses' : Satisfied(c, A)
  BY <1>1, <1>2 DEF Clauses
<1>3. ASSUME Propagated, conflict # NoConflict, Level(s) = 0
      PROVE  FALSE
  <2>1. conflict_level(s, conflict) \in 0..0
    BY <1>3, ConflictFacts
  <2> QED BY <1>1, <1>3, <2>1, ConflictRefutes
<1>4. CASE \/ StartSolve \/ StartSearch \/ LuckyFound \/ EndLucky \/ SavedSatisfied
           \/ LoopUnsat \/ LoopSatisfied \/ LoopTerminated \/ Stabilize \/ DecideFails
           \/ Walk \/ Terminate \/ Done
  BY <1>2, <1>4, StandingSteps DEF Standing, clauseVars
<1>5. CASE \/ BeginCall \/ Propagate \/ Restart \/ Rephase \/ Reduce \/ Decide \/ LuckyDecide
           \/ unlucky \/ EndWalk \/ DecidePrepared \/ SavedConflict
  BY <1>2, <1>5 DEF BeginCall, Propagate, Restart, Rephase, Reduce, Decide, LuckyDecide, unlucky,
                    EndWalk, DecidePrepared, SavedConflict, clauseVars
<1>6. CASE AddClause
  <2>1. Level(s) = 0 /\ input \in Seq(Seq(Literals(Vars)))
    BY <1>6 DEF AddClause, Phases, Typed
  <2> QED BY <1>1, <1>6, <2>1, AddedMoves
<1>7. CASE AddUnit \/ AlreadyRefuted
  <2>1. Level(s) = 0 /\ Propagated
    BY <1>7 DEF AddUnit, AlreadyRefuted, Phases
  <2>2. conflict = NoConflict
    BY <1>3, <2>1
  <2> QED BY <1>2, <1>7, <2>2 DEF AddUnit, AlreadyRefuted, clauseVars
<1>8. CASE Analyze
  <2>1. Propagated /\ conflict # NoConflict /\ irredundant' = irredundant
    BY <1>8 DEF Analyze
  <2>2. CASE AnalyzeForced /\ UNCHANGED unsat
    BY <1>2, <2>1, <2>2 DEF AnalyzeForced
  <2>3. CASE AnalyzeLearn /\ UNCHANGED unsat
    <3>1. \A c \in redundant' : Satisfied(c, A)
      BY <1>1, <2>1, <2>3, LearnedMoves
    <3> QED BY <1>1, <2>1, <2>3, <3>1 DEF Clauses
  <2>4. CASE ConflictAtRoot
    BY <1>1, <2>1, <2>4, ConflictRefutes DEF ConflictAtRoot
  <2> QED BY <1>8, <2>2, <2>3, <2>4 DEF Analyze
<1>9. CASE CollectGarbage \/ StartWalk
  <2>1. /\ UNCHANGED unsat /\ irredundant' = Flushed(irredundant)
        /\ \A c \in redundant' : c \in Flushed(redundant)
    <3>1. CASE CollectGarbage
      BY <3>1 DEF CollectGarbage, Flushed
    <3>2. CASE StartWalk
      BY <3>2 DEF StartWalk
    <3> QED BY <1>9, <3>1, <3>2
  <2>2. \A C : (\A c \in C : Satisfied(c, A)) => \A c \in Flushed(C) : Satisfied(c, A)
    BY <1>1, FlushedHold DEF Flushed
  <2> QED BY <1>1, <2>1, <2>2 DEF Clauses
<1> QED BY <1>4, <1>5, <1>6, <1>7, <1>8, <1>9, Steps

(* Nothing is derived that does not follow, in any step.                   *)
LEMMA FollowsNext ==
    ASSUME Core, Typed, Phases, Follows, Next
    PROVE  Follows'
<1> SUFFICES ASSUME NEW A \in Models(formula', Vars)
             PROVE  Fits(A)'
  BY DEF Follows
<1>1. formula \subseteq formula'
  BY UserSteps DEF BeginCall, AddClause
<1>2. A \in Models(formula, Vars)
  BY <1>1 DEF Models
<1>3. Fits(A)
  BY <1>2 DEF Follows
<1>4. Obeys(s', A) /\ ~unsat' /\ \A c \in Clauses' : Satisfied(c, A)
  BY <1>3, ObeysNext, ClausesNext
<1>5. Obeys(s, A)' <=> Obeys(s', A)
  BY DEF Obeys, RootIn, HoldsIn, LevelOf
<1> QED BY <1>4, <1>5 DEF Fits

(* What is decided on the level of an assumption is the assumption.        *)
LEMMA AssumesNext ==
    ASSUME Core, Typed, Phases, Assumes, Next
    PROVE  Assumes'
<1>1. Stack(s) /\ s \in Stacks /\ Level(s) \in Nat /\ Holds = HoldsIn(s) /\ Holds' = HoldsIn(s')
      /\ Len(assumptions) \in Nat
  BY StackFields, LenProperties DEF Core, Stack, Holds, HoldsIn, Typed
<1>2. CASE BeginCall
  <2>1. s' = backtrack(s, 0) /\ 0 \in 0..Level(s)
    BY <1>1, <1>2 DEF BeginCall
  <2>2. Stack(s') /\ Level(s') = 0
    BY <1>1, <2>1, BacktrackKeeps
  <2>3. \A lit \in HoldsIn(s') : LevelOf(s', lit) \in 0..0
    BY <2>2, TrailConsistent
  <2>4. SUFFICES ASSUME NEW lit \in HoldsIn(s'), LevelOf(s', lit) \in 1..Len(assumptions')
                 PROVE  FALSE
    BY <1>1 DEF Assumes, LevelOf
  <2> QED BY <2>3, <2>4
<1>3. CASE ~BeginCall
  <2>1. assumptions' = assumptions
    BY <1>3, UserSteps DEF AddClause
  <2>2. SUFFICES ASSUME NEW lit \in HoldsIn(s'), s'.reason[vidx(lit)] = NoReason,
                        LevelOf(s', lit) \in 1..Len(assumptions)
                 PROVE  lit = assumptions[LevelOf(s', lit)]
    BY <1>1, <2>1 DEF Assumes, LevelOf
  <2>3. ASSUME NEW u, Remains(s, u), lit \in HoldsIn(u), u.reason[vidx(lit)] = NoReason,
               LevelOf(u, lit) = LevelOf(s', lit)
        PROVE  lit = assumptions[LevelOf(s', lit)]
    BY <1>1, <2>2, <2>3 DEF Remains, Assumes
  <2>4. CASE Remains(s, s')
    BY <2>2, <2>3, <2>4
  <2>5. ASSUME NEW u, Stack(u), Remains(s, u), NEW k, NEW c, Assignable(u, k, c),
               s' = search_assign(u, k, c), lit # k
        PROVE  lit = assumptions[LevelOf(s', lit)]
    <3>1. u \in Stacks /\ Levels(u) /\ HoldsIn(u) \subseteq Literals(Vars)
      BY <2>5, StackFields DEF Stack
    <3>2. lit \in HoldsIn(u)
      BY <2>2, <2>5, <3>1, AssignResult
    <3>3. u.reason[vidx(lit)] = NoReason /\ LevelOf(u, lit) = LevelOf(s', lit)
      BY <2>2, <2>5, <3>1, <3>2, AssignResult
    <3> QED BY <2>3, <2>5, <3>2, <3>3
  <2>6. CASE Derives
    <3>1. PICK u, k, c : /\ Stack(u) /\ Remains(s, u) /\ Assignable(u, k, c)
                         /\ c # DecisionReason /\ s' = search_assign(u, k, c)
      BY <2>6 DEF Derives
    <3>2. CASE lit = k
      <4>1. /\ LevelOf(s', k) = LevelFor(u, k, c) /\ s'.reason[vidx(k)] = ReasonFor(u, k, c)
        BY <3>1, AssignResult DEF Stack
      <4>2. LevelFor(u, k, c) # 0 /\ ReasonFor(u, k, c) = NoReason
        BY <1>1, <2>2, <3>2, <4>1
      <4>3. c = NoReason
        BY <3>1, <4>2 DEF ReasonFor
      <4> QED BY <4>2, <4>3 DEF LevelFor
    <3> QED BY <2>5, <3>1, <3>2
  <2>7. CASE Decides
    <3>1. PICK u, k : /\ Stack(u) /\ Remains(s, u) /\ Level(u) = Level(s) + 1
                      /\ Assignable(u, k, DecisionReason)
                      /\ s' = search_assign(u, k, DecisionReason)
                      /\ Level(s) < Len(assumptions) => k = assumptions[Level(s) + 1]
      BY <2>7 DEF Decides
    <3>2. CASE lit = k
      <4>1. LevelOf(s', k) = LevelFor(u, k, DecisionReason)
        BY <3>1, AssignResult DEF Stack
      <4>2. LevelOf(s', k) = Level(s) + 1
        BY <3>1, <4>1 DEF LevelFor, DecisionReason, NoReason
      <4>3. Level(s) < Len(assumptions)
        BY <1>1, <2>2, <3>2, <4>2
      <4> QED BY <3>1, <3>2, <4>2, <4>3
    <3> QED BY <2>5, <3>1, <3>2
  <2>8. CASE Flushes
    <3>1. /\ s'.trail = s.trail /\ s'.level = s.level
          /\ s'.reason = [v \in Vars |-> s.reason[v] \ Negated(Root)]
      BY <1>1, <2>8 DEF Flushes, Stacks
    <3>2. lit \in HoldsIn(s) /\ LevelOf(s', lit) = LevelOf(s, lit) /\ lit \in Literals(Vars)
      BY <1>1, <2>2, <3>1, StackFields DEF HoldsIn, LevelOf
    <3>3. s.reason[vidx(lit)] \ Negated(Root) = NoReason
      BY <2>2, <3>1, <3>2, LiteralFacts
    <3>4. lit \notin Negated(Root)
      BY <1>1, <3>2, RootFacts DEF Root
    <3>5. PICK i \in 1..Len(s.trail) : s.trail[i] = lit
      BY <1>1, <3>2, StackFields
    <3>6. s.reason[vidx(lit)] # NoReason => lit \in s.reason[vidx(lit)]
      BY <1>1, <3>5 DEF Stack, Reasons, ReasonOf
    <3>7. s.reason[vidx(lit)] = NoReason
      BY <3>3, <3>4, <3>6 DEF NoReason
    <3> QED BY <1>1, <2>2, <3>2, <3>7 DEF Assumes
  <2> QED BY <2>4, <2>6, <2>7, <2>8, StackMoves
<1> QED BY <1>2, <1>3

-----------------------------------------------------------------------------
(* Calls and their answers.                                                *)

(* A call that has begun is under way until it is answered.                *)
LEMMA CallsNext ==
    ASSUME Calls, Next
    PROVE  Calls'
<1>1. CASE BeginCall
  BY <1>1 DEF BeginCall, Calls
<1>2. CASE AddClause \/ AddUnit
  <2>1. pc # "idle" /\ pc' \in {"add", "unit"} /\ result' = result
    BY <1>2 DEF AddClause, AddUnit, answerVars
  <2> QED BY <2>1 DEF Calls
<1>3. CASE Terminate \/ Done \/ Propagate
  <2>1. UNCHANGED <<pc, result, input>>
    BY <1>3 DEF Terminate, Done, Propagate, vars, userVars, answerVars
  <2> QED BY <2>1 DEF Calls
<1>4. CASE StartSolve
  <2>1. /\ pc = "add" /\ input' = <<>>
        /\ (pc' = "idle" /\ result' = 20) \/ (pc' = "root" /\ result' = result)
    BY <1>4 DEF StartSolve, Answer, userVars
  <2> QED BY <2>1 DEF Calls, Oracle!Running
<1>5. CASE \/ AlreadyRefuted \/ LuckyFound \/ SavedSatisfied \/ LoopUnsat \/ LoopSatisfied
           \/ LoopTerminated \/ DecideFails
  <2>1. pc \notin {"idle", "add", "unit"}
    BY <1>5 DEF AlreadyRefuted, LuckyFound, SavedSatisfied, LoopUnsat, LoopSatisfied,
                LoopTerminated, DecideFails, Looping
  <2>2. pc' = "idle" /\ result' \in {0, 10, 20} /\ input' = input
    BY <1>5 DEF AlreadyRefuted, LuckyFound, SavedSatisfied, LoopUnsat, LoopSatisfied,
                LoopTerminated, DecideFails, Answer, userVars
  <2> QED BY <2>1, <2>2 DEF Calls, Oracle!Running
<1>6. CASE \/ StartSearch \/ Analyze \/ Stabilize \/ Restart \/ Rephase \/ Reduce
           \/ CollectGarbage \/ Decide \/ LuckyDecide \/ unlucky \/ EndLucky \/ StartWalk
           \/ Walk \/ EndWalk \/ DecidePrepared \/ SavedConflict
  <2>1. pc \notin {"idle", "add", "unit"}
    BY <1>6 DEF StartSearch, Analyze, Stabilize, Restart, Rephase, Reduce, CollectGarbage,
                Decide, LuckyDecide, unlucky, EndLucky, StartWalk, Walk, EndWalk,
                DecidePrepared, SavedConflict, Looping, Restartable
  <2>2. result' = result /\ input' = input
    BY <1>6 DEF StartSearch, Analyze, Stabilize, Restart, Rephase, Reduce, CollectGarbage,
                Decide, LuckyDecide, unlucky, EndLucky, StartWalk, Walk, EndWalk,
                DecidePrepared, SavedConflict, answerVars, userVars
  <2>3. pc' # "idle"
    BY <1>6, <2>1 DEF StartSearch, Analyze, Stabilize, Restart, Rephase, Reduce, CollectGarbage,
                Decide, LuckyDecide, unlucky, EndLucky, StartWalk, Walk, EndWalk,
                DecidePrepared, SavedConflict
  <2> QED BY <2>1, <2>2, <2>3 DEF Calls
<1> QED BY <1>1, <1>2, <1>3, <1>4, <1>5, <1>6, Steps

(* The formula and the failed assumptions have no model in common.         *)
LEMMA FailingSound ==
    ASSUME Core, Typed, Assumes, AssumptionFails, NEW F \in failing(s),
           NEW A \in Assignments(Vars), Obeys(s, A), F \subseteq A
    PROVE  FALSE
<1>1. /\ Stack(s) /\ s \in Stacks /\ Holds = HoldsIn(s) /\ Level(s) \in Nat
      /\ Len(assumptions) \in Nat /\ assumptions \in Seq(Literals(Vars))
  BY StackFields, LenProperties DEF Core, Stack, Holds, HoldsIn, Typed
<1>2. PICK B : B = ToSet(assumptions)
  OBVIOUS
<1>3. B \subseteq Literals(Vars) /\ \A n \in 1..Len(assumptions) : assumptions[n] \in B
  BY <1>1, <1>2 DEF ToSet
<1>4. F \in {{lit, -lit} : lit \in {k \in B : -k \in B}}
            \cup {IF LevelOf(s, lit) = 0 THEN {lit}
                  ELSE {lit} \cup (B \cap {k \in Because(s, {-lit}) :
                                    LevelOf(s, k) > 0 /\ s.reason[vidx(k)] = NoReason})
                  : lit \in {k \in B : -k \in HoldsIn(s)}}
  BY <1>2 DEF failing
<1>5. CASE F \in {{lit, -lit} : lit \in {k \in B : -k \in B}}
  <2>1. PICK lit \in B : F = {lit, -lit}
    BY <1>5
  <2> QED BY <1>3, <2>1, AssignmentExact
<1>6. CASE F \notin {{lit, -lit} : lit \in {k \in B : -k \in B}}
  <2>1. PICK lit \in B : /\ -lit \in HoldsIn(s)
                         /\ F = IF LevelOf(s, lit) = 0 THEN {lit}
                                ELSE {lit} \cup (B \cap {k \in Because(s, {-lit}) :
                                    LevelOf(s, k) > 0 /\ s.reason[vidx(k)] = NoReason})
    BY <1>4, <1>6
  <2>2. /\ lit \in Literals(Vars) /\ lit \in A /\ -lit \notin A
        /\ LevelOf(s, -lit) = LevelOf(s, lit)
    BY <1>3, <2>1, AssignmentExact, LiteralFacts DEF LevelOf
  <2>3. CASE LevelOf(s, lit) = 0
    BY <2>1, <2>2, <2>3 DEF Obeys, RootIn
  <2>4. CASE LevelOf(s, lit) # 0
    <3>1. ASSUME NEW k \in HoldsIn(s), k \in Because(s, {-lit}), LevelOf(s, k) > 0,
                 s.reason[vidx(k)] = NoReason
          PROVE  k \in A
      <4>1. LevelOf(s, k) \in 1..Len(assumptions)
        <5>1. LevelOf(s, k) \in 0..Level(s)
          BY <1>1, TrailConsistent
        <5> QED BY <1>1, <3>1, <5>1 DEF AssumptionFails
      <4>2. k \in B
        BY <1>1, <1>3, <3>1, <4>1 DEF Assumes
      <4>3. k \in F
        BY <2>1, <2>4, <3>1, <4>2
      <4> QED BY <4>3
    <3> QED BY <1>1, <2>1, <2>2, <3>1, BecauseSound
  <2> QED BY <2>3, <2>4
<1> QED BY <1>5, <1>6

-----------------------------------------------------------------------------
(* The invariant.                                                          *)

(* Every scenario begins with the invariant.                               *)
LEMMA InitInvariant ==
    ASSUME Init
    PROVE  IInv
<1>1. Core
  BY InitCore
<1>2. /\ pc = "idle" /\ walk = NoWalk /\ unsat = FALSE
      /\ s = EmptyStack /\ visiting = {} /\ conflict = NoConflict
  BY DEF Init
<1>3. /\ plan \in {scenario.calls : scenario \in Scenarios} /\ input = <<>> /\ formula = {}
      /\ assumptions = <<>> /\ result = 0 /\ failed = {}
  BY DEF Init, Oracle!Init, Oracle!Unasked
<1>4. Typed
  <2>1. plan \in Seq([add : Seq(Seq(Literals(Vars))), assume : Seq(Literals(Vars)),
                      localsearch : Nat])
    BY <1>3, ScenariosTyped
  <2>2. input \in Seq(Seq(Literals(Vars))) /\ assumptions \in Seq(Literals(Vars))
    BY <1>3
  <2> QED BY <1>2, <1>3, <2>1, <2>2 DEF Typed
<1>5. Assumed /\ BrokenExact /\ Formula /\ ModelFound
  <2>1. Level(s) = 0
    BY <1>2, EmptyStackKeeps
  <2> QED BY <1>2, <1>3, <2>1 DEF Assumed, BrokenExact, Formula, ModelFound
<1>6. Phases
  BY <1>2 DEF Phases, Quiet
<1>7. Assumes /\ Calls
  BY <1>2, <1>3, EmptyStackKeeps DEF Assumes, Holds, HoldsIn, Calls, Oracle!Running
<1>8. Follows
  <2>1. RootIn(s) = {} /\ HoldsIn(s) = {} /\ Clauses = {}
    BY <1>2, EmptyStackKeeps DEF RootIn, Init, Clauses
  <2> QED BY <1>2, <2>1 DEF Follows, Fits, Obeys
<1> QED BY <1>1, <1>4, <1>5, <1>6, <1>7, <1>8 DEF IInv

(* Every step keeps it.                                                    *)
LEMMA InvariantStep ==
    ASSUME IInv, [Next]_vars
    PROVE  IInv'
<1>1. CASE Next
  BY <1>1, CoreNext, TypedNext, AssumedNext, PhasesNext, BrokenNext, FormulaNext, ModelFoundNext,
     FollowsNext, AssumesNext, CallsNext
  DEF IInv
<1>2. CASE UNCHANGED vars
  <2>1. UNCHANGED <<s, irredundant, redundant, watched, conflict, visiting, walk, saved, plan,
                    input, formula, assumptions, pc, unsat, result, failed, luck>>
    BY <1>2 DEF vars, clauseVars, walkVars, userVars, answerVars, scheduleVars, limitVars
  <2>2. Core' /\ Phases'
    BY <2>1, CoreUnchanged, PhasesUnchanged DEF IInv, clauseVars
  <2>3. Typed' /\ Assumed' /\ BrokenExact'
    BY <2>1 DEF IInv, Typed, Assumed, Holds, BrokenExact
  <2>4. Formula' /\ ModelFound'
    BY <2>1 DEF IInv, Formula, Root, ModelFound, Holds
  <2>5. Assumes' /\ Calls'
    BY <2>1 DEF IInv, Assumes, Holds, LevelOf, Calls
  <2>6. Follows'
    BY <2>1 DEF IInv, Follows, Fits, Obeys, RootIn, HoldsIn, LevelOf, Clauses
  <2> QED BY <2>2, <2>3, <2>4, <2>5, <2>6 DEF IInv
<1> QED BY <1>1, <1>2

(* The inductive invariant holds in every reachable state.                 *)
THEOREM SearchInvariant == Spec => []IInv
<1>1. Init => IInv
  BY InitInvariant
<1>2. IInv /\ [Next]_vars => IInv'
  BY InvariantStep
<1> QED BY <1>1, <1>2, PTL DEF Spec

-----------------------------------------------------------------------------
(* What follows from it.                                                   *)

(* The decision queue's pointer never leaves an unassigned variable        *)
(* behind, whatever is bumped, assigned and unassigned (queue.hpp).        *)
THEOREM QueuePointerIsSound == Spec => []QueuePointerSound
<1>1. IInv => QueuePointerSound
  BY DEF IInv, Core, Stack, Queue, QueuePointerSound
<1> QED BY <1>1, SearchInvariant, PTL

(* The level and the reason of every literal are right, however often      *)
(* levels were left out of order and literals kept.                        *)
THEOREM LevelsAreExact == Spec => []LevelsExact
<1>1. ASSUME IInv
      PROVE  LevelsExact
  <2>1. Stack(s) /\ Holds = HoldsIn(s) /\ s \in Stacks
    BY <1>1 DEF IInv, Core, Stack, Holds, HoldsIn
  <2>2. SUFFICES ASSUME NEW lit \in Holds, s.reason[vidx(lit)] # NoReason,
                        NEW r, r = s.reason[vidx(lit)]
                 PROVE  /\ lit \in r /\ Falsified(r \ {lit}, Holds)
                        /\ LevelOf(s, lit) = assignment_level(s, lit, r)
    BY DEF LevelsExact
  <2>3. PICK i \in 1..Len(s.trail) : s.trail[i] = lit
    BY <2>1, StackFields
  <2>4. /\ lit \in r /\ LevelOf(s, lit) = assignment_level(s, lit, r)
        /\ \A k \in r \ {lit} : \E j \in 1..(i - 1) : s.trail[j] = -k
    BY <2>1, <2>2, <2>3 DEF Stack, Reasons, ReasonOf
  <2>5. \A j \in 1..(i - 1) : s.trail[j] \in Holds
    <3>1. Len(s.trail) \in Nat /\ HoldsIn(s) = {s.trail[j] : j \in 1..Len(s.trail)}
      BY <2>1, StackFields
    <3>2. \A j \in 1..(i - 1) : j \in 1..Len(s.trail)
      BY <2>3, <3>1
    <3> QED BY <2>1, <3>1, <3>2
  <2> QED BY <2>4, <2>5 DEF Falsified, Negated
<1> QED BY <1>1, SearchInvariant, PTL

(* Propagation misses nothing: once it is complete, every clause has a     *)
(* true literal or two unassigned watches.                                 *)
THEOREM WatchesAreInvariant == Spec => []WatchInvariant
<1>1. ASSUME IInv
      PROVE  WatchInvariant
  <2>1. Core /\ Typed /\ Stack(s) /\ s \in Stacks /\ Database /\ Visits /\ Holds = HoldsIn(s)
    BY <1>1 DEF IInv, Core, Stack, Holds, HoldsIn
  <2>2. /\ HoldsIn(s) \subseteq Literals(Vars) /\ ~Tautological(Holds)
        /\ s.propagated \in 0..Len(s.trail)
    <3>1. HoldsIn(s) \subseteq Literals(Vars) /\ s.propagated \in Nat /\ Len(s.trail) \in Nat
      BY <2>1, StackFields
    <3>2. ~Tautological(Holds)
      BY <2>1, TrailConsistent DEF Tautological
    <3>3. s.propagated <= Len(s.trail)
      BY <2>1 DEF Stack, Heights
    <3> QED BY <3>1, <3>2, <3>3
  <2>3. /\ DOMAIN watched = Clauses
        /\ \A c \in Clauses : Cardinality(c) > 1 /\ watched[c] \in kSubset(2, c)
    BY <2>1 DEF Database, LongClauses, Clauses
  <2>4. visiting \subseteq Clauses /\ conflict \in Clauses \cup {NoConflict}
    BY <2>1 DEF Visits
  <2>5. TypeOK
    BY <2>1, <2>2, <2>3, <2>4 DEF TypeOK, Typed
  <2>6. Settled => \A c \in Clauses :
            Satisfied(c, Holds) \/ \A lit \in watched[c] : vidx(lit) \in Free(s)
    BY <2>1, SettledComplete, CompleteWatches
  <2> QED BY <2>5, <2>6 DEF WatchInvariant
<1> QED BY <1>1, SearchInvariant, PTL

(* Garbage collection flushes no watched literal, and the propagation      *)
(* before it runs into no conflict.                                        *)
THEOREM CollectionKeepsWatches == Spec => []CollectKeepsWatches
<1>1. ASSUME IInv
      PROVE  CollectKeepsWatches
  <2>1. Core /\ Phases
    BY <1>1 DEF IInv
  <2>2. SUFFICES ASSUME pc \in {"reduce", "start_walk", "start_rephase"}, Propagated
                 PROVE  /\ conflict = NoConflict
                        /\ \A c \in Clauses :
                              Satisfied(c, Root) \/ watched[c] \cap Negated(Root) = {}
    BY DEF CollectKeepsWatches
  <2>3. /\ conflict = NoConflict /\ ~unsat /\ visiting = {} /\ s.propagated = Len(s.trail)
    BY <2>1, <2>2 DEF Phases, Propagated
  <2>4. RootBelow
    <3>1. Level(s) \in Nat
      BY <2>1, StackFields DEF Core, Stack
    <3> QED BY <2>1, <2>2, <3>1, NoLevels DEF Phases
  <2> QED BY <2>1, <2>3, <2>4, WatchesAboveRoot
<1> QED BY <1>1, SearchInvariant, PTL

(* The counters of local search are exact through every flip.              *)
THEOREM BrokenIsExact == Spec => []BrokenExact
<1>1. IInv => BrokenExact
  BY DEF IInv
<1> QED BY <1>1, SearchInvariant, PTL

(* When local search has found the assumptions to fail, deciding them all  *)
(* never ends in a satisfying assignment.                                  *)
THEOREM AssumptionsFail == Spec => []AssumptionsDoFail
<1>1. ASSUME IInv
      PROVE  AssumptionsDoFail
  <2>1. Core /\ Typed /\ Assumed /\ Phases /\ Formula
    BY <1>1 DEF IInv
  <2>2. SUFFICES ASSUME pc = "produce", Settled, satisfied
                 PROVE  FALSE
    BY DEF AssumptionsDoFail
  <2>3. Free(s) = {} /\ ToSet(assumptions) \subseteq Holds /\ Hopeless
    BY <2>1, <2>2, SatisfiedAssumptions DEF Phases
  <2>4. \A lit \in Holds : -lit \notin Holds
    BY <2>1, TrailConsistent DEF Core, Holds, HoldsIn
  <2>5. \A i \in 1..Len(assumptions) : assumptions[i] \in Holds
    BY <2>1, <2>3 DEF Typed, ToSet
  <2>6. CASE \E i \in 1..Len(assumptions) : -assumptions[i] \in Root
    BY <2>4, <2>5, <2>6 DEF Root, RootIn, Holds, HoldsIn
  <2>7. CASE \E i, j \in 1..Len(assumptions) : assumptions[j] = -assumptions[i]
    BY <2>4, <2>5, <2>7
  <2>8. CASE \E c \in irredundant : Falsified(c, ToSet(assumptions))
    <3>1. PICK c \in irredundant : Falsified(c, ToSet(assumptions))
      BY <2>8
    <3>2. Satisfied(c, Holds)
      BY <2>1, <2>2, <2>3, ClausesAtEnd
    <3>3. PICK lit \in c : lit \in Holds
      BY <3>2 DEF Satisfied
    <3>4. -lit \in Holds
      BY <2>3, <3>1, <3>3 DEF Falsified, Negated
    <3> QED BY <2>4, <3>3, <3>4
  <2> QED BY <2>3, <2>6, <2>7, <2>8 DEF Hopeless
<1> QED BY <1>1, SearchInvariant, PTL

(* With the answer 10, the assignment satisfies every clause ever added    *)
(* and all assumptions of the call.                                        *)
THEOREM AnswersAreModels == Spec => []ModelFound
<1>1. IInv => ModelFound
  BY DEF IInv
<1> QED BY <1>1, SearchInvariant, PTL

-----------------------------------------------------------------------------
(* The search implements the incremental solver's promise.                 *)

(* The oracle speaks of the same assignments and the same clauses.         *)
LEMMA OracleWords ==
    /\ \A F : Oracle!Models(F, Vars) = Models(F, Vars)
    /\ \A F : Oracle!Satisfiable(F, Vars) <=> Satisfiable(F, Vars)
    /\ \A L : Oracle!Units(L) = Units(L)
    /\ \A q : Oracle!ToSet(q) = ToSet(q)
<1>1. Oracle!Assignments(Vars) = Assignments(Vars)
  BY DEF Oracle!Assignments, Assignments, Oracle!Negated, Negated
<1>2. \A F : Oracle!Models(F, Vars) = Models(F, Vars)
  BY <1>1 DEF Oracle!Models, Models, Oracle!Satisfied, Satisfied
<1>3. \A F : Oracle!Satisfiable(F, Vars) <=> Satisfiable(F, Vars)
  BY <1>1 DEF Oracle!Satisfiable, Satisfiable, Oracle!Satisfied, Satisfied
<1>4. (\A L : Oracle!Units(L) = Units(L)) /\ \A q : Oracle!ToSet(q) = ToSet(q)
  BY DEF Oracle!Units, Units, Oracle!ToSet, ToSet
<1> QED BY <1>2, <1>3, <1>4

(* What satisfies the formula and the literals F satisfies the formula,    *)
(* and has the literals.                                                   *)
LEMMA ModelsUnder ==
    ASSUME NEW F, NEW A \in Assignments(Vars), \A c \in formula \cup Units(F) : Satisfied(c, A)
    PROVE  A \in Models(formula, Vars) /\ F \subseteq A
<1>1. A \in Models(formula, Vars)
  BY DEF Models
<1>2. ASSUME NEW lit \in F
      PROVE  lit \in A
  <2>1. {lit} \in Units(F)
    BY DEF Units
  <2> QED BY <2>1 DEF Satisfied
<1> QED BY <1>1, <1>2

(* The failed assumptions of a search that stops at a false assumption.    *)
LEMMA FailingRefuted ==
    ASSUME Core, Typed, Assumes, Follows, AssumptionFails, NEW F \in failing(s)
    PROVE  ~Satisfiable(formula \cup Units(F), Vars)
<1> SUFFICES ASSUME NEW A \in Assignments(Vars),
                    \A c \in formula \cup Units(F) : Satisfied(c, A)
             PROVE  FALSE
  BY DEF Satisfiable
<1>1. A \in Models(formula, Vars) /\ F \subseteq A
  BY ModelsUnder
<1>2. Obeys(s, A)
  BY <1>1 DEF Follows, Fits
<1> QED BY <1>1, <1>2, FailingSound

(* A formula without a model fails whatever is assumed.                    *)
LEMMA EmptyRefuted ==
    ASSUME Models(formula, Vars) = {}, NEW F
    PROVE  ~Satisfiable(formula \cup Units(F), Vars)
BY ModelsUnder DEF Satisfiable

(* Answers 10, 20 and 0 are the oracle's.                                  *)
LEMMA AnswersAllowed ==
    ASSUME Calls, pc \notin {"idle", "unit"}, pc = "add" => input = <<>>,
           UNCHANGED <<plan, input, formula, assumptions>>,
           \/ /\ result' = 10 /\ failed' = failed
              /\ Holds' \in Models(formula \cup Units(ToSet(assumptions)), Vars)
           \/ /\ result' = 20 /\ failed' \subseteq ToSet(assumptions)
              /\ ~Satisfiable(formula \cup Units(failed'), Vars)
           \/ result' = 0 /\ failed' = failed
    PROVE  Oracle!Next
<1>1. result = Oracle!Running /\ result # 10 /\ input = <<>>
  BY DEF Calls, Oracle!Running
<1>2. CASE /\ result' = 10 /\ failed' = failed
           /\ Holds' \in Models(formula \cup Units(ToSet(assumptions)), Vars)
  <2>1. Oracle!AnswerSatisfiable
    BY <1>2, OracleWords DEF Oracle!AnswerSatisfiable
  <2> QED BY <1>1, <2>1 DEF Oracle!Next, Oracle!Solve
<1>3. CASE /\ result' = 20 /\ failed' \subseteq ToSet(assumptions)
           /\ ~Satisfiable(formula \cup Units(failed'), Vars)
  <2>1. UNCHANGED (IF result = 10 THEN Holds ELSE {})
    BY <1>1, <1>3
  <2>2. /\ failed' \in SUBSET Oracle!ToSet(assumptions)
        /\ ~Oracle!Satisfiable(formula \cup Oracle!Units(failed'), Vars)
    BY <1>3, OracleWords
  <2>3. Oracle!AnswerUnsatisfiable
    BY <1>3, <2>1, <2>2 DEF Oracle!AnswerUnsatisfiable
  <2> QED BY <1>1, <2>3 DEF Oracle!Next, Oracle!Solve
<1>4. CASE result' = 0 /\ failed' = failed
  <2>1. Oracle!AnswerUnknown
    BY <1>1, <1>4 DEF Oracle!AnswerUnknown
  <2> QED BY <1>1, <2>1 DEF Oracle!Next, Oracle!Solve
<1> QED BY <1>2, <1>3, <1>4

(* Every step of the search is a step of the oracle, or not its concern.   *)
LEMMA OracleStep ==
    ASSUME IInv, IInv', Next
    PROVE  Oracle!Next \/ UNCHANGED Oracle!oracleVars
<1>1. /\ Core /\ Typed /\ Phases /\ Follows /\ Assumes /\ Calls
      /\ ModelFound' /\ Follows' /\ failed \subseteq ToSet(assumptions)
  BY DEF IInv, Typed
<1>2. ASSUME UNCHANGED <<plan, input, formula, assumptions, result, failed>>,
             result # 10 \/ Holds' = Holds
      PROVE  UNCHANGED Oracle!oracleVars
  BY <1>2 DEF Oracle!oracleVars
<1>3. CASE BeginCall
  <2>1. /\ pc = "idle" /\ plan # <<>> /\ plan' = Tail(plan) /\ input' = Head(plan).add
        /\ assumptions' = Oracle!assume(Head(plan).assume)
        /\ result' = Oracle!Running /\ failed' = {} /\ formula' = formula
    BY <1>3 DEF BeginCall
  <2>2. result # Oracle!Running /\ Oracle!Running # 10
    BY <1>1, <2>1 DEF Calls, Oracle!Running
  <2>3. Oracle!Begin
    BY <2>1, <2>2 DEF Oracle!Begin
  <2> QED BY <2>3 DEF Oracle!Next
<1>4. CASE AddClause
  <2>1. /\ pc = "add" /\ input # <<>> /\ formula' = formula \cup {ToSet(Head(input))}
        /\ input' = Tail(input) /\ UNCHANGED <<plan, assumptions, result, failed>>
    BY <1>4 DEF AddClause, answerVars
  <2>2. result = Oracle!Running /\ Oracle!Running # 10
    BY <1>1, <2>1 DEF Calls, Oracle!Running
  <2>3. Oracle!Add
    BY <2>1, <2>2, OracleWords DEF Oracle!Add
  <2> QED BY <2>3 DEF Oracle!Next
<1>5. CASE StartSolve /\ ~unsat
  <2>1. pc # "idle" /\ UNCHANGED <<plan, input, formula, assumptions, result, failed>>
    BY <1>5 DEF StartSolve, userVars
  <2> QED BY <1>1, <1>2, <2>1 DEF Calls, Oracle!Running
<1>6. CASE (StartSolve /\ unsat) \/ AlreadyRefuted \/ LoopUnsat
  <2>1. /\ pc \notin {"idle", "unit"} /\ (pc = "add" => input = <<>>)
        /\ UNCHANGED <<plan, input, formula, assumptions, failed>> /\ result' = 20
    BY <1>6 DEF StartSolve, AlreadyRefuted, LoopUnsat, Answer, userVars
  <2>2. Models(formula, Vars) = {}
    <3>1. unsat \/ unsat'
      BY <1>6 DEF AlreadyRefuted, learn_empty_clause, LoopUnsat
    <3>2. CASE unsat
      BY <1>1, <3>2 DEF Follows, Fits
    <3>3. CASE unsat'
      BY <1>1, <2>1, <3>3 DEF Follows, Fits
    <3> QED BY <3>1, <3>2, <3>3
  <2>3. ~Satisfiable(formula \cup Units(failed'), Vars)
    BY <2>2, EmptyRefuted
  <2> QED BY <1>1, <2>1, <2>3, AnswersAllowed
<1>7. CASE LuckyFound \/ LoopSatisfied \/ SavedSatisfied
  <2>1. /\ pc \notin {"idle", "add", "unit"} /\ result' = 10
        /\ UNCHANGED <<plan, input, formula, assumptions, failed>>
    BY <1>7 DEF LuckyFound, LoopSatisfied, SavedSatisfied, Answer, userVars
  <2>2. Holds' \in Models(formula \cup Units(ToSet(assumptions)), Vars)
    BY <1>1, <2>1 DEF ModelFound
  <2> QED BY <1>1, <2>1, <2>2, AnswersAllowed
<1>8. CASE LoopTerminated
  <2>1. /\ pc \notin {"idle", "add", "unit"} /\ result' = 0
        /\ UNCHANGED <<plan, input, formula, assumptions, failed>>
    BY <1>8 DEF LoopTerminated, Answer, userVars
  <2> QED BY <1>1, <2>1, AnswersAllowed
<1>9. CASE DecideFails
  <2>1. /\ pc \notin {"idle", "add", "unit"} /\ result' = 20 /\ AssumptionFails
        /\ UNCHANGED <<plan, input, formula, assumptions>> /\ failed' \in failing(s)
    BY <1>9 DEF DecideFails, Looping, Answer, userVars
  <2>2. ~Satisfiable(formula \cup Units(failed'), Vars)
    BY <1>1, <2>1, FailingRefuted
  <2>3. failed' \subseteq ToSet(assumptions)
    BY <2>1, FailedTyped
  <2> QED BY <1>1, <2>1, <2>2, <2>3, AnswersAllowed
<1>10. CASE Terminate \/ Done
  <2>1. UNCHANGED <<plan, input, formula, assumptions, result, failed, s>>
    BY <1>10 DEF Terminate, Done, vars, userVars, answerVars
  <2>2. Holds' = Holds
    BY <2>1 DEF Holds
  <2> QED BY <1>2, <2>1, <2>2
<1>11. CASE \/ AddUnit \/ Propagate \/ StartSearch \/ Analyze \/ Stabilize \/ Restart
            \/ Rephase \/ Reduce \/ CollectGarbage \/ Decide \/ LuckyDecide \/ unlucky
            \/ EndLucky \/ StartWalk \/ Walk \/ EndWalk \/ DecidePrepared \/ SavedConflict
  <2>1. pc # "idle"
    BY <1>11 DEF AddUnit, Propagate, StartSearch, Analyze, Stabilize, Restart, Rephase, Reduce,
                 CollectGarbage, Decide, LuckyDecide, unlucky, EndLucky, StartWalk, Walk,
                 EndWalk, DecidePrepared, SavedConflict, Looping, Restartable, Propagating
  <2>2. UNCHANGED <<plan, input, formula, assumptions, result, failed>>
    BY <1>11 DEF AddUnit, Propagate, StartSearch, Analyze, Stabilize, Restart, Rephase, Reduce,
                 CollectGarbage, Decide, LuckyDecide, unlucky, EndLucky, StartWalk, Walk,
                 EndWalk, DecidePrepared, SavedConflict, userVars, answerVars
  <2> QED BY <1>1, <1>2, <2>1, <2>2 DEF Calls, Oracle!Running
<1> QED BY <1>3, <1>4, <1>5, <1>6, <1>7, <1>8, <1>9, <1>10, <1>11, Steps

(* Whatever is added, assumed, restarted and terminated, an answer 10 has  *)
(* a model of all clauses added and of the assumptions, and the failed     *)
(* assumptions of an answer 20 are among those of the call and contradict  *)
(* the clauses added: the search implements the incremental solver that    *)
(* its user is promised (cadical.hpp, solve and failed).                   *)
THEOREM SearchImplementsOracle == Spec => ImplementsOracle
<1>1. Init => Oracle!Init
  BY DEF Init
<1>2. IInv /\ IInv' /\ [Next]_vars => [Oracle!Next]_Oracle!oracleVars
  <2> SUFFICES ASSUME IInv, IInv', [Next]_vars
               PROVE  Oracle!Next \/ UNCHANGED Oracle!oracleVars
    OBVIOUS
  <2>1. CASE Next
    BY <2>1, OracleStep
  <2>2. CASE UNCHANGED vars
    BY <2>2 DEF vars, userVars, answerVars, Oracle!oracleVars, Holds
  <2> QED BY <2>1, <2>2
<1> QED BY <1>1, <1>2, SearchInvariant, PTL DEF Spec, ImplementsOracle, Oracle!Spec

=============================================================================
