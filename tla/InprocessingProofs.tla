-------------------------- MODULE InprocessingProofs --------------------------
(***************************************************************************)
(* TLAPS proofs about the solver between its searches (Inprocessing): its   *)
(* invariant, that models are reconstructed, and that it implements the     *)
(* oracle (SatOracle) over any sequence of calls and techniques.            *)
(*                                                                         *)
(* A technique is shown to be a step StepOK(es): what it leaves follows     *)
(* from the clauses before, and from every model of what it leaves, the     *)
(* entries es that it pushes lead back to a model of the clauses before.    *)
(* The invariant Inv says the same of the whole extension stack, also       *)
(* while clauses are being restored.                                        *)
(***************************************************************************)
EXTENDS Inprocessing, FiniteSetTheorems, SequenceTheorems, WellFoundedInduction, TLAPS

------------------------------------------------------------------------------
(***************************************************************************)
(* Iteration.                                                              *)
(***************************************************************************)

\* Induction up to a bound, on a set of numbers.
LEMMA UpTo ==
    ASSUME NEW n \in Nat, NEW P, 0 \in P, \A i \in 0..(n - 1) : i \in P => i + 1 \in P
    PROVE  \A i \in 0..n : i \in P
<1> DEFINE T == {i \in 0..n : i \notin P}
<1>1. CASE T = {}
  BY <1>1
<1>2. CASE T # {}
  <2>0. T \subseteq Nat
    OBVIOUS
  <2>1. PICK t \in T : \A s \in T : <<s, t>> \notin OpToRel(<, Nat)
    <3> HIDE DEF T
    <3> QED BY <1>2, <2>0, NatLessThanWellFounded, WFMin
  <2>2. t \in Nat /\ t # 0 /\ t <= n
    OBVIOUS
  <2>3. t - 1 \notin T
    <3>1. <<t - 1, t>> \in OpToRel(<, Nat)
      BY <2>2 DEF OpToRel
    <3> HIDE DEF T
    <3> QED BY <2>1, <3>1
  <2>4. t - 1 \in 0..(n - 1) /\ t - 1 \in P
    BY <2>2, <2>3
  <2> QED BY <2>2, <2>4
<1> QED BY <1>1, <1>2

\* ... and down to 0.
LEMMA DownTo ==
    ASSUME NEW n \in Nat, NEW P, n \in P, \A i \in 1..n : i \in P => i - 1 \in P
    PROVE  \A i \in 0..n : i \in P
<1> DEFINE Q == {i \in 0..n : n - i \in P}
<1>1. 0 \in Q
  OBVIOUS
<1>2. \A i \in 0..(n - 1) : i \in Q => i + 1 \in Q
  <2> SUFFICES ASSUME NEW i \in 0..(n - 1), i \in Q PROVE i + 1 \in Q
    OBVIOUS
  <2>1. n - i \in 1..n /\ n - i \in P /\ (n - i) - 1 = n - (i + 1)
    OBVIOUS
  <2> QED BY <2>1
<1>3. \A i \in 0..n : i \in Q
  <2> HIDE DEF Q
  <2> QED BY <1>1, <1>2, UpTo
<1> SUFFICES ASSUME NEW i \in 0..n PROVE i \in P
  OBVIOUS
<1>4. n - i \in Q /\ n - (n - i) = i
  BY <1>3
<1> QED BY <1>4

Iterates(step, A, n, B) ==
    B[0] = A /\ \A i \in 1..n : B[i] = step[B[i - 1]]

\* The iterates of a function exist.
LEMMA IteratesExist ==
    ASSUME NEW T, NEW step \in [T -> T], NEW A \in T, NEW n \in Nat
    PROVE  \E B \in [0..n -> T] : Iterates(step, A, n, B)
<1> DEFINE P == {m \in 0..n : \E B \in [0..m -> T] : Iterates(step, A, m, B)}
<1>1. 0 \in P
  <2>1. [i \in 0..0 |-> A] \in [0..0 -> T] /\ Iterates(step, A, 0, [i \in 0..0 |-> A])
    BY DEF Iterates
  <2> QED BY <2>1
<1>2. \A m \in 0..(n - 1) : m \in P => m + 1 \in P
  <2> SUFFICES ASSUME NEW m \in 0..(n - 1), m \in P PROVE m + 1 \in P
    OBVIOUS
  <2>1. PICK B \in [0..m -> T] : Iterates(step, A, m, B)
    OBVIOUS
  <2> DEFINE C == [i \in 0..(m + 1) |-> IF i = m + 1 THEN step[B[m]] ELSE B[i]]
  <2>2. C \in [0..(m + 1) -> T]
    OBVIOUS
  <2>3. Iterates(step, A, m + 1, C)
    BY <2>1 DEF Iterates
  <2> QED BY <2>2, <2>3
<1>3. n \in P
  <2> HIDE DEF P
  <2> QED BY <1>1, <1>2, UpTo
<1> QED BY <1>3

\* Iterated is the last of the iterates.
LEMMA IteratedUnfold ==
    ASSUME NEW T, NEW step \in [T -> T], NEW A \in T, NEW n \in Nat
    PROVE  \E B \in [0..n -> T] : Iterates(step, A, n, B) /\ Iterated(step, A, n) = B[n]
<1> DEFINE F(B) == [i \in 0..n |-> IF i = 0 THEN A ELSE step[B[i - 1]]]
           D == CHOOSE B : B = F(B)
<1>1. PICK B \in [0..n -> T] : Iterates(step, A, n, B)
  BY IteratesExist
<1>2. B = F(B)
  BY <1>1 DEF Iterates
<1>3. D = F(D)
  <2> HIDE DEF F
  <2> QED BY <1>2
<1>4. Iterates(step, A, n, D)
  <2>1. \A i \in 0..n : D[i] = IF i = 0 THEN A ELSE step[D[i - 1]]
    BY <1>3
  <2> HIDE DEF D
  <2> QED BY <2>1 DEF Iterates
<1>5. DOMAIN D = 0..n
  BY <1>3
<1>6. \A i \in 0..n : D[i] \in T
  <2> DEFINE P == {i \in 0..n : D[i] \in T}
  <2> HIDE DEF D
  <2>1. 0 \in P
    BY <1>4 DEF Iterates
  <2>2. \A i \in 0..(n - 1) : i \in P => i + 1 \in P
    BY <1>4 DEF Iterates
  <2> HIDE DEF P
  <2>3. \A i \in 0..n : i \in P
    BY <2>1, <2>2, UpTo
  <2> QED BY <2>3 DEF P
<1>7. Iterated(step, A, n) = D[n]
  BY DEF Iterated
<1>8. D \in [0..n -> T]
  <2>1. D = [i \in 0..n |-> D[i]]
    BY <1>3
  <2> HIDE DEF D
  <2> QED BY <1>6, <2>1
<1> HIDE DEF D
<1> QED BY <1>4, <1>7, <1>8

\* What holds of A and is kept by a step holds after any number of them.
LEMMA IteratedIn ==
    ASSUME NEW T, NEW step \in [T -> T], NEW A \in T, NEW n \in Nat,
           NEW P, A \in P, \A x \in T : x \in P => step[x] \in P
    PROVE  Iterated(step, A, n) \in P /\ Iterated(step, A, n) \in T
<1>1. PICK B \in [0..n -> T] : Iterates(step, A, n, B) /\ Iterated(step, A, n) = B[n]
  BY IteratedUnfold
<1> DEFINE Q == {i \in 0..n : B[i] \in P}
<1>2. 0 \in Q
  BY <1>1 DEF Iterates
<1>3. \A i \in 0..(n - 1) : i \in Q => i + 1 \in Q
  <2> SUFFICES ASSUME NEW i \in 0..(n - 1), i \in Q PROVE i + 1 \in Q
    OBVIOUS
  <2>1. B[i + 1] = step[B[i]] /\ B[i] \in T
    BY <1>1 DEF Iterates
  <2> QED BY <2>1
<1> HIDE DEF Q
<1>4. \A i \in 0..n : i \in Q
  BY <1>2, <1>3, UpTo
<1>5. n \in Q
  BY <1>4
<1> QED BY <1>1, <1>5 DEF Q

\* A proper subset of a finite set is smaller.
LEMMA ProperSubset ==
    ASSUME NEW S, IsFiniteSet(S), NEW T \in SUBSET S, T # S
    PROVE  /\ Cardinality(T) \in Nat /\ Cardinality(S) \in Nat
           /\ Cardinality(T) < Cardinality(S)
<1>1. IsFiniteSet(T) /\ Cardinality(T) <= Cardinality(S) /\ Cardinality(T) # Cardinality(S)
  BY FS_Subset
<1>2. Cardinality(T) \in Nat /\ Cardinality(S) \in Nat
  BY <1>1, FS_CardinalityType
<1> QED BY <1>1, <1>2

Inflating(step, U) == \A S \in SUBSET U : S \subseteq step[S]

\* Steps that only add: either a step adds nothing, or there are as many
\* elements as there were steps.
LEMMA IteratedGrows ==
    ASSUME NEW U, IsFiniteSet(U), NEW step \in [SUBSET U -> SUBSET U], Inflating(step, U),
           NEW A \in SUBSET U, NEW n \in Nat
    PROVE  LET S == Iterated(step, A, n) IN
           /\ S \in SUBSET U /\ A \subseteq S
           /\ step[S] = S \/ n <= Cardinality(S)
<1> DEFINE T == SUBSET U
<1>0. step \in [T -> T] /\ A \in T
  OBVIOUS
<1> HIDE DEF T
<1>t. \E B \in [0..n -> T] : Iterates(step, A, n, B) /\ Iterated(step, A, n) = B[n]
  BY <1>0, IteratedUnfold
<1>1. PICK B \in [0..n -> SUBSET U] : Iterates(step, A, n, B) /\ Iterated(step, A, n) = B[n]
  BY <1>t DEF T
<1> DEFINE Q == {i \in 0..n : A \subseteq B[i] /\ (step[B[i]] = B[i] \/ i <= Cardinality(B[i]))}
<1>2. 0 \in Q
  <2>1. IsFiniteSet(B[0]) /\ B[0] = A
    BY <1>1, FS_Subset DEF Iterates
  <2>2. Cardinality(B[0]) \in Nat
    BY <2>1, FS_CardinalityType
  <2> QED BY <2>1, <2>2
<1>3. \A i \in 0..(n - 1) : i \in Q => i + 1 \in Q
  <2> SUFFICES ASSUME NEW i \in 0..(n - 1), i \in Q PROVE i + 1 \in Q
    OBVIOUS
  <2>1. B[i + 1] = step[B[i]] /\ B[i] \subseteq B[i + 1] /\ B[i + 1] \in SUBSET U
    BY <1>1 DEF Iterates, Inflating
  <2>2. CASE step[B[i]] = B[i]
    BY <2>1, <2>2
  <2>3. CASE step[B[i]] # B[i] /\ i <= Cardinality(B[i])
    <3>1. IsFiniteSet(B[i + 1]) /\ IsFiniteSet(B[i])
      BY <2>1, FS_Subset
    <3>2. Cardinality(B[i]) < Cardinality(B[i + 1])
      <4> DEFINE X == B[i]
                 Y == B[i + 1]
      <4>1. X \subseteq Y /\ X # Y /\ IsFiniteSet(Y)
        BY <2>1, <2>3, <3>1
      <4> HIDE DEF X, Y
      <4>2. Cardinality(X) < Cardinality(Y)
        BY <4>1, ProperSubset
      <4> QED BY <4>2 DEF X, Y
    <3>3. Cardinality(B[i]) \in Nat /\ Cardinality(B[i + 1]) \in Nat
      BY <3>1, FS_CardinalityType
    <3> QED BY <2>1, <2>3, <3>2, <3>3
  <2> QED BY <2>2, <2>3
<1>4. \A i \in 0..n : i \in Q
  <2> HIDE DEF Q
  <2> QED BY <1>2, <1>3, UpTo
<1>5. n \in Q
  <2> HIDE DEF Q
  <2> QED BY <1>4
<1> QED BY <1>1, <1>5

\* After as many steps as there are elements, a further step adds nothing.
LEMMA IteratedCloses ==
    ASSUME NEW U, IsFiniteSet(U), NEW step \in [SUBSET U -> SUBSET U], Inflating(step, U),
           NEW A \in SUBSET U, NEW n \in Nat, Cardinality(U) <= n
    PROVE  LET S == Iterated(step, A, n) IN
           S \in SUBSET U /\ A \subseteq S /\ step[S] = S
<1> DEFINE S == Iterated(step, A, n)
<1>1. S \in SUBSET U /\ A \subseteq S /\ (step[S] = S \/ n <= Cardinality(S))
  BY IteratedGrows
<1>2. CASE n <= Cardinality(S)
  <2> HIDE DEF S
  <2>1. Cardinality(U) \in Nat /\ Cardinality(S) \in Nat /\ Cardinality(S) <= Cardinality(U)
    BY <1>1, FS_Subset, FS_CardinalityType
  <2>2. S = U
    BY <1>1, <1>2, <2>1, FS_Subset
  <2>3. step[S] \in SUBSET U /\ S \subseteq step[S]
    BY <1>1 DEF Inflating
  <2>4. step[S] = S
    BY <2>2, <2>3
  <2> QED BY <1>1, <2>4 DEF S
<1> QED BY <1>1, <1>2

------------------------------------------------------------------------------
(***************************************************************************)
(* Literals, assignments and propagation.                                  *)
(***************************************************************************)

Lits == Literals(Vars)

\* The total assignments, and that one of them satisfies all clauses of F.
Total == Assignments(Vars)

Holds(F, B) == \A c \in F : Satisfied(c, B)

\* Literals are integers other than 0, their negations literals of the same
\* variable.
LEMMA LitFacts ==
    /\ Lits \subseteq Int /\ Vars \subseteq Lits
    /\ \A lit \in Lits : /\ lit \in Int /\ lit # 0 /\ -lit \in Lits /\ -(-lit) = lit /\ -lit # lit
                         /\ vidx(lit) \in Vars /\ vidx(-lit) = vidx(lit)
                         /\ (lit = vidx(lit) \/ lit = -vidx(lit))
    /\ \A v \in Vars : v \in Lits /\ -v \in Lits /\ v \in Int /\ vidx(v) = v
<1>1. \A lit : lit \in Lits <=> (lit \in Vars \/ \E v \in Vars : lit = -v)
  BY DEF Lits, Literals, Negated
<1>2. \A v \in Vars : v \in Int /\ v > 0
  BY VarsAssumption
<1> QED BY <1>1, <1>2 DEF vidx

\* There are finitely many literals.
LEMMA LitsFinite == IsFiniteSet(Lits) /\ \A c \in SUBSET Lits : IsFiniteSet(c)
<1> DEFINE f == [v \in Vars |-> -v]
<1>1. f \in Surjection(Vars, Negated(Vars))
  <2>1. f \in [Vars -> Negated(Vars)]
    BY DEF Negated
  <2>2. \A t \in Negated(Vars) : \E v \in Vars : f[v] = t
    BY DEF Negated
  <2> QED BY <2>1, <2>2 DEF Surjection
<1>2. IsFiniteSet(Negated(Vars))
  <2> HIDE DEF f
  <2> QED BY <1>1, VarsAssumption, FS_Surjection
<1>3. IsFiniteSet(Lits)
  BY <1>2, VarsAssumption, FS_Union DEF Lits, Literals
<1> QED BY <1>3, FS_Subset

\* Negating a set of integers.
LEMMA NegatedMember ==
    ASSUME NEW L \in SUBSET Int, NEW lit \in Int
    PROVE  lit \in Negated(L) <=> -lit \in L
<1>1. \A k \in L : lit = -k <=> k = -lit
  OBVIOUS
<1> QED BY <1>1 DEF Negated

\* Negating a set of literals twice gives it back.
LEMMA NegatedLits ==
    ASSUME NEW L \in SUBSET Lits
    PROVE  /\ Negated(L) \in SUBSET Lits
           /\ Negated(Negated(L)) = L
           /\ \A lit \in Lits : lit \in Negated(L) <=> -lit \in L
<1>1. \A k \in L : -k \in Lits /\ k \in Int /\ -(-k) = k
  BY LitFacts
<1>2. Negated(L) \in SUBSET Lits
  BY <1>1 DEF Negated
<1>3. \A lit \in Lits : lit \in Negated(L) <=> -lit \in L
  BY LitFacts, NegatedMember
<1>4. \A lit \in Lits : lit \in Negated(Negated(L)) <=> lit \in L
  BY <1>2, LitFacts, NegatedMember
<1>5. Negated(Negated(L)) \in SUBSET Lits
  BY <1>2, LitFacts DEF Negated
<1> QED BY <1>2, <1>3, <1>4, <1>5

\* A total assignment holds every literal or its negation.
LEMMA TotalChar ==
    ASSUME NEW B
    PROVE  B \in Total <=> B \in SUBSET Lits /\ \A lit \in Lits : lit \in B <=> -lit \notin B
<1>1. ASSUME B \in Total
      PROVE  B \in SUBSET Lits /\ \A lit \in Lits : lit \in B <=> -lit \notin B
  <2>1. PICK P \in SUBSET Vars : B = P \cup Negated(Vars \ P)
    BY <1>1 DEF Total, Assignments
  <2>2. Vars \ P \in SUBSET Lits /\ P \in SUBSET Lits
    BY LitFacts
  <2>3. \A v \in Vars : -v \notin Vars
    BY VarsAssumption
  <2>4. B \in SUBSET Lits
    BY <2>1, <2>2, NegatedLits
  <2>5. \A lit \in Lits : lit \in B <=> lit \in P \/ -lit \in Vars \ P
    BY <2>1, <2>2, NegatedLits
  <2>6. \A lit \in Lits : (lit \in Vars /\ -lit \notin Vars) \/ (lit \notin Vars /\ -lit \in Vars)
    BY <2>3, LitFacts
  <2>7. \A lit \in Lits : -lit \in Lits /\ -(-lit) = lit
    BY LitFacts
  <2> QED BY <2>4, <2>5, <2>6, <2>7
<1>2. ASSUME B \in SUBSET Lits, \A lit \in Lits : lit \in B <=> -lit \notin B
      PROVE  B \in Total
  <2> DEFINE P == B \cap Vars
  <2>1. P \in SUBSET Vars /\ Vars \ P \in SUBSET Lits
    BY LitFacts
  <2>2. \A lit \in Lits : lit \in B <=> lit \in P \cup Negated(Vars \ P)
    <3> SUFFICES ASSUME NEW lit \in Lits PROVE lit \in B <=> lit \in P \cup Negated(Vars \ P)
      OBVIOUS
    <3>1. lit \in Negated(Vars \ P) <=> -lit \in Vars \ P
      BY <2>1, NegatedLits
    <3>2. (lit \in Vars /\ -lit \notin Vars) \/ (lit \notin Vars /\ -lit \in Vars)
      BY LitFacts, VarsAssumption
    <3>3. lit \in B <=> -lit \notin B
      BY <1>2
    <3> QED BY <3>1, <3>2, <3>3
  <2>3. P \cup Negated(Vars \ P) \in SUBSET Lits
    BY <2>1, NegatedLits, LitFacts
  <2>4. B = P \cup Negated(Vars \ P)
    BY <1>2, <2>2, <2>3
  <2> QED BY <2>1, <2>4 DEF Total, Assignments
<1> QED BY <1>1, <1>2

\* The same of an assignment that is total.
LEMMA TotalFacts ==
    ASSUME NEW B \in Total
    PROVE  B \in SUBSET Lits /\ \A lit \in Lits : lit \in B <=> -lit \notin B
BY TotalChar

Rounds(F) == [B \in SUBSET Lits |-> Round(F, B)]

\* A round of propagation adds the literals of unit clauses.
LEMMA RoundFacts ==
    ASSUME NEW F \in SUBSET SUBSET Lits, NEW A \in SUBSET Lits
    PROVE  /\ Round(F, A) \in SUBSET Lits /\ A \subseteq Round(F, A)
           /\ \A lit \in Lits : lit \in Round(F, A) <=>
                 lit \in A \/ \E c \in F : lit \in c /\ -lit \notin A /\ Negated(c \ {lit}) \subseteq A
<1> DEFINE D(c) == {lit \in c : -lit \notin A /\ Negated(c \ {lit}) \subseteq A}
<1>1. Round(F, A) = A \cup UNION {D(c) : c \in F}
  BY DEF Round
<1>2. \A c \in F : D(c) \subseteq Lits
  OBVIOUS
<1>3. \A lit : lit \in Round(F, A) <=> (lit \in A \/ \E c \in F : lit \in D(c))
  <2> HIDE DEF D
  <2> QED BY <1>1, Zenon
<1>4. \A lit, c : lit \in D(c) <=> (lit \in c /\ -lit \notin A /\ Negated(c \ {lit}) \subseteq A)
  OBVIOUS
<1>5. Round(F, A) \in SUBSET Lits /\ A \subseteq Round(F, A)
  <2> HIDE DEF D
  <2> QED BY <1>2, <1>3
<1>6. \A lit \in Lits : lit \in Round(F, A) <=>
         lit \in A \/ \E c \in F : lit \in c /\ -lit \notin A /\ Negated(c \ {lit}) \subseteq A
  <2> SUFFICES ASSUME NEW lit \in Lits
               PROVE  lit \in Round(F, A) <=>
         lit \in A \/ \E c \in F : lit \in c /\ -lit \notin A /\ Negated(c \ {lit}) \subseteq A
    OBVIOUS
  <2>1. lit \in Round(F, A) <=> (lit \in A \/ \E c \in F : lit \in D(c))
    BY <1>3
  <2>2. \A c : lit \in D(c) <=> (lit \in c /\ -lit \notin A /\ Negated(c \ {lit}) \subseteq A)
    BY <1>4
  <2> HIDE DEF D
  <2> QED BY <2>1, <2>2
<1> QED BY <1>5, <1>6

\* Propagation is an iteration of rounds that only add.
LEMMA RoundsFacts ==
    ASSUME NEW F \in SUBSET SUBSET Lits
    PROVE  /\ Rounds(F) \in [SUBSET Lits -> SUBSET Lits] /\ Inflating(Rounds(F), Lits)
           /\ \A A \in SUBSET Lits : Rounds(F)[A] = Round(F, A)
           /\ \A A : Closure(F, A, Vars) = Iterated(Rounds(F), A, Cardinality(Vars))
           /\ Cardinality(Vars) \in Nat
<1>1. \A A \in SUBSET Lits : Round(F, A) \in SUBSET Lits /\ A \subseteq Round(F, A)
  BY RoundFacts
<1>2. Cardinality(Vars) \in Nat
  BY VarsAssumption, FS_CardinalityType
<1>3. \A A : Closure(F, A, Vars) = Iterated(Rounds(F), A, Cardinality(Vars))
  BY DEF Closure, Rounds, Lits
<1> QED BY <1>1, <1>2, <1>3 DEF Rounds, Inflating

\* Propagation stops adding, or has added a literal for every variable.
LEMMA ClosureGrows ==
    ASSUME NEW F \in SUBSET SUBSET Lits, NEW A \in SUBSET Lits
    PROVE  /\ Closure(F, A, Vars) \in SUBSET Lits /\ A \subseteq Closure(F, A, Vars)
           /\ \/ Rounds(F)[Closure(F, A, Vars)] = Closure(F, A, Vars)
              \/ Cardinality(Vars) <= Cardinality(Closure(F, A, Vars))
<1> DEFINE step == Rounds(F)
           n == Cardinality(Vars)
<1>1. /\ step \in [SUBSET Lits -> SUBSET Lits] /\ Inflating(step, Lits) /\ n \in Nat
      /\ Closure(F, A, Vars) = Iterated(step, A, n)
  BY RoundsFacts
<1>2. IsFiniteSet(Lits)
  BY LitsFinite
<1> HIDE DEF step, n
<1>3. LET S == Iterated(step, A, n) IN
      /\ S \in SUBSET Lits /\ A \subseteq S
      /\ step[S] = S \/ n <= Cardinality(S)
  BY <1>1, <1>2, IteratedGrows
<1> QED BY <1>1, <1>3 DEF step, n

\* Of as many literals of different variables as there are, no variable is
\* missing.
LEMMA FullIsTotal ==
    ASSUME NEW S \in SUBSET Lits, ~Tautological(S), Cardinality(Vars) <= Cardinality(S)
    PROVE  \A lit \in Lits : lit \in S \/ -lit \in S
<1> DEFINE T == {v \in Vars : v \in S \/ -v \in S}
           f == [lit \in S |-> vidx(lit)]
<1>1. f \in Bijection(S, T)
  <2>1. f \in [S -> T]
    BY LitFacts
  <2>2. \A t \in T : \E lit \in S : f[lit] = t
    BY LitFacts DEF vidx
  <2>3. \A j, k \in S : f[j] = f[k] => j = k
    BY LitFacts DEF Tautological, vidx
  <2> HIDE DEF f, T
  <2>4. f \in Surjection(S, T)
    BY <2>1, <2>2 DEF Surjection
  <2>5. f \in Injection(S, T)
    BY <2>1, <2>3 DEF Injection, IsInjective
  <2> QED BY <2>4, <2>5 DEF Bijection
<1>2. IsFiniteSet(S) /\ IsFiniteSet(Vars) /\ T \in SUBSET Vars
  BY LitsFinite, VarsAssumption
<1> HIDE DEF T, f
<1>3. IsFiniteSet(T) /\ Cardinality(T) = Cardinality(S)
  BY <1>1, <1>2, FS_Bijection DEF ExistsBijection
<1>4. T = Vars
  <2>1. Cardinality(T) <= Cardinality(Vars) /\ Cardinality(T) \in Nat /\ Cardinality(Vars) \in Nat
    BY <1>2, <1>3, FS_Subset, FS_CardinalityType
  <2> QED BY <1>2, <1>3, <2>1, FS_Subset
<1> QED BY <1>4, LitFacts DEF T

\* Without a conflict, nothing is left to propagate.
LEMMA ClosureComplete ==
    ASSUME NEW F \in SUBSET SUBSET Lits, NEW A \in SUBSET Lits,
           ~Tautological(Closure(F, A, Vars))
    PROVE  Round(F, Closure(F, A, Vars)) = Closure(F, A, Vars)
<1> DEFINE S == Closure(F, A, Vars)
<1>1. /\ S \in SUBSET Lits
      /\ Rounds(F)[S] = S \/ Cardinality(Vars) <= Cardinality(S)
  BY ClosureGrows
<1>2. CASE Rounds(F)[S] = S
  BY <1>1, <1>2, RoundsFacts
<1>3. CASE Cardinality(Vars) <= Cardinality(S)
  <2> HIDE DEF S
  <2>1. \A lit \in Lits : lit \in S \/ -lit \in S
    BY <1>1, <1>3, FullIsTotal DEF S
  <2>2. Round(F, S) = S
    <3>1. /\ Round(F, S) \in SUBSET Lits /\ S \subseteq Round(F, S)
          /\ \A lit \in Lits : lit \in Round(F, S) => lit \in S \/ -lit \notin S
      BY <1>1, RoundFacts
    <3> QED BY <2>1, <3>1
  <2> QED BY <2>2 DEF S
<1> QED BY <1>1, <1>2, <1>3

\* Where a round adds nothing, propagation adds nothing.
LEMMA ClosureStays ==
    ASSUME NEW F \in SUBSET SUBSET Lits, NEW A \in SUBSET Lits, Round(F, A) = A
    PROVE  Closure(F, A, Vars) = A
<1>1. Rounds(F)[A] = A
  BY RoundsFacts
<1> DEFINE P == {A}
<1>2. A \in P /\ \A x \in SUBSET Lits : x \in P => Rounds(F)[x] \in P
  BY <1>1
<1> HIDE DEF P
<1>3. Iterated(Rounds(F), A, Cardinality(Vars)) \in P
  BY <1>2, RoundsFacts, IteratedIn
<1> QED BY <1>3, RoundsFacts DEF P

\* Propagation is sound: the literals derived hold in every model.
LEMMA ClosureSound ==
    ASSUME NEW F \in SUBSET SUBSET Lits, NEW A \in SUBSET Lits,
           NEW B \in Total, Holds(F, B), A \subseteq B
    PROVE  Closure(F, A, Vars) \subseteq B
<1> DEFINE P == SUBSET B
<1>1. \A x \in SUBSET Lits : x \in P => Rounds(F)[x] \in P
  <2> SUFFICES ASSUME NEW x \in SUBSET Lits, x \subseteq B, NEW lit \in Round(F, x)
               PROVE  lit \in B
    BY RoundsFacts
  <2>1. lit \in Lits /\ (lit \in x \/ \E c \in F : lit \in c /\ Negated(c \ {lit}) \subseteq x)
    <3>1. Round(F, x) \in SUBSET Lits
      BY RoundFacts
    <3>2. lit \in Lits
      BY <3>1
    <3>3. \A k \in Lits : k \in Round(F, x) =>
             k \in x \/ \E c \in F : k \in c /\ -k \notin x /\ Negated(c \ {k}) \subseteq x
      BY RoundFacts, ZenonT(60)
    <3> QED BY <3>2, <3>3
  <2>2. ASSUME NEW c \in F, lit \in c, Negated(c \ {lit}) \subseteq x
        PROVE  lit \in B
    <3>1. PICK k \in c : k \in B
      BY DEF Holds, Satisfied
    <3>2. CASE k # lit
      <4>1. k \in Lits /\ -k \in Negated(c \ {lit})
        BY <3>2 DEF Negated
      <4> QED BY <2>2, <3>1, <4>1, TotalFacts
    <3> QED BY <3>1, <3>2
  <2> QED BY <2>1, <2>2
<1>2. A \in P
  OBVIOUS
<1> HIDE DEF P
<1>3. Iterated(Rounds(F), A, Cardinality(Vars)) \in P
  BY <1>1, <1>2, RoundsFacts, IteratedIn
<1> QED BY <1>3, RoundsFacts DEF P

\* A clause falsified by a part of an assignment is not satisfied by it.
LEMMA NotFalsified ==
    ASSUME NEW c \in SUBSET Lits, NEW B \in Total, NEW A \in SUBSET B, Falsified(c, A)
    PROVE  ~Satisfied(c, B)
<1> SUFFICES ASSUME NEW k \in c, k \in B PROVE FALSE
  BY DEF Satisfied
<1>1. -k \in B /\ k \in Lits
  BY DEF Falsified, Negated
<1> QED BY <1>1, TotalFacts

\* A conflict refutes every model.
LEMMA RefutedSound ==
    ASSUME NEW F \in SUBSET SUBSET Lits, NEW A \in SUBSET Lits,
           NEW B \in Total, Holds(F, B), A \subseteq B
    PROVE  ~Refuted(F, A, Vars)
<1> DEFINE S == Closure(F, A, Vars)
<1>1. S \subseteq B
  BY ClosureSound
<1> HIDE DEF S
<1>2. ~Tautological(S)
  <2>1. \A lit \in B : lit \in Lits /\ -lit \notin B
    BY TotalFacts
  <2> QED BY <1>1, <2>1 DEF Tautological
<1>3. \A c \in F : ~Falsified(c, S)
  BY <1>1, NotFalsified DEF Holds
<1> QED BY <1>2, <1>3 DEF Refuted, S

\* A clause of more than one literal has two.
LEMMA TwoLiterals ==
    ASSUME NEW c \in SUBSET Lits
    PROVE  Cardinality(c) > 1 <=> \E a, b \in c : a # b
<1>1. IsFiniteSet(c) /\ Cardinality(c) \in Nat
  BY LitsFinite, FS_CardinalityType
<1>2. ASSUME NEW a \in c, NEW b \in c, a # b PROVE Cardinality(c) > 1
  <2>1. {a} \in SUBSET c /\ {a} # c
    BY <1>2
  <2>2. Cardinality({a}) < Cardinality(c) /\ Cardinality({a}) = 1
    BY <1>1, <2>1, ProperSubset, FS_Singleton
  <2> QED BY <1>1, <2>2
<1>3. ASSUME \A a, b \in c : a = b PROVE ~(Cardinality(c) > 1)
  <2>1. CASE c = {}
    BY <2>1, FS_EmptySet
  <2>2. CASE c # {}
    <3>1. PICK a \in c : TRUE
      BY <2>2
    <3>2. c = {a}
      BY <1>3, <3>1
    <3>3. Cardinality(c) = 1
      BY <3>2, FS_Singleton
    <3> QED BY <3>3
  <2> QED BY <2>1, <2>2
<1> QED BY <1>2, <1>3

\* The clauses that garbage collection leaves.
LEMMA FlushedMember ==
    ASSUME NEW F, NEW A, NEW d
    PROVE  d \in Flushed(F, A) <=> \E c \in F : ~Satisfied(c, A) /\ d = c \ Negated(A)
BY DEF Flushed

\* What a flushed clause and the literals A say of a total assignment.
LEMMA FlushedHolds ==
    ASSUME NEW F \in SUBSET SUBSET Lits, NEW A \in SUBSET Lits, NEW B \in Total, A \subseteq B
    PROVE  Holds(Flushed(F, A), B) <=> Holds(F, B)
<1>1. ASSUME Holds(Flushed(F, A), B), NEW c \in F PROVE Satisfied(c, B)
  <2>1. CASE Satisfied(c, A)
    BY <2>1 DEF Satisfied
  <2>2. CASE ~Satisfied(c, A)
    <3>1. c \ Negated(A) \in Flushed(F, A)
      BY <2>2, FlushedMember
    <3> QED BY <1>1, <3>1 DEF Holds, Satisfied
  <2> QED BY <2>1, <2>2
<1>2. ASSUME Holds(F, B), NEW d \in Flushed(F, A) PROVE Satisfied(d, B)
  <2>1. PICK c \in F : d = c \ Negated(A)
    BY FlushedMember
  <2>2. PICK k \in c : k \in B
    BY <1>2 DEF Holds, Satisfied
  <2>3. k \notin Negated(A)
    <3>1. k \in Lits /\ -k \notin B
      BY <2>2, TotalFacts
    <3> QED BY <3>1, NegatedLits
  <2> QED BY <2>1, <2>2, <2>3 DEF Satisfied
<1> QED BY <1>1, <1>2 DEF Holds

------------------------------------------------------------------------------
(***************************************************************************)
(* What Update does to the clauses.                                        *)
(***************************************************************************)

Conflicting(I, R) ==
    LET A == Closure(I \cup R, root, Vars) IN
    Tautological(A) \/ \E c \in I \cup R : Falsified(c, A)

\* An update derives the empty clause, or leaves what propagation leaves.
LEMMA ConnectedCases ==
    ASSUME NEW I, NEW R, NEW K, NEW marked, UpdateConnected(I, R, K, marked)
    PROVE  \/ /\ Conflicting(I, R)
              /\ unsat' = TRUE /\ UNCHANGED <<irredundant, redundant, root, status>>
           \/ /\ ~Conflicting(I, R)
              /\ root' = Closure(I \cup R, root, Vars)
              /\ irredundant' = Flushed(I, root')
              /\ redundant' = (Flushed(R, root') \cup K) \ Flushed(I, root')
              /\ status' = [v \in Vars |-> IF {v, -v} \cap root' # {} THEN "fixed"
                                            ELSE WithMarks(marked)[v]]
              /\ UNCHANGED unsat
BY DEF UpdateConnected, Conflicting

\* A model of the new clauses and the root level survives the update.
LEMMA ConnectedForth ==
    ASSUME NEW I \in SUBSET SUBSET Lits, NEW R \in SUBSET SUBSET Lits, NEW K, NEW marked,
           UpdateConnected(I, R, K, marked), root \in SUBSET Lits,
           NEW B \in Total, Holds(I, B), Holds(R, B), Holds(K, B), root \subseteq B
    PROVE  Holds(irredundant', B) /\ Holds(redundant', B) /\ root' \subseteq B /\ unsat' = unsat
<1> DEFINE A == Closure(I \cup R, root, Vars)
<1>1. I \cup R \in SUBSET SUBSET Lits /\ Holds(I \cup R, B)
  BY DEF Holds
<1>2. A \subseteq B /\ A \in SUBSET Lits
  BY <1>1, ClosureSound, ClosureGrows
<1>3. ~Conflicting(I, R)
  <2>1. \A lit \in B : lit \in Lits /\ -lit \notin B
    BY TotalFacts
  <2>2. ~Tautological(A)
    BY <1>2, <2>1 DEF Tautological
  <2>3. \A c \in I \cup R : ~Falsified(c, A)
    BY <1>1, <1>2, NotFalsified DEF Holds
  <2> QED BY <2>2, <2>3 DEF Conflicting
<1>4. /\ root' = A /\ irredundant' = Flushed(I, A)
      /\ redundant' = (Flushed(R, A) \cup K) \ Flushed(I, A)
      /\ UNCHANGED unsat
  BY <1>3, ConnectedCases
<1>5. Holds(Flushed(I, A), B) /\ Holds(Flushed(R, A), B)
  BY <1>2, FlushedHolds
<1> QED BY <1>2, <1>4, <1>5 DEF Holds

\* A model of what the update leaves is a model of the new clauses.
LEMMA ConnectedBack ==
    ASSUME NEW I \in SUBSET SUBSET Lits, NEW R \in SUBSET SUBSET Lits, NEW K, NEW marked,
           UpdateConnected(I, R, K, marked), root \in SUBSET Lits, ~unsat'
    PROVE  /\ ~unsat
           /\ \A B \in Total : Holds(irredundant', B) /\ root' \subseteq B
                 => Holds(I, B) /\ root \subseteq B
<1> DEFINE A == Closure(I \cup R, root, Vars)
<1>1. I \cup R \in SUBSET SUBSET Lits
  OBVIOUS
<1>2. A \in SUBSET Lits /\ root \subseteq A
  BY <1>1, ClosureGrows
<1>3. root' = A /\ irredundant' = Flushed(I, A) /\ unsat' = unsat
  BY ConnectedCases
<1>4. ASSUME NEW B \in Total, Holds(irredundant', B), root' \subseteq B
      PROVE  Holds(I, B) /\ root \subseteq B
  BY <1>2, <1>3, <1>4, FlushedHolds
<1> QED BY <1>3, <1>4

\* The same of an update that connects all clauses.
LEMMA UpdateCases ==
    ASSUME NEW I, NEW R, NEW marked, Update(I, R, marked)
    PROVE  \/ /\ Conflicting(I, R)
              /\ unsat' = TRUE /\ UNCHANGED <<irredundant, redundant, root, status>>
           \/ /\ ~Conflicting(I, R)
              /\ root' = Closure(I \cup R, root, Vars)
              /\ irredundant' = Flushed(I, root')
              /\ redundant' = Flushed(R, root') \ Flushed(I, root')
              /\ status' = [v \in Vars |-> IF {v, -v} \cap root' # {} THEN "fixed"
                                            ELSE WithMarks(marked)[v]]
              /\ UNCHANGED unsat
<1>1. UpdateConnected(I, R, {}, marked)
  BY DEF Update
<1>2. Flushed(R, root') \cup {} = Flushed(R, root')
  OBVIOUS
<1> QED BY <1>1, <1>2 DEF UpdateConnected, Conflicting

LEMMA UpdateForth ==
    ASSUME NEW I \in SUBSET SUBSET Lits, NEW R \in SUBSET SUBSET Lits, NEW marked,
           Update(I, R, marked), root \in SUBSET Lits,
           NEW B \in Total, Holds(I, B), Holds(R, B), root \subseteq B
    PROVE  Holds(irredundant', B) /\ Holds(redundant', B) /\ root' \subseteq B /\ unsat' = unsat
<1>1. UpdateConnected(I, R, {}, marked)
  BY DEF Update
<1>2. Holds({}, B)
  BY DEF Holds
<1> QED BY <1>1, <1>2, ConnectedForth, ZenonT(60)

LEMMA UpdateBack ==
    ASSUME NEW I \in SUBSET SUBSET Lits, NEW R \in SUBSET SUBSET Lits, NEW marked,
           Update(I, R, marked), root \in SUBSET Lits, ~unsat'
    PROVE  /\ ~unsat
           /\ \A B \in Total : Holds(irredundant', B) /\ root' \subseteq B
                 => Holds(I, B) /\ root \subseteq B
<1>1. UpdateConnected(I, R, {}, marked)
  BY DEF Update
<1> QED BY <1>1, ConnectedBack, ZenonT(60)

\* The types of the database.
DatabaseOK ==
    /\ \A c \in Database : c \subseteq Literals(Vars) /\ Cardinality(c) > 1 /\ ~Tautological(c)
    /\ irredundant \cap redundant = {}
    /\ root \subseteq Literals(Vars) /\ ~Tautological(root)
    /\ status \in [Vars -> {"unused", "active", "fixed"} \cup Gone]

\* Besides active literals, redundant clauses have those of the round of
\* elimination under way.
Unconnected == IF eliminating.round THEN {"fixed", "eliminated"} ELSE {}

\* Clauses have active variables, and the root level the fixed ones.
FixedRight ==
    /\ \A c \in irredundant : \A lit \in c : status[vidx(lit)] = "active"
    /\ \A c \in redundant : \A lit \in c : status[vidx(lit)] \in {"active"} \cup Unconnected
    /\ \A v \in Vars : status[v] = "fixed" <=> {v, -v} \cap root # {}

\* A clause over the variables.
Clause(c) == c \in SUBSET Lits /\ ~Tautological(c)

\* The status of a variable after marking.
LEMMA MergedAt ==
    ASSUME NEW marked, NEW v \in Vars, DOMAIN status = Vars
    PROVE  WithMarks(marked)[v] = IF v \in DOMAIN marked THEN marked[v] ELSE status[v]
BY DEF WithMarks

\* An update leaves clauses of two literals and more behind, and active ones
\* if they are connected.
LEMMA ConnectedKeeps ==
    ASSUME DatabaseOK, ~unsat => FixedRight,
           NEW I, NEW R, NEW K, \A c \in I \cup R : Clause(c),
           \A c \in K : Clause(c) /\ Cardinality(c) > 1,
           K # {} => eliminating'.round,
           NEW marked, \A v \in DOMAIN marked : marked[v] \in {"active"} \cup Gone,
           ~unsat => \A c \in I \cup R : \A lit \in c :
                        WithMarks(marked)[vidx(lit)] \in {"active", "fixed"},
           ~unsat => \A c \in K : \A lit \in c :
                        WithMarks(marked)[vidx(lit)] \in {"active", "fixed", "eliminated"},
           UpdateConnected(I, R, K, marked)
    PROVE  DatabaseOK' /\ (~unsat' => FixedRight')
<1> DEFINE A == Closure(I \cup R, root, Vars)
<1>1. CASE unsat' = TRUE /\ UNCHANGED <<irredundant, redundant, root, status>>
  BY <1>1 DEF DatabaseOK, Database
<1>2. CASE /\ ~Conflicting(I, R)
           /\ root' = Closure(I \cup R, root, Vars)
           /\ irredundant' = Flushed(I, root')
           /\ redundant' = (Flushed(R, root') \cup K) \ Flushed(I, root')
           /\ status' = [v \in Vars |-> IF {v, -v} \cap root' # {} THEN "fixed"
                                         ELSE WithMarks(marked)[v]]
           /\ UNCHANGED unsat
  <2>1. I \cup R \in SUBSET SUBSET Lits /\ root \in SUBSET Lits
    BY DEF Clause, DatabaseOK, Lits
  <2>2. A \in SUBSET Lits /\ root \subseteq A /\ root' = A
    BY <1>2, <2>1, ClosureGrows
  <2>3. ~Tautological(A) /\ \A c \in I \cup R : ~Falsified(c, A)
    BY <1>2 DEF Conflicting
  <2>4. Round(I \cup R, A) = A
    BY <2>1, <2>3, ClosureComplete
  <2>5. DOMAIN status = Vars /\ status \in [Vars -> {"unused", "active", "fixed"} \cup Gone]
    BY DEF DatabaseOK
  <2>6. \A v \in Vars : WithMarks(marked)[v] = IF v \in DOMAIN marked THEN marked[v] ELSE status[v]
    BY <2>5, MergedAt
  <2> HIDE DEF A
  <2> DEFINE F == Flushed(I, A) \cup Flushed(R, A)
  <2>f. irredundant' \subseteq F /\ redundant' \subseteq F \cup K /\ Database' \subseteq F \cup K
    BY <1>2, <2>2 DEF Database
  <2>7. ASSUME NEW d \in F
        PROVE  /\ d \in SUBSET Lits /\ ~Tautological(d) /\ Cardinality(d) > 1
               /\ \A lit \in d : lit \notin A /\ -lit \notin A
               /\ \E c \in I \cup R : d \subseteq c
    <3>1. PICK c \in I \cup R : ~Satisfied(c, A) /\ d = c \ Negated(A)
      BY FlushedMember
    <3>2. c \in SUBSET Lits /\ ~Tautological(c) /\ d \in SUBSET Lits /\ d \subseteq c
      BY <3>1 DEF Clause
    <3>3. \A lit \in d : lit \notin A /\ -lit \notin A
      BY <2>2, <3>1, <3>2, NegatedLits DEF Satisfied
    <3>4. d # {}
      <4>1. PICK k \in Negated(c) : k \notin A
        BY <2>3 DEF Falsified
      <4>2. k \in Lits /\ -k \in c /\ -(-k) = k
        <5>1. k \in Lits
          BY <3>2, <4>1, NegatedLits
        <5> QED BY <3>2, <4>1, <5>1, NegatedLits, LitFacts
      <4>3. -k \notin Negated(A)
        BY <2>2, <4>1, <4>2, NegatedLits
      <4> QED BY <3>1, <4>2, <4>3
    <3>5. PICK a \in d : TRUE
      BY <3>4
    <3>6. \E b \in d : b # a
      <4> SUFFICES ASSUME d = {a} PROVE FALSE
        BY <3>5
      <4>1. Negated(c \ {a}) \subseteq A
        <5> SUFFICES ASSUME NEW k \in Negated(c \ {a}) PROVE k \in A
          OBVIOUS
        <5>0. k \in Lits /\ -k \in c \ {a}
          <6>1. c \ {a} \in SUBSET Lits
            BY <3>2
          <6>2. k \in Lits
            BY <6>1, NegatedLits
          <6> QED BY <6>1, <6>2, NegatedLits
        <5>1. k \in Lits /\ -k \in c /\ -k # a /\ -(-k) = k
          BY <5>0, LitFacts
        <5>2. -k \in Negated(A)
          BY <3>1, <5>1
        <5> QED BY <2>2, <5>1, <5>2, NegatedLits
      <4>2. a \in Round(I \cup R, A)
        BY <2>1, <2>2, <3>1, <3>2, <3>3, <3>5, <4>1, RoundFacts
      <4> QED BY <2>4, <3>3, <3>5, <4>2
    <3>7. ~Tautological(d)
      BY <3>2 DEF Tautological
    <3> QED BY <3>1, <3>2, <3>3, <3>5, <3>6, <3>7, TwoLiterals
  <2>8. irredundant' \cap redundant' = {}
    BY <1>2
  <2>9. status' \in [Vars -> {"unused", "active", "fixed"} \cup Gone]
    <3>1. \A v \in Vars : WithMarks(marked)[v] \in {"unused", "active", "fixed"} \cup Gone
      BY <2>5, <2>6
    <3> QED BY <1>2, <3>1
  <2>10. DatabaseOK'
    <3> HIDE DEF F
    <3>1. \A d \in Database' : d \in SUBSET Lits /\ Cardinality(d) > 1 /\ ~Tautological(d)
      BY <2>f, <2>7 DEF Clause
    <3> QED BY <2>2, <2>3, <2>8, <2>9, <3>1 DEF DatabaseOK, Lits, Database, Gone
  <2>11. ASSUME ~unsat' PROVE FixedRight'
    <3>1. FixedRight /\ ~unsat
      BY <1>2, <2>11
    <3>2. ASSUME NEW d \in F, NEW lit \in d PROVE status'[vidx(lit)] = "active"
      <4>1. PICK c \in I \cup R : d \subseteq c
        BY <2>7
      <4>2. lit \in Lits /\ lit \notin A /\ -lit \notin A
        BY <2>7, <3>2
      <4>3. vidx(lit) \in Vars /\ vidx(lit) \notin A /\ -vidx(lit) \notin A
        BY <4>2, LitFacts
      <4>4. WithMarks(marked)[vidx(lit)] \in {"active", "fixed"}
        BY <3>1, <3>2, <4>1
      <4>5. status[vidx(lit)] # "fixed"
        BY <2>2, <3>1, <4>3 DEF FixedRight
      <4>6. WithMarks(marked)[vidx(lit)] # "fixed"
        BY <2>6, <4>3, <4>5 DEF Gone
      <4> QED BY <1>2, <2>2, <4>3, <4>4, <4>6
    <3>4. ASSUME NEW d \in K, NEW lit \in d
          PROVE  status'[vidx(lit)] \in {"active"} \cup Unconnected'
      <4>1. eliminating'.round /\ vidx(lit) \in Vars
        BY <3>4, LitFacts DEF Clause
      <4>2. WithMarks(marked)[vidx(lit)] \in {"active", "fixed", "eliminated"}
        BY <3>1, <3>4
      <4> QED BY <1>2, <4>1, <4>2 DEF Unconnected
    <3>3. ASSUME NEW v \in Vars PROVE status'[v] = "fixed" <=> {v, -v} \cap root' # {}
      <4>1. CASE {v, -v} \cap root' # {}
        BY <1>2, <4>1
      <4>2. CASE {v, -v} \cap root' = {}
        <5>1. status[v] # "fixed"
          BY <2>2, <3>1, <4>2 DEF FixedRight
        <5>2. WithMarks(marked)[v] # "fixed"
          BY <2>6, <5>1 DEF Gone
        <5> QED BY <1>2, <4>2, <5>2
      <4> QED BY <4>1, <4>2
    <3> HIDE DEF F
    <3>5. \A d \in irredundant' : \A lit \in d : status'[vidx(lit)] = "active"
      BY <2>f, <3>2
    <3>6. \A d \in redundant' : \A lit \in d : status'[vidx(lit)] \in {"active"} \cup Unconnected'
      BY <2>f, <3>2, <3>4
    <3> QED BY <3>3, <3>5, <3>6 DEF FixedRight
  <2> QED BY <2>10, <2>11
<1>3. \/ /\ Conflicting(I, R)
         /\ unsat' = TRUE /\ UNCHANGED <<irredundant, redundant, root, status>>
      \/ /\ ~Conflicting(I, R)
         /\ root' = Closure(I \cup R, root, Vars)
         /\ irredundant' = Flushed(I, root')
         /\ redundant' = (Flushed(R, root') \cup K) \ Flushed(I, root')
         /\ status' = [v \in Vars |-> IF {v, -v} \cap root' # {} THEN "fixed"
                                       ELSE WithMarks(marked)[v]]
         /\ UNCHANGED unsat
  BY DEF UpdateConnected, Conflicting
<1> QED BY <1>1, <1>2, <1>3

\* The same when all clauses are connected and active.
LEMMA UpdateKeeps ==
    ASSUME DatabaseOK, ~unsat => FixedRight,
           NEW I, NEW R, \A c \in I \cup R : Clause(c),
           NEW marked, \A v \in DOMAIN marked : marked[v] \in {"active"} \cup Gone,
           ~unsat => \A c \in I \cup R : \A lit \in c : WithMarks(marked)[vidx(lit)] = "active",
           Update(I, R, marked)
    PROVE  DatabaseOK' /\ (~unsat' => FixedRight')
<1> DEFINE K == {}
<1>1. /\ UpdateConnected(I, R, K, marked)
      /\ \A c \in K : Clause(c) /\ Cardinality(c) > 1
      /\ K # {} => eliminating'.round
      /\ \A c \in K : \A lit \in c : WithMarks(marked)[vidx(lit)] \in {"active", "fixed", "eliminated"}
  BY DEF Update
<1>2. ~unsat => \A c \in I \cup R : \A lit \in c : WithMarks(marked)[vidx(lit)] \in {"active", "fixed"}
  OBVIOUS
<1> HIDE DEF K
<1> QED BY <1>1, <1>2, ConnectedKeeps

\* Clauses of two active literals or more propagate nothing.
LEMMA UpdateQuiet ==
    ASSUME DatabaseOK, ~unsat, FixedRight,
           NEW I, NEW R, \A c \in I \cup R : Clause(c) /\ Cardinality(c) > 1,
           \A c \in I \cup R : \A lit \in c : status[vidx(lit)] = "active",
           NEW marked, Update(I, R, marked)
    PROVE  /\ irredundant' = I /\ redundant' = R \ I /\ root' = root /\ unsat' = unsat
           /\ status' = [v \in Vars |-> IF {v, -v} \cap root # {} THEN "fixed"
                                         ELSE WithMarks(marked)[v]]
<1>1. I \cup R \in SUBSET SUBSET Lits /\ root \in SUBSET Lits
  BY DEF Clause, DatabaseOK, Lits
<1>2. ASSUME NEW c \in I \cup R, NEW lit \in c PROVE lit \notin root /\ -lit \notin root
  <2>1. lit \in Lits /\ vidx(lit) \in Vars /\ status[vidx(lit)] # "fixed"
    BY <1>1, <1>2, LitFacts
  <2>2. {vidx(lit), -vidx(lit)} \cap root = {}
    BY <2>1 DEF FixedRight
  <2> QED BY <2>1, <2>2, LitFacts
<1>3. ASSUME NEW c \in I \cup R, NEW lit PROVE ~(Negated(c \ {lit}) \subseteq root)
  <2>1. PICK k \in c : k # lit
    BY <1>1, TwoLiterals
  <2>2. -k \in Negated(c \ {lit})
    BY <2>1 DEF Negated
  <2> QED BY <1>2, <2>1, <2>2
<1>4. Round(I \cup R, root) = root
  <2>1. \A lit \in Lits : lit \in Round(I \cup R, root) => lit \in root
    <3> DEFINE F == I \cup R
    <3>1. F \in SUBSET SUBSET Lits /\ \A c \in F : \A lit : ~(Negated(c \ {lit}) \subseteq root)
      BY <1>1, <1>3
    <3> HIDE DEF F
    <3>2. \A lit \in Lits : lit \in Round(F, root) =>
             lit \in root \/ \E c \in F : lit \in c /\ -lit \notin root /\ Negated(c \ {lit}) \subseteq root
      BY <1>1, <3>1, RoundFacts, ZenonT(60)
    <3>3. \A lit \in Lits : lit \in Round(F, root) => lit \in root
      <4> SUFFICES ASSUME NEW lit \in Lits, lit \in Round(F, root), lit \notin root PROVE FALSE
        OBVIOUS
      <4>1. PICK c \in F : Negated(c \ {lit}) \subseteq root
        BY <3>2
      <4> QED BY <3>1, <4>1
    <3> QED BY <3>3 DEF F
  <2>2. Round(I \cup R, root) \in SUBSET Lits /\ root \subseteq Round(I \cup R, root)
    BY <1>1, RoundFacts
  <2> QED BY <2>1, <2>2
<1>5. Closure(I \cup R, root, Vars) = root
  BY <1>1, <1>4, ClosureStays
<1>6. \A c \in I \cup R : ~Falsified(c, root)
  <2> SUFFICES ASSUME NEW c \in I \cup R, Falsified(c, root) PROVE FALSE
    OBVIOUS
  <2>1. Negated(c \ {0}) \subseteq root
    BY DEF Falsified, Negated
  <2> QED BY <1>3, <2>1
<1>7. ~Conflicting(I, R)
  BY <1>5, <1>6 DEF Conflicting, DatabaseOK
<1>8. \A c \in I \cup R : ~Satisfied(c, root) /\ c \ Negated(root) = c
  <2> SUFFICES ASSUME NEW c \in I \cup R PROVE ~Satisfied(c, root) /\ c \ Negated(root) = c
    OBVIOUS
  <2>1. \A lit \in c : lit \notin root /\ lit \notin Negated(root)
    <3> SUFFICES ASSUME NEW lit \in c PROVE lit \notin root /\ lit \notin Negated(root)
      OBVIOUS
    <3>1. lit \in Lits /\ lit \notin root /\ -lit \notin root
      BY <1>1, <1>2
    <3> QED BY <1>1, <3>1, NegatedLits
  <2> QED BY <2>1 DEF Satisfied
<1>9. Flushed(I, root) = I /\ Flushed(R, root) = R
  <2>1. \A d : d \in Flushed(I, root) <=> d \in I
    BY <1>8, FlushedMember
  <2>2. \A d : d \in Flushed(R, root) <=> d \in R
    BY <1>8, FlushedMember
  <2> QED BY <2>1, <2>2
<1> QED BY <1>5, <1>7, <1>9, UpdateCases, ZenonT(60)

------------------------------------------------------------------------------
(***************************************************************************)
(* The extension stack.                                                    *)
(***************************************************************************)

Entries == [witness : SUBSET Lits, clause : SUBSET Lits]

\* The witness of an entry is consistent and satisfies the clause.
Entry(e) == e \in Entries /\ ~Tautological(e.witness) /\ Satisfied(e.clause, e.witness)

Stack(ext) == ext \in Seq(Entries) /\ \A i \in 1..Len(ext) : Entry(ext[i])

\* The witness of e contradicts no literal of c.
Spares(e, c) == Negated(e.witness) \cap c = {}

\* Flipping satisfies the clause of the entry, and changes only variables of
\* its witness.
LEMMA FlippedFacts ==
    ASSUME NEW e, Entry(e), NEW B \in Total
    PROVE  /\ Flipped(e, B) \in Total
           /\ Satisfied(e.clause, Flipped(e, B))
           /\ Satisfied(e.clause, B) => Flipped(e, B) = B
           /\ ~Satisfied(e.clause, B) =>
                 \A lit \in Lits : lit \in Flipped(e, B) <=>
                    lit \in e.witness \/ (lit \in B /\ -lit \notin e.witness)
           /\ \A c \in SUBSET Lits : Satisfied(c, B) /\ Spares(e, c) => Satisfied(c, Flipped(e, B))
<1> DEFINE w == e.witness
           D == (B \ Negated(w)) \cup w
<1>1. w \in SUBSET Lits /\ ~Tautological(w) /\ e.clause \in SUBSET Lits
  BY DEF Entry, Entries
<1>2. B \in SUBSET Lits /\ \A lit \in Lits : lit \in B <=> -lit \notin B
  BY TotalFacts
<1>3. \A lit \in Lits : lit \in D <=> lit \in w \/ (lit \in B /\ -lit \notin w)
  BY <1>1, NegatedLits
<1>4. D \in Total
  <2>1. D \in SUBSET Lits
    BY <1>1, <1>2
  <2>2. \A lit \in Lits : -lit \in Lits /\ -(-lit) = lit
    BY LitFacts
  <2>3. \A lit \in w : -lit \notin w
    BY <1>1 DEF Tautological
  <2> HIDE DEF D, w
  <2>4. ASSUME NEW lit \in Lits PROVE lit \in D <=> -lit \notin D
    BY <1>2, <1>3, <2>2, <2>3
  <2> QED BY <2>1, <2>4, TotalChar
<1>5. CASE Satisfied(e.clause, B)
  <2>1. Flipped(e, B) = B
    BY <1>5 DEF Flipped
  <2> QED BY <1>5, <2>1
<1>6. CASE ~Satisfied(e.clause, B)
  <2>1. Flipped(e, B) = D
    BY <1>6 DEF Flipped
  <2>2. Satisfied(e.clause, D)
    BY DEF Entry, Satisfied
  <2>3. ASSUME NEW c \in SUBSET Lits, Satisfied(c, B), Spares(e, c)
        PROVE  Satisfied(c, D)
    <3>1. PICK k \in c : k \in B
      BY <2>3 DEF Satisfied
    <3>2. k \notin Negated(w)
      BY <2>3, <3>1 DEF Spares
    <3> QED BY <3>1, <3>2 DEF Satisfied
  <2> HIDE DEF D
  <2> QED BY <1>3, <1>4, <1>6, <2>1, <2>2, <2>3
<1> QED BY <1>5, <1>6

\* Going down the stack, the entries of K flip their witnesses.
Runs(ext, K, C) ==
    /\ C \in [0..Len(ext) -> Total]
    /\ \A i \in 1..Len(ext) : C[i - 1] = IF i \in K THEN Flipped(ext[i], C[i]) ELSE C[i]

\* The entries of K spare the clauses of the entries below that are left out.
Closed(ext, K) ==
    /\ K \in SUBSET (1..Len(ext))
    /\ \A j \in K, i \in 1..Len(ext) : i \notin K /\ i < j => Spares(ext[j], ext[i].clause)

\* The clauses of the entries that are left out hold.
Kept(ext, K, B) == \A i \in 1..Len(ext) : i \notin K => Satisfied(ext[i].clause, B)

\* From every assignment of X, a run down the stack ends in Y.
Reconstructs(ext, X, Y) ==
    \A K, C : Runs(ext, K, C) /\ Closed(ext, K) /\ C[Len(ext)] \in X /\ Kept(ext, K, C[Len(ext)])
                 => C[0] \in Y

\* Unless it reaches a tainted entry that is still to be visited.
Untainted(ext, K, from, taints) == \A j \in K : j >= from => Spares(ext[j], taints)

ReconstructsUntainted(ext, X, Y, from, taints) ==
    \A K, C : Runs(ext, K, C) /\ Closed(ext, K) /\ C[Len(ext)] \in X /\ Kept(ext, K, C[Len(ext)])
                 => (Untainted(ext, K, from, taints) => C[0] \in Y)

\* A clause that all entries of a run spare is not lost.
LEMMA RunSpares ==
    ASSUME NEW ext, Stack(ext), NEW K, NEW C, Runs(ext, K, C), NEW c \in SUBSET Lits,
           \A j \in K : j \in 1..Len(ext) => Spares(ext[j], c),
           Satisfied(c, C[Len(ext)])
    PROVE  \A i \in 0..Len(ext) : Satisfied(c, C[i])
<1> DEFINE n == Len(ext)
           P == {i \in 0..n : Satisfied(c, C[i])}
<1>1. n \in Nat
  BY DEF Stack
<1>2. n \in P
  BY <1>1
<1>3. \A i \in 1..n : i \in P => i - 1 \in P
  <2> SUFFICES ASSUME NEW i \in 1..n, Satisfied(c, C[i]) PROVE i - 1 \in 0..n /\ Satisfied(c, C[i - 1])
    OBVIOUS
  <2>1. i - 1 \in 0..n /\ C[i] \in Total /\ Entry(ext[i])
    BY <1>1 DEF Runs, Stack
  <2>2. C[i - 1] = IF i \in K THEN Flipped(ext[i], C[i]) ELSE C[i]
    BY DEF Runs
  <2>3. CASE i \in K
    BY <2>1, <2>2, <2>3, FlippedFacts
  <2>4. CASE i \notin K
    BY <2>1, <2>2, <2>4
  <2> QED BY <2>3, <2>4
<1>4. \A i \in 0..n : i \in P
  <2> HIDE DEF P, n
  <2> QED BY <1>1, <1>2, <1>3, DownTo
<1> QED BY <1>4

\* One entry.
LEMMA PushOne ==
    ASSUME NEW e, Entry(e), NEW X, NEW Y, \A B \in X : B \in Total => Flipped(e, B) \in Y
    PROVE  Reconstructs(<<e>>, X, Y)
<1> SUFFICES ASSUME NEW K, NEW C, Runs(<<e>>, K, C), C[1] \in X, Kept(<<e>>, K, C[1])
             PROVE  C[0] \in Y
  BY DEF Reconstructs
<1>1. C[1] \in Total /\ C[0] = IF 1 \in K THEN Flipped(e, C[1]) ELSE C[1]
  BY DEF Runs
<1>2. CASE 1 \in K
  BY <1>1, <1>2
<1>3. CASE 1 \notin K
  <2>1. Satisfied(e.clause, C[1])
    BY <1>3 DEF Kept
  <2>2. Flipped(e, C[1]) = C[1]
    BY <1>1, <2>1, FlippedFacts
  <2> QED BY <1>1, <1>3, <2>2
<1> QED BY <1>2, <1>3

\* Nothing pushed, nothing to reconstruct.
LEMMA PushNothing ==
    ASSUME NEW X, NEW Y, X \subseteq Y
    PROVE  Reconstructs(<<>>, X, Y)
BY DEF Reconstructs

\* Several entries of a kind: a flip keeps X and the clauses above.
LEMMA PushBatch ==
    ASSUME NEW es, Stack(es), NEW X, NEW Y,
           \A i \in 1..Len(es), B \in X \cap Total :
               /\ ~Satisfied(es[i].clause, B)
               /\ \A j \in (i + 1)..Len(es) : Satisfied(es[j].clause, B)
               => /\ Flipped(es[i], B) \in X
                  /\ \A j \in (i + 1)..Len(es) : Satisfied(es[j].clause, Flipped(es[i], B)),
           \A B \in X \cap Total : (\A j \in 1..Len(es) : Satisfied(es[j].clause, B)) => B \in Y
    PROVE  Reconstructs(es, X, Y)
<1> DEFINE n == Len(es)
<1>1. n \in Nat
  BY DEF Stack
<1> SUFFICES ASSUME NEW K, NEW C, Runs(es, K, C), Closed(es, K), C[n] \in X, Kept(es, K, C[n])
             PROVE  C[0] \in Y
  BY DEF Reconstructs
<1> DEFINE P == {i \in 0..n : /\ C[i] \in X
                              /\ \A j \in (i + 1)..n : Satisfied(es[j].clause, C[i])
                              /\ \A j \in 1..n : j \notin K => Satisfied(es[j].clause, C[i])}
<1>2. n \in P
  BY <1>1 DEF Kept
<1>3. \A i \in 1..n : i \in P => i - 1 \in P
  <2> SUFFICES ASSUME NEW i \in 1..n, i \in P PROVE i - 1 \in P
    OBVIOUS
  <2>1. i - 1 \in 0..n /\ i \in 0..n /\ C[i] \in Total /\ C[i] \in X /\ Entry(es[i])
    BY <1>1 DEF Runs, Stack
  <2>2. C[i - 1] = IF i \in K THEN Flipped(es[i], C[i]) ELSE C[i]
    BY DEF Runs
  <2>3. CASE Satisfied(es[i].clause, C[i])
    <3>1. C[i - 1] = C[i]
      BY <2>1, <2>2, <2>3, FlippedFacts
    <3>2. \A j \in ((i - 1) + 1)..n : j = i \/ j \in (i + 1)..n
      BY <1>1
    <3> QED BY <2>1, <2>3, <3>1, <3>2
  <2>4. CASE ~Satisfied(es[i].clause, C[i])
    <3>1. i \in K /\ C[i - 1] = Flipped(es[i], C[i])
      BY <2>2, <2>4
    <3>2. Flipped(es[i], C[i]) \in X /\ \A j \in (i + 1)..n : Satisfied(es[j].clause, Flipped(es[i], C[i]))
      BY <2>1, <2>4
    <3>3. Satisfied(es[i].clause, Flipped(es[i], C[i]))
      BY <2>1, FlippedFacts
    <3>4. ASSUME NEW j \in 1..n, j \notin K PROVE Satisfied(es[j].clause, Flipped(es[i], C[i]))
      <4>1. j \in (i + 1)..n \/ j < i
        BY <1>1, <3>1, <3>4
      <4>2. CASE j < i
        <5>1. Spares(es[i], es[j].clause)
          BY <3>1, <3>4, <4>2 DEF Closed
        <5>2. Satisfied(es[j].clause, C[i]) /\ es[j].clause \in SUBSET Lits
          BY <3>4 DEF Stack, Entry, Entries
        <5> QED BY <2>1, <5>1, <5>2, FlippedFacts
      <4> QED BY <3>2, <4>1, <4>2
    <3>5. \A j \in ((i - 1) + 1)..n : j = i \/ j \in (i + 1)..n
      BY <1>1
    <3> QED BY <2>1, <3>1, <3>2, <3>3, <3>4, <3>5
  <2> QED BY <2>3, <2>4
<1>4. 0 \in P
  <2> HIDE DEF P, n
  <2>1. \A i \in 0..n : i \in P
    BY <1>1, <1>2, <1>3, DownTo
  <2> QED BY <1>1, <2>1
<1>5. C[0] \in Total /\ \A j \in 1..n : Satisfied(es[j].clause, C[0])
  BY <1>1, <1>4 DEF Runs
<1> QED BY <1>4, <1>5

\* Pushing entries that lead from X2 to X1 on a stack that leads from X1 to Y.
LEMMA PushAll ==
    ASSUME NEW ext, Stack(ext), NEW es, Stack(es), NEW X1, NEW X2, NEW Y,
           Reconstructs(ext, X1, Y), Reconstructs(es, X2, X1)
    PROVE  Stack(ext \o es) /\ Reconstructs(ext \o es, X2, Y)
<1> DEFINE n == Len(ext)
           m == Len(es)
           all == ext \o es
<1>1. /\ n \in Nat /\ m \in Nat /\ all \in Seq(Entries) /\ Len(all) = n + m
      /\ \A i \in 1..n : all[i] = ext[i]
      /\ \A i \in 1..m : all[n + i] = es[i]
  BY DEF Stack
<1>2. Stack(all)
  <2> SUFFICES ASSUME NEW i \in 1..(n + m) PROVE Entry(all[i])
    BY <1>1 DEF Stack
  <2>1. CASE i \in 1..n
    BY <1>1, <2>1 DEF Stack
  <2>2. CASE i - n \in 1..m
    <3>1. all[n + (i - n)] = es[i - n]
      BY <1>1, <2>2
    <3>2. n + (i - n) = i
      BY <1>1
    <3> QED BY <2>2, <3>1, <3>2 DEF Stack
  <2> QED BY <1>1, <2>1, <2>2
<1> HIDE DEF all
<1> SUFFICES ASSUME NEW K, NEW C, Runs(all, K, C), Closed(all, K), C[n + m] \in X2, Kept(all, K, C[n + m])
             PROVE  C[0] \in Y
  BY <1>1, <1>2 DEF Reconstructs, all
<1> DEFINE K1 == K \cap (1..n)
           K2 == {i \in 1..m : n + i \in K}
           C1 == [i \in 0..n |-> C[i]]
           C2 == [i \in 0..m |-> C[n + i]]
<1>3. /\ C \in [0..(n + m) -> Total] /\ C1 \in [0..n -> Total] /\ C2 \in [0..m -> Total]
      /\ \A i \in 1..(n + m) : C[i - 1] = IF i \in K THEN Flipped(all[i], C[i]) ELSE C[i]
  <2>1. C \in [0..(n + m) -> Total]
    BY <1>1 DEF Runs
  <2>2. \A i \in 0..n : i \in 0..(n + m)
    BY <1>1
  <2>3. \A i \in 0..m : n + i \in 0..(n + m)
    BY <1>1
  <2> QED BY <1>1, <2>1, <2>2, <2>3 DEF Runs
<1>4. Runs(es, K2, C2)
  <2> SUFFICES ASSUME NEW i \in 1..m
               PROVE  C2[i - 1] = IF i \in K2 THEN Flipped(es[i], C2[i]) ELSE C2[i]
    BY <1>3 DEF Runs
  <2>1. n + i \in 1..(n + m) /\ (n + i) - 1 = n + (i - 1) /\ i - 1 \in 0..m /\ i \in 0..m
    BY <1>1
  <2>2. C[n + (i - 1)] = IF n + i \in K THEN Flipped(all[n + i], C[n + i]) ELSE C[n + i]
    BY <1>3, <2>1
  <2> QED BY <1>1, <2>1, <2>2
<1>5. Closed(es, K2)
  <2> SUFFICES ASSUME NEW j \in K2, NEW i \in 1..m, i \notin K2, i < j
               PROVE  Spares(es[j], es[i].clause)
    BY DEF Closed
  <2>1. n + j \in K /\ n + i \in 1..(n + m) /\ n + i \notin K /\ n + i < n + j
    BY <1>1
  <2>2. Spares(all[n + j], all[n + i].clause)
    BY <1>1, <2>1 DEF Closed
  <2> QED BY <1>1, <2>2
<1>6. Kept(es, K2, C2[m])
  <2> SUFFICES ASSUME NEW i \in 1..m, i \notin K2 PROVE Satisfied(es[i].clause, C2[m])
    BY DEF Kept
  <2>1. n + i \in 1..(n + m) /\ n + i \notin K /\ m \in 0..m
    BY <1>1
  <2> QED BY <1>1, <2>1 DEF Kept
<1>7. C[n] \in X1
  <2>1. C2[m] \in X2 /\ C2[0] = C[n]
    BY <1>1
  <2> HIDE DEF C2, K2
  <2>2. C2[0] \in X1
    BY <1>4, <1>5, <1>6, <2>1 DEF Reconstructs
  <2> QED BY <2>1, <2>2
<1>8. Runs(ext, K1, C1)
  <2> SUFFICES ASSUME NEW i \in 1..n
               PROVE  C1[i - 1] = IF i \in K1 THEN Flipped(ext[i], C1[i]) ELSE C1[i]
    BY <1>3 DEF Runs
  <2>1. i \in 1..(n + m) /\ i - 1 \in 0..n /\ i \in 0..n
    BY <1>1
  <2> QED BY <1>1, <1>3, <2>1
<1>9. Closed(ext, K1)
  <2> SUFFICES ASSUME NEW j \in K1, NEW i \in 1..n, i \notin K1, i < j
               PROVE  Spares(ext[j], ext[i].clause)
    BY DEF Closed
  <2>1. j \in K /\ i \in 1..(n + m) /\ i \notin K /\ j \in 1..n
    BY <1>1
  <2> QED BY <1>1, <2>1 DEF Closed
<1>10. Kept(ext, K1, C1[n])
  <2> SUFFICES ASSUME NEW i \in 1..n, i \notin K1 PROVE Satisfied(ext[i].clause, C[n])
    BY <1>1 DEF Kept
  <2>1. i \in 1..(n + m) /\ i \notin K /\ all[i] = ext[i] /\ ext[i].clause \in SUBSET Lits
    BY <1>1 DEF Stack, Entry, Entries
  <2>2. Satisfied(ext[i].clause, C[n + m])
    BY <1>1, <2>1 DEF Kept
  <2>3. \A j \in K2 : Spares(es[j], ext[i].clause)
    <3> SUFFICES ASSUME NEW j \in K2 PROVE Spares(es[j], ext[i].clause)
      OBVIOUS
    <3>1. n + j \in K /\ i < n + j /\ j \in 1..m
      BY <1>1
    <3>2. Spares(all[n + j], all[i].clause)
      BY <1>1, <2>1, <3>1 DEF Closed
    <3> QED BY <1>1, <2>1, <3>1, <3>2
  <2>4. C2[m] = C[n + m] /\ C2[0] = C[n] /\ 0 \in 0..m
    BY <1>1
  <2> HIDE DEF C2, K2
  <2>5. Satisfied(ext[i].clause, C2[0])
    BY <1>4, <2>1, <2>2, <2>3, <2>4, RunSpares
  <2> QED BY <2>4, <2>5
<1>11. C1[n] = C[n] /\ C1[0] = C[0]
  BY <1>1
<1> HIDE DEF C1, K1
<1> QED BY <1>7, <1>8, <1>9, <1>10, <1>11 DEF Reconstructs

------------------------------------------------------------------------------
(***************************************************************************)
(* Techniques that only add or remove clauses that follow from others.     *)
(***************************************************************************)

ActiveClause(c) == Clause(c) /\ \A lit \in c : status[vidx(lit)] = "active"

\* What holds before every step of a technique.
Open ==
    /\ DatabaseOK /\ FixedRight /\ ~unsat
    /\ frozen \in SUBSET Vars /\ \A v \in frozen : status[v] \notin Gone

\* All clauses are active when no round of elimination is under way.
Ready == Open /\ ~eliminating.round

\* The total assignments that satisfy the irredundant clauses, or all.
Mod == {B \in Total : Holds(irredundant, B) /\ root \subseteq B}
All == {B \in Total : Holds(Database, B) /\ root \subseteq B}

\* A step keeps it.
Preserved ==
    DatabaseOK' /\ (~unsat' => FixedRight' /\ \A v \in frozen : status'[v] \notin Gone)

\* What a step adds, or that there is no model, follows.
Follows == \A B \in All : ~unsat' /\ B \in All'

\* A step that loses no model and pushes nothing.
PlainOK == Preserved /\ Follows /\ (~unsat' => Mod' \subseteq Mod)

\* What a technique finds.
LEMMA OpenFacts ==
    ASSUME Open
    PROVE  /\ \A c \in irredundant : ActiveClause(c) /\ Cardinality(c) > 1
           /\ \A c \in Database : Clause(c) /\ Cardinality(c) > 1
           /\ irredundant \in SUBSET SUBSET Lits /\ redundant \in SUBSET SUBSET Lits
           /\ Database \in SUBSET SUBSET Lits /\ Database = irredundant \cup redundant
           /\ irredundant \cap redundant = {}
           /\ root \in SUBSET Lits
           /\ All \in SUBSET Mod
BY DEF Open, DatabaseOK, FixedRight, ActiveClause, Clause, Lits, Database, All, Mod, Holds

LEMMA ReadyFacts ==
    ASSUME Ready
    PROVE  /\ \A c \in Database : ActiveClause(c) /\ Cardinality(c) > 1
           /\ irredundant \in SUBSET SUBSET Lits /\ redundant \in SUBSET SUBSET Lits
           /\ Database \in SUBSET SUBSET Lits /\ Database = irredundant \cup redundant
           /\ root \in SUBSET Lits
           /\ All \in SUBSET Mod
<1>1. Open /\ Unconnected = {}
  BY DEF Ready, Unconnected
<1>2. \A c \in redundant : \A lit \in c : status[vidx(lit)] = "active"
  BY <1>1 DEF Open, FixedRight
<1>3. \A c \in redundant : ActiveClause(c) /\ Cardinality(c) > 1
  BY <1>1, <1>2, OpenFacts DEF ActiveClause, Database
<1> QED BY <1>1, <1>3, OpenFacts

\* The literals of active variables.
LEMMA ActiveLits ==
    ASSUME NEW lit
    PROVE  lit \in ActiveLiterals <=> lit \in Lits /\ status[vidx(lit)] = "active"
<1>1. lit \in ActiveLiterals <=> \E v \in Vars : status[v] = "active" /\ (lit = v \/ lit = -v)
  BY DEF ActiveLiterals, Literals, Active, Negated
<1>2. lit \in Lits <=> \E v \in Vars : lit = v \/ lit = -v
  BY DEF Lits, Literals, Negated
<1>3. \A v \in Vars : vidx(v) = v /\ vidx(-v) = v
  BY LitFacts
<1> QED BY <1>1, <1>2, <1>3

\* The negation of an active literal is active.
LEMMA ActiveNegated ==
    ASSUME NEW lit \in ActiveLiterals
    PROVE  lit \in Lits /\ -lit \in ActiveLiterals /\ -(-lit) = lit /\ lit \in Int
BY ActiveLits, LitFacts

\* An active clause is a consistent set of active literals.
LEMMA ActiveClauseLits ==
    ASSUME NEW c
    PROVE  ActiveClause(c) <=> c \subseteq ActiveLiterals /\ ~Tautological(c)
BY ActiveLits DEF ActiveClause, Clause

\* A part of an active clause is one.
LEMMA SubClause ==
    ASSUME NEW c, ActiveClause(c), NEW e \in SUBSET c
    PROVE  ActiveClause(e)
BY DEF ActiveClause, Clause, Tautological

\* Marking no variable changes no status.
LEMMA UnmarkedStatus ==
    ASSUME DatabaseOK
    PROVE  WithMarks(Unmarked) = status /\ DOMAIN Unmarked = {}
<1>1. DOMAIN Unmarked = {}
  BY DEF Unmarked
<1>2. status \in [Vars -> {"unused", "active", "fixed"} \cup Gone]
  BY DEF DatabaseOK
<1> QED BY <1>1, <1>2 DEF WithMarks

\* An update with clauses that follow from those there are, which gives
\* variables a new status that occur in no connected clause.
LEMMA ConnectedUpdate ==
    ASSUME Open, NEW I, NEW R, NEW K, \A c \in I \cup R : Clause(c),
           \A c \in K : Clause(c) /\ Cardinality(c) > 1, K # {} => eliminating'.round,
           NEW marked, \A v \in DOMAIN marked : marked[v] \in {"active"} \cup Gone /\ v \notin frozen,
           \A c \in I \cup R : \A lit \in c : WithMarks(marked)[vidx(lit)] \in {"active", "fixed"},
           \A c \in K : \A lit \in c :
              WithMarks(marked)[vidx(lit)] \in {"active", "fixed", "eliminated"},
           \A B \in All : Holds(I, B) /\ Holds(R, B) /\ Holds(K, B),
           UpdateConnected(I, R, K, marked)
    PROVE  /\ Preserved /\ Follows
           /\ ~unsat' => \A B \in Total : Holds(irredundant', B) /\ root' \subseteq B
                            => Holds(I, B) /\ root \subseteq B
<1>1. I \in SUBSET SUBSET Lits /\ R \in SUBSET SUBSET Lits /\ root \in SUBSET Lits
  BY OpenFacts DEF Clause
<1>2. DatabaseOK' /\ (~unsat' => FixedRight')
  BY ConnectedKeeps DEF Open
<1>m. ~unsat' => status' = [v \in Vars |-> IF {v, -v} \cap root' # {} THEN "fixed"
                                            ELSE WithMarks(marked)[v]]
  BY DEF UpdateConnected
<1>3. ASSUME ~unsat', NEW v \in frozen PROVE status'[v] \notin Gone
  <2>1. v \in Vars /\ status[v] \notin Gone /\ v \notin DOMAIN marked
    BY DEF Open
  <2>2. WithMarks(marked)[v] = status[v]
    BY <2>1 DEF WithMarks
  <2>3. status'[v] \in {"fixed", WithMarks(marked)[v]}
    BY <1>3, <1>m, <2>1
  <2> QED BY <2>1, <2>2, <2>3 DEF Gone
<1>4. Follows
  <2> SUFFICES ASSUME NEW B \in All PROVE ~unsat' /\ B \in All'
    BY DEF Follows
  <2>1. B \in Total /\ root \subseteq B /\ Holds(I, B) /\ Holds(R, B) /\ Holds(K, B) /\ ~unsat
    BY DEF All, Open
  <2>2. Holds(irredundant', B) /\ Holds(redundant', B) /\ root' \subseteq B /\ unsat' = unsat
    BY <1>1, <2>1, ConnectedForth
  <2> QED BY <2>1, <2>2 DEF All, Database, Holds
<1>5. ~unsat' => \A B \in Total : Holds(irredundant', B) /\ root' \subseteq B
                                     => Holds(I, B) /\ root \subseteq B
  BY <1>1, ConnectedBack
<1> QED BY <1>2, <1>3, <1>4, <1>5 DEF Preserved

\* The assignments that the clauses I leave, before the root level changes.
ModelsOf(I) == {B \in Total : Holds(I, B) /\ root \subseteq B}

\* The same when all clauses are connected and active.
LEMMA MarkedUpdate ==
    ASSUME Ready, NEW I, NEW R, NEW marked,
           \A c \in I \cup R : ActiveClause(c) /\ \A lit \in c : WithMarks(marked)[vidx(lit)] = "active",
           \A v \in DOMAIN marked : marked[v] \in {"active"} \cup Gone /\ v \notin frozen,
           \A B \in All : Holds(I, B) /\ Holds(R, B),
           Update(I, R, marked)
    PROVE  Preserved /\ Follows /\ (~unsat' => Mod' \subseteq ModelsOf(I))
<1> DEFINE K == {}
<1>1. /\ UpdateConnected(I, R, K, marked) /\ Open
      /\ \A c \in K : Clause(c) /\ Cardinality(c) > 1
      /\ K # {} => eliminating'.round
      /\ \A c \in K : \A lit \in c : WithMarks(marked)[vidx(lit)] \in {"active", "fixed", "eliminated"}
      /\ \A B \in All : Holds(K, B)
  BY DEF Update, Ready, Holds
<1>2. /\ \A c \in I \cup R : Clause(c)
      /\ \A c \in I \cup R : \A lit \in c : WithMarks(marked)[vidx(lit)] \in {"active", "fixed"}
  BY DEF ActiveClause
<1> HIDE DEF K
<1>3. /\ Preserved /\ Follows
      /\ ~unsat' => \A B \in Total : Holds(irredundant', B) /\ root' \subseteq B
                       => Holds(I, B) /\ root \subseteq B
  BY <1>1, <1>2, ConnectedUpdate
<1> QED BY <1>3 DEF Mod, ModelsOf

\* ... and no status is new.
LEMMA GeneralUpdate ==
    ASSUME Ready, NEW I, NEW R, \A c \in I \cup R : ActiveClause(c),
           \A B \in All : Holds(I, B) /\ Holds(R, B),
           Update(I, R, Unmarked)
    PROVE  /\ Preserved /\ Follows
           /\ ~unsat' => \A B \in Total : Holds(irredundant', B) /\ root' \subseteq B
                            => Holds(I, B) /\ root \subseteq B
<1>1. WithMarks(Unmarked) = status /\ DOMAIN Unmarked = {}
  BY UnmarkedStatus DEF Ready, Open
<1> DEFINE m == Unmarked
<1>2. /\ \A c \in I \cup R : ActiveClause(c) /\ \A lit \in c : WithMarks(m)[vidx(lit)] = "active"
      /\ \A v \in DOMAIN m : m[v] \in {"active"} \cup Gone /\ v \notin frozen
      /\ Update(I, R, m)
  BY <1>1 DEF ActiveClause
<1> HIDE DEF m
<1>3. Preserved /\ Follows /\ (~unsat' => Mod' \subseteq ModelsOf(I))
  BY <1>2, MarkedUpdate
<1> QED BY <1>3 DEF Mod, ModelsOf

\* An update in a round of elimination: the redundant clauses stay, also with
\* a variable that is eliminated.
LEMMA ElimUpdate ==
    ASSUME Open, NEW I, NEW marked, eliminating'.round,
           \A c \in I : Clause(c) /\ \A lit \in c : WithMarks(marked)[vidx(lit)] = "active",
           \A v \in DOMAIN marked : marked[v] \in {"active", "eliminated"} /\ v \notin frozen,
           \A B \in All : Holds(I, B),
           elim_update(I, marked)
    PROVE  Preserved /\ Follows /\ (~unsat' => Mod' \subseteq ModelsOf(I))
<1> DEFINE R == {}
           K == redundant
<1>1. UpdateConnected(I, R, K, marked)
  BY DEF elim_update
<1>2. /\ \A c \in I \cup R : Clause(c)
      /\ \A c \in I \cup R : \A lit \in c : WithMarks(marked)[vidx(lit)] \in {"active", "fixed"}
      /\ \A v \in DOMAIN marked : marked[v] \in {"active"} \cup Gone /\ v \notin frozen
  BY DEF Gone
<1>3. \A c \in K : Clause(c) /\ Cardinality(c) > 1
  BY OpenFacts
<1>4. ASSUME NEW c \in K, NEW lit \in c
      PROVE  WithMarks(marked)[vidx(lit)] \in {"active", "fixed", "eliminated"}
  <2>1. vidx(lit) \in Vars /\ status[vidx(lit)] \in {"active", "fixed", "eliminated"}
    <3>1. lit \in Lits
      BY <1>3, <1>4 DEF Clause
    <3> QED BY <1>4, <3>1, LitFacts DEF Open, FixedRight, Unconnected
  <2>2. DOMAIN status = Vars
    BY DEF Open, DatabaseOK
  <2>3. WithMarks(marked)[vidx(lit)] = IF vidx(lit) \in DOMAIN marked THEN marked[vidx(lit)]
                                       ELSE status[vidx(lit)]
    BY <2>1, <2>2, MergedAt
  <2> QED BY <2>1, <2>3
<1>5. \A B \in All : Holds(I, B) /\ Holds(R, B) /\ Holds(K, B)
  BY DEF All, Holds, Database
<1> HIDE DEF R, K
<1>6. /\ Preserved /\ Follows
      /\ ~unsat' => \A B \in Total : Holds(irredundant', B) /\ root' \subseteq B
                       => Holds(I, B) /\ root \subseteq B
  BY <1>1, <1>2, <1>3, <1>4, <1>5, ConnectedUpdate
<1> QED BY <1>6 DEF Mod, ModelsOf

\* ... and the irredundant clauses still imply the old ones.
LEMMA ElimPlain ==
    ASSUME Open, NEW I, eliminating'.round, \A c \in I : ActiveClause(c),
           \A B \in All : Holds(I, B),
           \A B \in Total : Holds(I, B) => Holds(irredundant, B),
           elim_update(I, Unmarked)
    PROVE  PlainOK
<1>1. WithMarks(Unmarked) = status /\ DOMAIN Unmarked = {}
  BY UnmarkedStatus DEF Open
<1> DEFINE m == Unmarked
<1>2. /\ \A c \in I : Clause(c) /\ \A lit \in c : WithMarks(m)[vidx(lit)] = "active"
      /\ \A v \in DOMAIN m : m[v] \in {"active", "eliminated"} /\ v \notin frozen
      /\ elim_update(I, m)
  BY <1>1 DEF ActiveClause
<1> HIDE DEF m
<1>3. Preserved /\ Follows /\ (~unsat' => Mod' \subseteq ModelsOf(I))
  BY <1>2, ElimUpdate
<1> QED BY <1>3 DEF PlainOK, Mod, ModelsOf

\* It is plain when the irredundant clauses still imply the old ones.
LEMMA PlainUpdate ==
    ASSUME Ready, NEW I, NEW R, \A c \in I \cup R : ActiveClause(c),
           \A B \in All : Holds(I, B) /\ Holds(R, B),
           \A B \in Total : Holds(I, B) => Holds(irredundant, B),
           Update(I, R, Unmarked)
    PROVE  PlainOK
<1>1. /\ Preserved /\ Follows
      /\ ~unsat' => \A B \in Total : Holds(irredundant', B) /\ root' \subseteq B
                       => Holds(I, B) /\ root \subseteq B
  BY GeneralUpdate
<1> QED BY <1>1 DEF PlainOK, Mod

\* c is replaced by a clause that follows, and is contained in it.
LEMMA ShortenPlain ==
    ASSUME Ready, NEW c \in Database, NEW e \in SUBSET c, \A B \in All : Satisfied(e, B),
           Update(Replaced(irredundant, c, e), Replaced(redundant, c, e), Unmarked)
    PROVE  PlainOK
<1> DEFINE I == Replaced(irredundant, c, e)
           R == Replaced(redundant, c, e)
<1>1. \A d \in I \cup R : d = e \/ d \in Database
  BY DEF Replaced, Database
<1>2. \A d \in I \cup R : ActiveClause(d)
  BY <1>1, SubClause, ReadyFacts
<1>3. \A B \in All : Holds(I, B) /\ Holds(R, B)
  BY <1>1 DEF Holds, All
<1>4. \A d \in irredundant : d \in I \/ (d = c /\ e \in I)
  BY DEF Replaced
<1>5. \A B \in Total : Holds(I, B) => Holds(irredundant, B)
  BY <1>4 DEF Holds, Satisfied
<1> HIDE DEF I, R
<1> QED BY <1>2, <1>3, <1>5, PlainUpdate DEF I, R

\* c is removed: if it is irredundant, it follows from the others that are.
LEMMA RemovePlain ==
    ASSUME Ready, NEW c,
           c \in irredundant => \A B \in Total : Holds(irredundant \ {c}, B) => Satisfied(c, B),
           Update(irredundant \ {c}, redundant \ {c}, Unmarked)
    PROVE  PlainOK
<1> DEFINE I == irredundant \ {c}
           R == redundant \ {c}
<1>1. \A d \in I \cup R : ActiveClause(d) /\ d \in Database
  BY ReadyFacts
<1>2. \A B \in All : Holds(I, B) /\ Holds(R, B)
  BY <1>1 DEF Holds, All
<1>3. \A B \in Total : Holds(I, B) => Holds(irredundant, B)
  BY DEF Holds
<1> HIDE DEF I, R
<1> QED BY <1>1, <1>2, <1>3, PlainUpdate DEF I, R

\* Clauses that follow are added.
LEMMA AddPlain ==
    ASSUME Ready, NEW F, NEW G, \A c \in F \cup G : ActiveClause(c) /\ \A B \in All : Satisfied(c, B),
           Update(irredundant \cup F, redundant \cup G, Unmarked)
    PROVE  PlainOK
<1> DEFINE I == irredundant \cup F
           R == redundant \cup G
<1>1. \A d \in I \cup R : ActiveClause(d) /\ \A B \in All : Satisfied(d, B)
  BY ReadyFacts DEF All, Holds
<1>2. \A B \in All : Holds(I, B) /\ Holds(R, B)
  BY <1>1 DEF Holds
<1>3. \A B \in Total : Holds(I, B) => Holds(irredundant, B)
  BY DEF Holds
<1> HIDE DEF I, R
<1> QED BY <1>1, <1>2, <1>3, PlainUpdate DEF I, R

\* Irredundant clauses are added that follow.
LEMMA AddIrredundant ==
    ASSUME Ready, NEW F, \A c \in F : ActiveClause(c) /\ \A B \in All : Satisfied(c, B),
           Update(irredundant \cup F, redundant, Unmarked)
    PROVE  PlainOK
<1> DEFINE G == {}
<1>1. /\ \A c \in F \cup G : ActiveClause(c) /\ \A B \in All : Satisfied(c, B)
      /\ redundant = redundant \cup G
  OBVIOUS
<1> HIDE DEF G
<1>2. Update(irredundant \cup F, redundant \cup G, Unmarked)
  BY <1>1
<1> QED BY <1>1, <1>2, AddPlain

\* A resolvent follows from its antecedents.
LEMMA ResolventHolds ==
    ASSUME NEW c \in SUBSET Lits, NEW d \in SUBSET Lits, NEW lit, lit \in c,
           NEW B \in Total, Satisfied(c, B), Satisfied(d, B)
    PROVE  Satisfied(Resolvent(c, d, lit), B)
<1>1. lit \in Lits /\ (lit \in B <=> -lit \notin B)
  BY TotalFacts
<1> QED BY <1>1 DEF Satisfied, Resolvent

\* One of the literals that propagation refutes is false.
LEMMA RefutedImplies ==
    ASSUME NEW F \in SUBSET SUBSET Lits, NEW L \in SUBSET Lits, Refuted(F, L, Vars),
           NEW B \in Total, Holds(F, B)
    PROVE  \E lit \in L : lit \in Lits /\ lit \notin B
BY RefutedSound

\* ... the negations of a clause.
LEMMA RefutedClause ==
    ASSUME NEW F \in SUBSET SUBSET Lits, NEW c \in SUBSET Lits, Refuted(F, Negated(c), Vars),
           NEW B \in Total, Holds(F, B)
    PROVE  Satisfied(c, B)
<1>1. Negated(c) \in SUBSET Lits
  BY NegatedLits
<1>2. PICK lit \in Negated(c) : lit \in Lits /\ lit \notin B
  BY <1>1, RefutedImplies
<1>3. -lit \in c /\ -lit \in Lits /\ -(-lit) = lit
  BY <1>1, <1>2, NegatedLits, LitFacts
<1> QED BY <1>2, <1>3, TotalFacts DEF Satisfied

\* Self-subsuming resolution: the strengthened clause follows.
LEMMA StrengthensHolds ==
    ASSUME Open, NEW c \in Database, NEW d \in Database, NEW lit, Strengthens(d, c, lit)
    PROVE  \A B \in All : Satisfied(c \ {-lit}, B)
<1> SUFFICES ASSUME NEW B \in All PROVE Satisfied(c \ {-lit}, B)
  OBVIOUS
<1>1. c \in SUBSET Lits /\ d \in SUBSET Lits /\ B \in Total /\ Satisfied(c, B) /\ Satisfied(d, B)
  BY OpenFacts DEF All, Holds
<1>2. lit \in d /\ d \ {lit} \subseteq c \ {-lit}
  BY DEF Strengthens
<1>3. Satisfied(Resolvent(d, c, lit), B)
  BY <1>1, <1>2, ResolventHolds
<1> QED BY <1>2, <1>3 DEF Resolvent, Satisfied

\* Subsumption and strengthening are plain (subsume.cpp).
LEMMA SubsumeOK ==
    ASSUME Ready, subsume_round
    PROVE  PlainOK
<1>1. PICK c \in Database : try_to_subsume_clause(c)
  BY DEF subsume_round, Binary
<1>2. PICK d \in Database \ {c} :
         \/ d \subseteq c /\ subsume_clause(c, d)
         \/ \E lit \in d : Strengthens(d, c, lit) /\ strengthen_clause(c, -lit)
  BY <1>1 DEF try_to_subsume_clause
<1>3. CASE d \subseteq c /\ subsume_clause(c, d)
  <2> DEFINE promoted == IF c \in irredundant THEN {d} ELSE {}
             I == (irredundant \ {c}) \cup promoted
             R == redundant \ ({c} \cup promoted)
  <2>1. \A e \in I \cup R : ActiveClause(e) /\ e \in Database
    BY ReadyFacts
  <2>2. \A B \in All : Holds(I, B) /\ Holds(R, B)
    BY <2>1 DEF Holds, All
  <2>3. \A B \in Total : Holds(I, B) => Holds(irredundant, B)
    BY <1>3 DEF Holds, Satisfied
  <2>4. Update(I, R, Unmarked)
    BY <1>3 DEF subsume_clause
  <2> HIDE DEF I, R
  <2> QED BY <2>1, <2>2, <2>3, <2>4, PlainUpdate
<1>4. CASE \E lit \in d : Strengthens(d, c, lit) /\ strengthen_clause(c, -lit)
  <2>1. PICK lit \in d : Strengthens(d, c, lit) /\ strengthen_clause(c, -lit)
    BY <1>4
  <2>2. \A B \in All : Satisfied(c \ {-lit}, B)
    BY <2>1, StrengthensHolds DEF Ready, Open
  <2> DEFINE e == c \ {-lit}
  <2>3. e \in SUBSET c /\ Update(Replaced(irredundant, c, e), Replaced(redundant, c, e), Unmarked)
    BY <2>1 DEF strengthen_clause
  <2> HIDE DEF e
  <2> QED BY <2>2, <2>3, ShortenPlain DEF e
<1> QED BY <1>2, <1>3, <1>4

\* Hyper unary resolution is plain (deduplicate.cpp).
LEMMA HyperUnaryOK ==
    ASSUME Ready, hyper_unary_resolve
    PROVE  PlainOK
<1>0. PICK c \in Binary(Database), d \in Binary(Database) : \E lit \in c :
         Strengthens(d, c, -lit) /\ Update(irredundant \cup {c \ {lit}}, redundant, Unmarked)
  BY DEF hyper_unary_resolve
<1>1. PICK lit \in c :
         Strengthens(d, c, -lit) /\ Update(irredundant \cup {c \ {lit}}, redundant, Unmarked)
  BY <1>0
<1>2. c \in Database /\ d \in Database
  BY DEF Binary
<1>3. lit \in Lits /\ -(-lit) = lit
  BY <1>2, ReadyFacts, LitFacts
<1>4. \A B \in All : Satisfied(c \ {-(-lit)}, B)
  BY <1>1, <1>2, StrengthensHolds DEF Ready, Open
<1>5. ActiveClause(c \ {lit})
  BY <1>2, ReadyFacts, SubClause
<1> DEFINE F == {c \ {lit}}
<1>6. \A e \in F : ActiveClause(e) /\ \A B \in All : Satisfied(e, B)
  BY <1>3, <1>4, <1>5
<1>7. Update(irredundant \cup F, redundant, Unmarked)
  BY <1>1
<1> HIDE DEF F
<1> QED BY <1>6, <1>7, AddIrredundant

\* The other literal of a binary clause.
LEMMA BinaryOther ==
    ASSUME NEW c \in SUBSET Lits, Cardinality(c) = 2, NEW a \in c
    PROVE  \E b \in c : b # a /\ c = {a, b}
<1>1. IsFiniteSet(c) /\ Cardinality(c \ {a}) = 1 /\ IsFiniteSet(c \ {a})
  BY LitsFinite, FS_RemoveElement
<1>2. PICK b : c \ {a} = {b}
  BY <1>1, FS_Singleton
<1> QED BY <1>2

\* A binary clause is an implication.
LEMMA BinaryImplies ==
    ASSUME NEW c \in SUBSET Lits, Cardinality(c) = 2, NEW k \in Lits, -k \in c,
           NEW B \in Total, Satisfied(c, B), k \in B
    PROVE  c \ {-k} \subseteq B
<1>1. PICK b \in c : b # -k /\ c = {-k, b}
  BY BinaryOther
<1>2. -k \notin B
  BY TotalFacts
<1> QED BY <1>1, <1>2 DEF Satisfied

\* Literals reached through implications are implied.
LEMMA ReachedSound ==
    ASSUME NEW F \in SUBSET SUBSET Lits, \A c \in F : Cardinality(c) = 2,
           NEW src \in Lits, NEW dst, NEW B \in Total, Holds(F, B), src \in B
    PROVE  Reached(F, src, dst) \subseteq B
<1> DEFINE T == SUBSET Lits
           P == SUBSET B
           f(S) == S \cup UNION {UNION {c \ {-k} : c \in Occurring(F, -k)} : k \in S \ {dst}}
           step == [S \in T |-> f(S)]
           n == Cardinality(Lits)
<1>1. \A S \in T : f(S) \in T
  BY DEF Occurring
<1>2. \A S \in T : S \in P => f(S) \in P
  <2> SUFFICES ASSUME NEW S \in T, S \in P,
                      NEW k \in S \ {dst}, NEW c \in Occurring(F, -k)
               PROVE  c \ {-k} \subseteq B
    OBVIOUS
  <2>1. c \in F /\ -k \in c /\ c \in SUBSET Lits /\ Cardinality(c) = 2 /\ Satisfied(c, B)
    BY DEF Occurring, Holds
  <2> QED BY <2>1, BinaryImplies
<1>3. step \in [T -> T] /\ \A S \in T : step[S] = f(S)
  <2> HIDE DEF f
  <2> QED BY <1>1
<1>4. n \in Nat /\ {src} \in T /\ {src} \in P
  BY LitsFinite, FS_CardinalityType
<1>5. Reached(F, src, dst) = Iterated(step, {src}, n)
  BY DEF Reached, Lits
<1>6. \A S \in T : S \in P => step[S] \in P
  BY <1>2, <1>3
<1> HIDE DEF T, P, step, n, f
<1>7. Iterated(step, {src}, n) \in P
  BY <1>3, <1>4, <1>6, IteratedIn
<1> QED BY <1>5, <1>7 DEF P

\* Transitive reduction is plain (transred.cpp).
LEMMA TransredOK ==
    ASSUME Ready, transred
    PROVE  PlainOK
<1>0. PICK c \in Binary(Database) : \E src \in Negated(c) :
         LET dst == CHOOSE lit \in c : lit # -src
             implications == Binary(IF c \in irredundant THEN irredundant ELSE Database) \ {c}
             S == Reached(implications, src, dst)
         IN  \/ dst \in S /\ Update(irredundant \ {c}, redundant \ {c}, Unmarked)
             \/ Tautological(S \ {dst}) /\ Update(irredundant \cup {{-src}}, redundant, Unmarked)
  BY DEF transred
<1>1. PICK src \in Negated(c) :
         LET dst == CHOOSE lit \in c : lit # -src
             implications == Binary(IF c \in irredundant THEN irredundant ELSE Database) \ {c}
             S == Reached(implications, src, dst)
         IN  \/ dst \in S /\ Update(irredundant \ {c}, redundant \ {c}, Unmarked)
             \/ Tautological(S \ {dst}) /\ Update(irredundant \cup {{-src}}, redundant, Unmarked)
  BY <1>0
<1> DEFINE dst == CHOOSE lit \in c : lit # -src
           F == Binary(IF c \in irredundant THEN irredundant ELSE Database) \ {c}
           S == Reached(F, src, dst)
<1>2. c \in Database /\ Cardinality(c) = 2 /\ ActiveClause(c) /\ c \in SUBSET Lits
  BY ReadyFacts DEF Binary
<1>3. src \in Lits /\ -src \in c
  <2>1. src \in Lits
    BY <1>2, NegatedLits
  <2> QED BY <1>2, <2>1, NegatedLits
<1>4. dst \in c /\ c = {-src, dst}
  <2>1. PICK b \in c : b # -src /\ c = {-src, b}
    BY <1>2, <1>3, BinaryOther
  <2> QED BY <2>1
<1>5. /\ F \in SUBSET SUBSET Lits /\ \A d \in F : Cardinality(d) = 2
      /\ F \subseteq Database /\ (c \in irredundant => F \subseteq irredundant \ {c})
  <2>1. irredundant \in SUBSET SUBSET Lits /\ Database \in SUBSET SUBSET Lits /\ irredundant \subseteq Database
    BY ReadyFacts
  <2> QED BY <2>1 DEF Binary
<1> HIDE DEF dst, F
<1>6. \A B \in Total : Holds(F, B) /\ src \in B => S \subseteq B
  BY <1>3, <1>5, ReachedSound
<1> HIDE DEF S
<1>7. CASE dst \in S /\ Update(irredundant \ {c}, redundant \ {c}, Unmarked)
  <2>1. ASSUME c \in irredundant, NEW B \in Total, Holds(irredundant \ {c}, B)
        PROVE  Satisfied(c, B)
    <3>1. Holds(F, B)
      BY <1>5, <2>1 DEF Holds
    <3>2. src \in B => dst \in B
      BY <1>6, <1>7, <3>1
    <3>3. src \in B \/ -src \in B
      BY <1>3, TotalFacts
    <3> QED BY <1>4, <3>2, <3>3 DEF Satisfied
  <2> QED BY <1>7, <2>1, RemovePlain
<1>8. CASE Tautological(S \ {dst}) /\ Update(irredundant \cup {{-src}}, redundant, Unmarked)
  <2>1. ActiveClause({-src})
    BY <1>2, <1>3, SubClause
  <2>2. ASSUME NEW B \in All PROVE Satisfied({-src}, B)
    <3>1. B \in Total /\ Holds(F, B)
      BY <1>5 DEF All, Holds
    <3>2. src \notin B
      <4> SUFFICES ASSUME src \in B PROVE FALSE
        OBVIOUS
      <4>1. S \subseteq B
        BY <1>6, <3>1
      <4>2. \A lit \in B : lit \in Lits /\ -lit \notin B
        BY <3>1, TotalFacts
      <4> QED BY <1>8, <4>1, <4>2 DEF Tautological
    <3>3. -src \in B
      BY <1>3, <3>1, <3>2, TotalFacts
    <3> QED BY <3>3 DEF Satisfied
  <2> DEFINE G == {{-src}}
  <2>3. \A e \in G : ActiveClause(e) /\ \A B \in All : Satisfied(e, B)
    BY <2>1, <2>2
  <2> HIDE DEF G
  <2> QED BY <1>8, <2>3, AddIrredundant DEF G
<1> QED BY <1>1, <1>7, <1>8 DEF dst, F, S

\* A part of a clause as large as the clause is the clause.
LEMMA SameSize ==
    ASSUME NEW c \in SUBSET Lits, NEW d \in SUBSET c, Cardinality(c) = Cardinality(d)
    PROVE  c = d
BY LitsFinite, FS_Subset

\* Hyper ternary resolution is plain (ternary.cpp).
LEMMA TernaryOK ==
    ASSUME Ready, ternary
    PROVE  PlainOK
<1>1. PICK pivot \in ActiveLiterals : ternary_lit(pivot)
  BY DEF ternary
<1>2. PICK c \in Occurring(Ternary(Database), pivot), d \in Occurring(Ternary(Database), -pivot) :
         LET r == Resolvent(c, d, pivot)
             subsumed == IF Cardinality(r) = 2 THEN {c, d} ELSE {}
             red == Cardinality(r) = 3 \/ {c, d} \subseteq redundant
         IN  /\ hyper_ternary_resolve(c, pivot, d)
             /\ Update((irredundant \ subsumed) \cup (IF red THEN {} ELSE {r}),
                       (redundant \ subsumed) \cup (IF red THEN {r} ELSE {}), Unmarked)
  BY <1>1 DEF ternary_lit
<1> DEFINE r == Resolvent(c, d, pivot)
           subsumed == IF Cardinality(r) = 2 THEN {c, d} ELSE {}
           red == Cardinality(r) = 3 \/ {c, d} \subseteq redundant
           I == (irredundant \ subsumed) \cup (IF red THEN {} ELSE {r})
           R == (redundant \ subsumed) \cup (IF red THEN {r} ELSE {})
<1>3. /\ c \in Database /\ d \in Database /\ Cardinality(c) = 3 /\ Cardinality(d) = 3
      /\ pivot \in c /\ -pivot \in d /\ ActiveClause(c) /\ ActiveClause(d)
      /\ c \in SUBSET Lits /\ d \in SUBSET Lits
      /\ ~Tautological(r) /\ Update(I, R, Unmarked)
  BY <1>2, ReadyFacts DEF Occurring, Ternary, hyper_ternary_resolve
<1>4. ActiveClause(r) /\ r \in SUBSET Lits
  BY <1>3 DEF ActiveClause, Clause, Resolvent
<1>5. \A B \in All : Satisfied(r, B)
  <2> SUFFICES ASSUME NEW B \in All PROVE Satisfied(r, B)
    OBVIOUS
  <2>1. B \in Total /\ Satisfied(c, B) /\ Satisfied(d, B)
    BY <1>3 DEF All, Holds
  <2> QED BY <1>3, <2>1, ResolventHolds
<1>6. Cardinality(r) = 2 => r \subseteq c /\ r \subseteq d
  <2> SUFFICES ASSUME Cardinality(r) = 2 PROVE r \subseteq c /\ r \subseteq d
    OBVIOUS
  <2> DEFINE a == c \ {pivot}
             b == d \ {-pivot}
  <2>0. /\ c \in SUBSET Lits /\ d \in SUBSET Lits /\ pivot \in c /\ -pivot \in d
        /\ Cardinality(c) = 3 /\ Cardinality(d) = 3
    BY <1>3
  <2>1. Cardinality(a) = 2 /\ Cardinality(b) = 2
    <3>1. IsFiniteSet(c) /\ IsFiniteSet(d)
      BY <2>0, LitsFinite
    <3>2. Cardinality(a) = Cardinality(c) - 1 /\ Cardinality(b) = Cardinality(d) - 1
      BY <2>0, <3>1, FS_RemoveElement
    <3> QED BY <2>0, <3>2
  <2>2. a \in SUBSET r /\ b \in SUBSET r
    BY DEF Resolvent
  <2> HIDE DEF a, b, r
  <2>3. r = a /\ r = b
    BY <1>4, <2>1, <2>2, SameSize
  <2> QED BY <2>3 DEF a, b
<1>7. \A e \in I \cup R : e = r \/ e \in Database
  <2> HIDE DEF r
  <2> QED BY DEF Database
<1>8. \A e \in I \cup R : ActiveClause(e) /\ \A B \in All : Satisfied(e, B)
  <2> HIDE DEF I, R, r
  <2> QED BY <1>4, <1>5, <1>7, ReadyFacts DEF All, Holds
<1>9. \A B \in All : Holds(I, B) /\ Holds(R, B)
  <2> HIDE DEF I, R, r
  <2> QED BY <1>8 DEF Holds
<1>10. \A e \in irredundant : e \in I \/ (r \in I /\ r \subseteq e)
  <2> SUFFICES ASSUME NEW e \in irredundant, e \notin I PROVE r \in I /\ r \subseteq e
    OBVIOUS
  <2>1. irredundant \cap redundant = {}
    BY DEF Ready, Open, DatabaseOK
  <2> HIDE DEF r
  <2>2. e \in {c, d} /\ Cardinality(r) = 2
    BY DEF subsumed
  <2>3. ~red
    BY <2>1, <2>2
  <2> QED BY <1>6, <2>2, <2>3
<1>11. \A B \in Total : Holds(I, B) => Holds(irredundant, B)
  <2> HIDE DEF I, r
  <2> QED BY <1>10 DEF Holds, Satisfied
<1> HIDE DEF I, R, r
<1> QED BY <1>3, <1>8, <1>9, <1>11, PlainUpdate

\* Instantiation is plain (instantiate.cpp).
LEMMA InstantiateOK ==
    ASSUME Ready, instantiate_candidate
    PROVE  PlainOK
<1>0. PICK c \in irredundant : \E lit \in c :
         /\ Refuted(Database, {lit} \cup Negated(c \ {lit}), Vars)
         /\ Update((irredundant \ {c}) \cup {c \ {lit}}, redundant, Unmarked)
  BY DEF instantiate_candidate
<1>1. PICK lit \in c :
         /\ Refuted(Database, {lit} \cup Negated(c \ {lit}), Vars)
         /\ Update((irredundant \ {c}) \cup {c \ {lit}}, redundant, Unmarked)
  BY <1>0
<1> DEFINE e == c \ {lit}
<1>2. c \in Database /\ c \in SUBSET Lits /\ e \in SUBSET c /\ e \in SUBSET Lits /\ c \notin redundant
  BY ReadyFacts DEF Ready, Open, DatabaseOK
<1>3. ASSUME NEW B \in All PROVE Satisfied(e, B)
  <2>1. B \in Total /\ Holds(Database, B) /\ Satisfied(c, B)
    BY <1>2 DEF All, Holds
  <2>2. {lit} \cup Negated(e) \in SUBSET Lits
    BY <1>2, NegatedLits
  <2>3. PICK k \in {lit} \cup Negated(e) : k \in Lits /\ k \notin B
    BY <1>1, <2>1, <2>2, ReadyFacts, RefutedImplies
  <2>4. CASE k = lit
    BY <2>1, <2>3, <2>4 DEF Satisfied
  <2>5. CASE k \in Negated(e)
    BY <1>2, <2>1, <2>3, <2>5, NegatedLits, TotalFacts DEF Satisfied
  <2> QED BY <2>3, <2>4, <2>5
<1>4. Replaced(irredundant, c, e) = (irredundant \ {c}) \cup {c \ {lit}} /\ Replaced(redundant, c, e) = redundant
  BY <1>2 DEF Replaced
<1> HIDE DEF e
<1> QED BY <1>1, <1>2, <1>3, <1>4, ShortenPlain

\* Backward subsumption during elimination is plain (backward.cpp).
LEMMA ElimBackwardOK ==
    ASSUME Open, elim_backward_clause
    PROVE  PlainOK
<1>0. PICK c \in irredundant : \E d \in irredundant \ {c} :
          \/ c \subseteq d /\ elim_update(irredundant \ {d}, Unmarked)
          \/ \E lit \in c : /\ Strengthens(c, d, lit)
                            /\ elim_update((irredundant \ {d}) \cup {d \ {-lit}}, Unmarked)
  BY DEF elim_backward_clause
<1>1. PICK d \in irredundant \ {c} :
          \/ c \subseteq d /\ elim_update(irredundant \ {d}, Unmarked)
          \/ \E lit \in c : /\ Strengthens(c, d, lit)
                            /\ elim_update((irredundant \ {d}) \cup {d \ {-lit}}, Unmarked)
  BY <1>0
<1>2. c \in Database /\ d \in Database /\ eliminating'.round
  BY DEF elim_backward_clause, Database, BetweenTries, NotEliminating
<1>3. CASE c \subseteq d /\ elim_update(irredundant \ {d}, Unmarked)
  <2> DEFINE I == irredundant \ {d}
  <2>1. \A B \in Total : Holds(I, B) => Holds(irredundant, B)
    BY <1>3 DEF Holds, Satisfied
  <2>2. \A e \in I : ActiveClause(e)
    BY OpenFacts
  <2>3. \A B \in All : Holds(I, B)
    BY DEF All, Holds, Database
  <2>4. elim_update(I, Unmarked)
    BY <1>3
  <2> HIDE DEF I
  <2> QED BY <1>2, <2>1, <2>2, <2>3, <2>4, ElimPlain
<1>4. ASSUME NEW lit \in c, Strengthens(c, d, lit),
             elim_update((irredundant \ {d}) \cup {d \ {-lit}}, Unmarked)
      PROVE  PlainOK
  <2> DEFINE I == (irredundant \ {d}) \cup {d \ {-lit}}
  <2>1. \A B \in All : Satisfied(d \ {-lit}, B)
    BY <1>2, <1>4, StrengthensHolds
  <2>2. \A e \in I : ActiveClause(e)
    <3>1. ActiveClause(d)
      BY OpenFacts
    <3>2. ActiveClause(d \ {-lit})
      <4> DEFINE e == d \ {-lit}
      <4>1. e \in SUBSET d
        OBVIOUS
      <4> HIDE DEF e
      <4>2. ActiveClause(e)
        BY <3>1, <4>1, SubClause
      <4> QED BY <4>2 DEF e
    <3> QED BY <3>2, OpenFacts
  <2>3. \A B \in All : Holds(I, B)
    BY <2>1 DEF All, Holds, Database
  <2>4. \A B \in Total : Holds(I, B) => Holds(irredundant, B)
    <3> SUFFICES ASSUME NEW B \in Total, Holds(I, B), NEW e \in irredundant PROVE Satisfied(e, B)
      BY DEF Holds
    <3>1. CASE e # d
      BY <3>1 DEF Holds
    <3>2. CASE e = d
      <4>1. Satisfied(d \ {-lit}, B)
        BY DEF Holds
      <4> QED BY <3>2, <4>1 DEF Satisfied
    <3> QED BY <3>1, <3>2
  <2>5. elim_update(I, Unmarked)
    BY <1>4
  <2> HIDE DEF I
  <2> QED BY <1>2, <2>2, <2>3, <2>4, <2>5, ElimPlain
<1> QED BY <1>1, <1>3, <1>4

\* A tree on the literals L: every literal but some has its parent, which
\* implies it by a binary clause.
Tree(tree, L) ==
    /\ L \in SUBSET ActiveLiterals
    /\ DOMAIN tree \subseteq L
    /\ \A k \in DOMAIN tree : tree[k] \in L /\ {-tree[k], k} \in Database

\* The implication trees of a probe are trees with the probe as root.
LEMMA TreesAre ==
    ASSUME NEW probe0, NEW L \in SUBSET ActiveLiterals, NEW tree \in ImplicationTrees(probe0, L)
    PROVE  Tree(tree, L) /\ \A lit \in L : probe0 \in AncestorsOf(tree, lit)
<1> DEFINE parents(lit) == {k \in L : {-k, lit} \in Binary(Database)}
           options0 == [lit \in L \ {probe0} |-> parents(lit)]
<1>1. tree \in ChoiceFunctions(options0) /\ \A lit \in L : probe0 \in AncestorsOf(tree, lit)
  BY DEF ImplicationTrees
<1>2. DOMAIN options0 = L \ {probe0} /\ \A lit \in L \ {probe0} : options0[lit] = parents(lit)
  OBVIOUS
<1> HIDE DEF options0
<1>3. DOMAIN tree = DOMAIN options0 /\ \A lit \in DOMAIN options0 : tree[lit] \in options0[lit]
  BY <1>1 DEF ChoiceFunctions
<1>4. \A lit \in DOMAIN tree : tree[lit] \in parents(lit)
  BY <1>2, <1>3
<1> QED BY <1>1, <1>2, <1>3, <1>4 DEF Tree, Binary

Climbed(tree, S) == S \cup {tree[k] : k \in S \cap DOMAIN tree}

Climb(tree) == [S \in SUBSET ActiveLiterals |-> Climbed(tree, S)]

\* A step from literals to their parents.
LEMMA ClimbedMember ==
    ASSUME NEW tree, NEW S
    PROVE  /\ S \subseteq Climbed(tree, S)
           /\ \A k : k \in Climbed(tree, S) <=> k \in S \/ \E j \in S : j \in DOMAIN tree /\ k = tree[j]
BY DEF Climbed

\* Parents belong to the tree.
LEMMA ClimbedWithin ==
    ASSUME NEW tree, NEW L, Tree(tree, L), NEW U, L \subseteq U, NEW S \in SUBSET U
    PROVE  Climbed(tree, S) \in SUBSET U
<1> SUFFICES ASSUME NEW k \in Climbed(tree, S) PROVE k \in U
  OBVIOUS
<1>1. k \in S \/ \E j \in S : j \in DOMAIN tree /\ k = tree[j]
  BY ClimbedMember
<1>2. \A j \in DOMAIN tree : tree[j] \in L
  BY DEF Tree
<1> QED BY <1>1, <1>2

\* There are finitely many active literals.
LEMMA ActiveFinite == IsFiniteSet(ActiveLiterals) /\ Cardinality(ActiveLiterals) \in Nat
<1>1. ActiveLiterals \in SUBSET Lits
  BY ActiveLits
<1> QED BY <1>1, LitsFinite, FS_Subset, FS_CardinalityType

\* The ancestors are an iteration of steps to the parents.
LEMMA ClimbFacts ==
    ASSUME NEW tree, NEW L, Tree(tree, L)
    PROVE  /\ Climb(tree) \in [SUBSET ActiveLiterals -> SUBSET ActiveLiterals]
           /\ Inflating(Climb(tree), ActiveLiterals)
           /\ \A S \in SUBSET ActiveLiterals :
                 Climb(tree)[S] = Climbed(tree, S)
           /\ \A lit : AncestorsOf(tree, lit) = Iterated(Climb(tree), {lit}, Cardinality(ActiveLiterals))
<1>1. \A S \in SUBSET ActiveLiterals : S \subseteq Climbed(tree, S) /\ Climbed(tree, S) \in SUBSET ActiveLiterals
  BY ClimbedMember, ClimbedWithin DEF Tree
<1>2. \A lit : AncestorsOf(tree, lit) = Iterated(Climb(tree), {lit}, Cardinality(ActiveLiterals))
  BY DEF AncestorsOf, Climb, Climbed
<1> QED BY <1>1, <1>2 DEF Climb, Inflating

\* The ancestors of a literal are closed under parents.
LEMMA AncestorsClosed ==
    ASSUME NEW tree, NEW L, Tree(tree, L), NEW lit \in L
    PROVE  LET S == AncestorsOf(tree, lit) IN
           /\ S \in SUBSET L /\ lit \in S
           /\ \A k \in S \cap DOMAIN tree : tree[k] \in S
<1> DEFINE S == AncestorsOf(tree, lit)
           step == Climb(tree)
           n == Cardinality(ActiveLiterals)
           P == SUBSET L
<1>1. /\ step \in [SUBSET ActiveLiterals -> SUBSET ActiveLiterals] /\ Inflating(step, ActiveLiterals)
      /\ \A X \in SUBSET ActiveLiterals : step[X] = Climbed(tree, X)
      /\ S = Iterated(step, {lit}, n)
  BY ClimbFacts
<1>2. {lit} \in SUBSET ActiveLiterals /\ {lit} \in P
  BY DEF Tree
<1>3. \A X \in SUBSET ActiveLiterals : X \in P => step[X] \in P
  <2> HIDE DEF step
  <2> QED BY <1>1, ClimbedWithin
<1>4. n \in Nat /\ IsFiniteSet(ActiveLiterals) /\ n <= n
  BY ActiveFinite
<1> HIDE DEF step, S, P
<1>5. S \in SUBSET ActiveLiterals /\ {lit} \subseteq S /\ step[S] = S
  <2>1. LET X == Iterated(step, {lit}, n) IN
        X \in SUBSET ActiveLiterals /\ {lit} \subseteq X /\ step[X] = X
    BY <1>1, <1>2, <1>4, IteratedCloses
  <2> QED BY <1>1, <2>1
<1>6. S \in P
  <2> DEFINE T == SUBSET ActiveLiterals
  <2>1. step \in [T -> T] /\ {lit} \in T /\ \A X \in T : X \in P => step[X] \in P
    BY <1>1, <1>2, <1>3
  <2> HIDE DEF T, n
  <2> QED BY <1>1, <1>2, <1>4, <2>1, IteratedIn
<1>7. \A k \in S \cap DOMAIN tree : tree[k] \in S
  <2> SUFFICES ASSUME NEW k \in S, k \in DOMAIN tree PROVE tree[k] \in S
    OBVIOUS
  <2>1. tree[k] \in Climbed(tree, S)
    BY ClimbedMember
  <2> QED BY <1>1, <1>5, <2>1
<1> QED BY <1>5, <1>6, <1>7 DEF S, P

\* Every ancestor implies the literal.
LEMMA AncestorImplies ==
    ASSUME Ready, NEW tree, NEW L, Tree(tree, L), NEW lit \in L, NEW a \in AncestorsOf(tree, lit),
           NEW B \in All, a \in B
    PROVE  lit \in B
<1> DEFINE step == Climb(tree)
           T == SUBSET ActiveLiterals
           P == {S \in T : S \cap B # {} => lit \in B}
           n == Cardinality(ActiveLiterals)
<1>1. /\ step \in [T -> T]
      /\ \A X \in T : step[X] = Climbed(tree, X)
      /\ AncestorsOf(tree, lit) = Iterated(step, {lit}, n)
  BY ClimbFacts
<1>2. {lit} \in T /\ {lit} \in P
  BY DEF Tree
<1>3. ASSUME NEW k \in DOMAIN tree, tree[k] \in B PROVE k \in B
  <2>1. {-tree[k], k} \in Database /\ tree[k] \in Lits /\ B \in Total /\ Holds(Database, B)
    BY ActiveLits DEF Tree, All
  <2>2. -tree[k] \notin B
    BY <1>3, <2>1, TotalFacts
  <2> QED BY <2>1, <2>2 DEF Holds, Satisfied
<1>4. \A X \in T : X \in P => step[X] \in P
  <2> SUFFICES ASSUME NEW X \in T, X \in P, step[X] \cap B # {} PROVE lit \in B
    BY <1>1
  <2>1. PICK k \in step[X] : k \in B
    OBVIOUS
  <2>2. CASE k \in X
    BY <2>1, <2>2
  <2>3. CASE k \notin X
    <3>1. PICK j \in X \cap DOMAIN tree : k = tree[j]
      <4> HIDE DEF step
      <4> QED BY <1>1, <2>1, <2>3, ClimbedMember
    <3> QED BY <1>3, <2>1, <3>1
  <2> QED BY <2>2, <2>3
<1>5. n \in Nat
  BY ActiveFinite
<1> HIDE DEF step, T, P, n
<1>6. AncestorsOf(tree, lit) \in P
  BY <1>1, <1>2, <1>4, <1>5, IteratedIn
<1> QED BY <1>6 DEF P

\* The common ancestors of some literals are ancestors of one of them.
LEMMA DominatorIs ==
    ASSUME NEW tree, NEW L, Tree(tree, L), NEW probe0 \in L,
           \A lit \in L : probe0 \in AncestorsOf(tree, lit),
           NEW M \in SUBSET L, M # {}
    PROVE  Dominator(tree, M) \in L /\ \A lit \in M : Dominator(tree, M) \in AncestorsOf(tree, lit)
<1> DEFINE Anc(k) == AncestorsOf(tree, k)
           first == CHOOSE lit \in M : TRUE
           common == {k \in Anc(first) : \A lit \in M : k \in Anc(lit)}
           step == Climb(tree)
           T == SUBSET ActiveLiterals
           n == Cardinality(ActiveLiterals)
           tip(S, t) == \A k \in S \ {t} : k \in DOMAIN tree /\ tree[k] \in S
           top(S, t) == \/ S \cap common = {}
                        \/ \E d \in S \cap common : S \cap common \subseteq Anc(d) /\ t \in Anc(d)
           P == {S \in T : S \subseteq L /\ \E t \in S : tip(S, t) /\ top(S, t)}
<1>1. first \in M /\ first \in L
  OBVIOUS
<1>2. \A k \in L : /\ Anc(k) \in SUBSET L /\ k \in Anc(k)
                   /\ \A j \in Anc(k) \cap DOMAIN tree : tree[j] \in Anc(k)
  BY AncestorsClosed
<1>3. /\ step \in [T -> T]
      /\ \A X \in T : step[X] = Climbed(tree, X)
      /\ Anc(first) = Iterated(step, {first}, n)
  BY ClimbFacts
<1>4. probe0 \in common /\ common \subseteq L
  BY <1>1, <1>2
<1> HIDE DEF Anc, first, common
<1>5. {first} \in T /\ {first} \in P
  <2>1. {first} \in T
    BY <1>1 DEF Tree
  <2>2. tip({first}, first)
    OBVIOUS
  <2>3. top({first}, first)
    BY <1>1, <1>2
  <2> QED BY <1>1, <2>1, <2>2, <2>3
<1>6. ASSUME NEW S \in T, S \in P PROVE step[S] \in P
  <2>1. PICK t \in S : tip(S, t) /\ top(S, t)
    BY <1>6
  <2>2. S \subseteq L
    BY <1>6
  <2>3. CASE t \notin DOMAIN tree \/ tree[t] \in S
    <3>1. step[S] = S
      <4>1. \A j \in S : j \in DOMAIN tree => tree[j] \in S
        BY <2>1, <2>3
      <4> HIDE DEF step, tip, top, P
      <4>2. Climbed(tree, S) = S
        BY <4>1, ClimbedMember
      <4> QED BY <1>3, <4>2
    <3> QED BY <1>6, <3>1
  <2>4. CASE t \in DOMAIN tree /\ tree[t] \notin S
    <3> DEFINE u == tree[t]
               S2 == S \cup {u}
    <3>1. step[S] = S2
      <4>1. \A j \in S : j \in DOMAIN tree /\ j # t => tree[j] \in S
        BY <2>1
      <4> HIDE DEF step, tip, top, P
      <4>2. Climbed(tree, S) = S2
        BY <2>4, <4>1, ClimbedMember
      <4> QED BY <1>3, <4>2
    <3>2. u \in L /\ S2 \in T /\ S2 \subseteq L
      BY <2>2, <2>4 DEF Tree
    <3>3. tip(S2, u)
      BY <2>1, <2>4
    <3>4. top(S2, u)
      <4>1. CASE S \cap common = {}
        <5>1. u \in Anc(u)
          BY <1>2, <3>2
        <5>2. CASE u \in common
          <6>1. S2 \cap common = {u}
            BY <4>1, <5>2
          <6> QED BY <5>1, <6>1
        <5>3. CASE u \notin common
          BY <4>1, <5>3
        <5> QED BY <5>2, <5>3
      <4>2. CASE S \cap common # {}
        <5>1. PICK d \in S \cap common : S \cap common \subseteq Anc(d) /\ t \in Anc(d)
          BY <2>1, <4>2
        <5>2. u \in Anc(d)
          BY <1>2, <2>2, <2>4, <5>1
        <5>3. d \in S2 \cap common /\ S2 \cap common \subseteq Anc(d)
          BY <5>1, <5>2
        <5> QED BY <5>2, <5>3
      <4> QED BY <4>1, <4>2
    <3> QED BY <3>1, <3>2, <3>3, <3>4
  <2> QED BY <2>3, <2>4
<1>7. n \in Nat
  BY ActiveFinite
<1>8. Anc(first) \in P
  <2> HIDE DEF step, T, P, n, tip, top
  <2> QED BY <1>3, <1>5, <1>6, <1>7, IteratedIn
<1>9. \E d \in common : common \subseteq Anc(d)
  <2>1. PICK t : top(Anc(first), t)
    BY <1>8
  <2>2. common \subseteq Anc(first)
    BY DEF common
  <2> QED BY <1>4, <2>1, <2>2
<1>10. Dominator(tree, M) = CHOOSE dom \in common : common \subseteq Anc(dom)
  BY DEF Dominator, common, Anc, first
<1>11. Dominator(tree, M) \in common
  BY <1>9, <1>10
<1> QED BY <1>4, <1>11 DEF common, Anc

\* A dominator implies all that it dominates.
LEMMA DominatorImplies ==
    ASSUME Ready, NEW tree, NEW L, Tree(tree, L), NEW probe0 \in L,
           \A lit \in L : probe0 \in AncestorsOf(tree, lit),
           NEW M \in SUBSET L, M # {}, NEW B \in All, Dominator(tree, M) \in B
    PROVE  M \subseteq B
<1>1. \A lit \in M : Dominator(tree, M) \in AncestorsOf(tree, lit)
  BY DominatorIs
<1> SUFFICES ASSUME NEW lit \in M PROVE lit \in B
  OBVIOUS
<1>2. lit \in L /\ Dominator(tree, M) \in AncestorsOf(tree, lit)
  BY <1>1
<1> QED BY <1>2, AncestorImplies

\* Implied literals are active.
LEMMA ReachableActive ==
    ASSUME Ready, NEW F \in SUBSET Database, NEW lit \in ActiveLiterals
    PROVE  Reachable(F, lit) \in SUBSET ActiveLiterals /\ lit \in Reachable(F, lit)
<1> DEFINE T == SUBSET ActiveLiterals
           f(S) == S \cup UNION {UNION {c \ {-k} : c \in Occurring(F, -k)} : k \in S}
           step == [S \in T |-> f(S)]
           P == {S \in T : lit \in S}
           n == Cardinality(ActiveLiterals)
<1>1. \A c \in F : c \subseteq ActiveLiterals
  BY ReadyFacts, ActiveClauseLits
<1>2. \A S \in T : f(S) \in T
  BY <1>1 DEF Occurring
<1>3. step \in [T -> T] /\ \A S \in T : step[S] = f(S)
  <2> HIDE DEF f
  <2> QED BY <1>2
<1>4. {lit} \in T /\ {lit} \in P /\ n \in Nat
  BY ActiveFinite
<1>5. \A S \in T : S \in P => step[S] \in P
  <2> SUFFICES ASSUME NEW S \in T, S \in P PROVE step[S] \in P
    OBVIOUS
  <2>1. step[S] = f(S) /\ f(S) \in T /\ S \subseteq f(S)
    BY <1>2, <1>3
  <2> QED BY <2>1
<1>6. Reachable(F, lit) = Iterated(step, {lit}, n)
  BY DEF Reachable
<1> HIDE DEF T, f, step, P, n
<1>7. Iterated(step, {lit}, n) \in P
  BY <1>3, <1>4, <1>5, IteratedIn
<1> QED BY <1>6, <1>7 DEF P, T

\* Hyper binary resolution on the dominator is plain (probe.cpp).
LEMMA HyperBinaryOK ==
    ASSUME Ready, NEW probe0 \in ActiveLiterals, hyper_binary_resolve(probe0)
    PROVE  PlainOK
<1> DEFINE L == Reachable(Binary(Database), probe0)
<1>1. PICK tree \in ImplicationTrees(probe0, L), c \in Database \ Binary(Database) :
        \E lit \in c :
          LET dom == Dominator(tree, Negated(c \ {lit}))
              contained == -dom \in c
              red == ~contained \/ c \in redundant
              subsumed == IF contained THEN {c} ELSE {}
              binary == {-dom, lit}
          IN  /\ {lit, -lit} \cap L = {} /\ Negated(c \ {lit}) \subseteq L
              /\ Update((irredundant \ subsumed) \cup (IF red THEN {} ELSE {binary}),
                        (redundant \ subsumed) \cup (IF red THEN {binary} ELSE {}), Unmarked)
  BY DEF hyper_binary_resolve
<1>2. PICK lit \in c :
          LET dom == Dominator(tree, Negated(c \ {lit}))
              contained == -dom \in c
              red == ~contained \/ c \in redundant
              subsumed == IF contained THEN {c} ELSE {}
              binary == {-dom, lit}
          IN  /\ {lit, -lit} \cap L = {} /\ Negated(c \ {lit}) \subseteq L
              /\ Update((irredundant \ subsumed) \cup (IF red THEN {} ELSE {binary}),
                        (redundant \ subsumed) \cup (IF red THEN {binary} ELSE {}), Unmarked)
  BY <1>1
<1> DEFINE M == Negated(c \ {lit})
           dom == Dominator(tree, M)
           contained == -dom \in c
           red == ~contained \/ c \in redundant
           subsumed == IF contained THEN {c} ELSE {}
           binary == {-dom, lit}
           I == (irredundant \ subsumed) \cup (IF red THEN {} ELSE {binary})
           R == (redundant \ subsumed) \cup (IF red THEN {binary} ELSE {})
<1>3. {lit, -lit} \cap L = {} /\ M \subseteq L /\ Update(I, R, Unmarked)
  BY <1>2
<1> HIDE DEF I, R
<1>4. /\ c \in Database /\ ActiveClause(c) /\ Cardinality(c) > 1 /\ c \in SUBSET Lits
      /\ c \subseteq ActiveLiterals
  BY ReadyFacts, ActiveClauseLits
<1>5. L \in SUBSET ActiveLiterals /\ probe0 \in L
  <2>1. Binary(Database) \in SUBSET Database
    BY DEF Binary
  <2> QED BY <2>1, ReachableActive
<1> HIDE DEF L
<1>6. Tree(tree, L) /\ \A k \in L : probe0 \in AncestorsOf(tree, k)
  BY <1>1, <1>5, TreesAre
<1>7. M # {}
  <2>1. PICK k \in c : k # lit
    BY <1>4, TwoLiterals
  <2> QED BY <2>1 DEF Negated
<1> HIDE DEF M
<1>8. dom \in L
  BY <1>3, <1>5, <1>6, <1>7, DominatorIs
<1>9. \A B \in All : dom \in B => M \subseteq B
  BY <1>3, <1>5, <1>6, <1>7, DominatorImplies
<1> HIDE DEF dom
<1>10. \A B \in All : Satisfied(binary, B)
  <2> SUFFICES ASSUME NEW B \in All, dom \in B, lit \notin B PROVE FALSE
    <3> SUFFICES ASSUME NEW B \in All PROVE Satisfied(binary, B)
      OBVIOUS
    <3>1. dom \in Lits /\ B \in Total
      BY <1>5, <1>8, ActiveLits DEF All
    <3> QED BY <3>1, TotalFacts DEF Satisfied
  <2>1. PICK k \in c : k \in B
    BY <1>4 DEF All, Holds, Satisfied
  <2>2. k # lit /\ k \in Lits /\ -k \in M
    BY <1>4, <2>1 DEF M, Negated
  <2>3. -k \in B
    BY <1>9, <2>2
  <2> QED BY <2>1, <2>2, <2>3, TotalFacts DEF All
<1>11. ActiveClause(binary)
  <2>1. dom \in ActiveLiterals /\ lit \in ActiveLiterals
    BY <1>4, <1>5, <1>8
  <2>2. -dom \in ActiveLiterals /\ -(-dom) = dom /\ dom \in Int /\ lit \in Int /\ dom # 0 /\ lit # 0
    BY <2>1, ActiveNegated, LitFacts
  <2>3. dom # lit /\ dom # -lit
    BY <1>3, <1>8
  <2>4. ~Tautological(binary)
    BY <2>2, <2>3 DEF Tautological
  <2> QED BY <2>1, <2>2, <2>4, ActiveClauseLits
<1> HIDE DEF binary
<1>12. \A e \in I \cup R : e = binary \/ e \in Database
  BY DEF Database, I, R
<1>13. \A e \in I \cup R : ActiveClause(e) /\ \A B \in All : Satisfied(e, B)
  BY <1>10, <1>11, <1>12, ReadyFacts DEF All, Holds
<1>14. \A B \in All : Holds(I, B) /\ Holds(R, B)
  BY <1>13 DEF Holds
<1>15. \A e \in irredundant : e \in I \/ (binary \in I /\ binary \subseteq e)
  <2> SUFFICES ASSUME NEW e \in irredundant, e \notin I PROVE binary \in I /\ binary \subseteq e
    OBVIOUS
  <2>1. e \in subsumed
    BY DEF I
  <2>2. e = c /\ contained
    BY <2>1
  <2>3. c \notin redundant
    BY <2>2 DEF Ready, Open, DatabaseOK
  <2>4. ~red
    BY <2>2, <2>3
  <2> QED BY <2>2, <2>4 DEF binary, I
<1>16. \A B \in Total : Holds(I, B) => Holds(irredundant, B)
  BY <1>15 DEF Holds, Satisfied
<1> QED BY <1>3, <1>13, <1>14, <1>16, PlainUpdate

\* A failed literal, its unique implication point and parents are false.
LEMMA FailedLiteralOK ==
    ASSUME Ready, NEW probe0 \in ActiveLiterals, failed_literal(probe0)
    PROVE  PlainOK
<1>1. PICK L \in SUBSET Reachable(Binary(Database), probe0) :
        /\ probe0 \in L
        /\ \E tree \in ImplicationTrees(probe0, L) : \E conflict \in Database :
             /\ Falsified(conflict, L)
             /\ Update(irredundant \cup Units(Negated(AncestorsOf(tree,
                          Dominator(tree, Negated(conflict))))), redundant, Unmarked)
  BY DEF failed_literal
<1>2. PICK tree \in ImplicationTrees(probe0, L), conflict \in Database :
             /\ Falsified(conflict, L)
             /\ Update(irredundant \cup Units(Negated(AncestorsOf(tree,
                          Dominator(tree, Negated(conflict))))), redundant, Unmarked)
  BY <1>1
<1> DEFINE M == Negated(conflict)
           uip == Dominator(tree, M)
           F == Units(Negated(AncestorsOf(tree, uip)))
<1>3. L \in SUBSET ActiveLiterals /\ probe0 \in L
  <2>1. Binary(Database) \in SUBSET Database
    BY DEF Binary
  <2> QED BY <1>1, <2>1, ReachableActive
<1>4. /\ Tree(tree, L) /\ \A k \in L : probe0 \in AncestorsOf(tree, k)
      /\ M \in SUBSET L /\ Update(irredundant \cup F, redundant, Unmarked)
      /\ conflict \in SUBSET Lits /\ Cardinality(conflict) > 1
  BY <1>2, <1>3, TreesAre, ReadyFacts DEF Falsified
<1>5. M # {}
  BY <1>4, TwoLiterals DEF Negated
<1> HIDE DEF M
<1>6. uip \in L
  BY <1>3, <1>4, <1>5, DominatorIs
<1>7. \A B \in All : uip \in B => M \subseteq B
  BY <1>3, <1>4, <1>5, DominatorImplies
<1> HIDE DEF uip
<1>8. \A B \in All : uip \notin B
  <2> SUFFICES ASSUME NEW B \in All, uip \in B PROVE FALSE
    OBVIOUS
  <2>1. PICK k \in conflict : k \in B
    BY DEF All, Holds, Satisfied
  <2>2. -k \in B /\ k \in Lits /\ B \in Total
    BY <1>4, <1>7 DEF M, Negated, All
  <2> QED BY <2>1, <2>2, TotalFacts
<1>9. AncestorsOf(tree, uip) \in SUBSET L
  BY <1>4, <1>6, AncestorsClosed
<1>10. ASSUME NEW c \in F PROVE ActiveClause(c) /\ \A B \in All : Satisfied(c, B)
  <2>1. PICK a \in AncestorsOf(tree, uip) : c = {-a}
    BY DEF Units, Negated
  <2>2. a \in L /\ a \in Lits /\ -a \in ActiveLiterals /\ -a \in Lits /\ -(-a) # -a
    BY <1>3, <1>9, <2>1, ActiveNegated, LitFacts
  <2>3. ActiveClause(c)
    BY <2>1, <2>2, ActiveClauseLits DEF Tautological
  <2>4. \A B \in All : a \notin B
    BY <1>4, <1>6, <1>8, AncestorImplies
  <2>5. \A B \in All : Satisfied(c, B)
    BY <2>1, <2>2, <2>4, TotalFacts DEF All, Satisfied
  <2> QED BY <2>3, <2>5
<1> HIDE DEF F
<1> QED BY <1>4, <1>10, AddIrredundant

\* Probing is plain (probe.cpp).
LEMMA ProbeOK ==
    ASSUME Ready, probe
    PROVE  PlainOK
<1>1. PICK lit \in Probes : hyper_binary_resolve(lit) \/ failed_literal(lit)
  BY DEF probe
<1>2. lit \in ActiveLiterals
  BY DEF Probes
<1> QED BY <1>1, <1>2, HyperBinaryOK, FailedLiteralOK

\* Vivification is plain (vivify.cpp).
LEMMA VivifyOK ==
    ASSUME Ready, vivify
    PROVE  PlainOK
<1>1. PICK c \in Vivifiable : vivify_clause(c) \/ flush_vivification_schedule(c)
  BY DEF vivify
<1>2. /\ c \in Database /\ c \in SUBSET Lits /\ Database \in SUBSET SUBSET Lits
      /\ OtherClauses(c) \in SUBSET Database /\ Binary(Database) \in SUBSET Database
      /\ OtherClauses(c) \in SUBSET SUBSET Lits
  BY ReadyFacts DEF Vivifiable, OtherClauses, Binary, Database
<1>3. CASE vivify_remove(c)
  <2>1. ASSUME c \in irredundant, NEW B \in Total, Holds(irredundant \ {c}, B)
        PROVE  Satisfied(c, B)
    <3>1. Refuted(OtherClauses(c), Negated(c), Vars) /\ Holds(OtherClauses(c), B)
      BY <1>3, <2>1 DEF vivify_remove, OtherClauses
    <3> QED BY <1>2, <3>1, RefutedClause
  <2> QED BY <1>3, <2>1, RemovePlain DEF vivify_remove
<1>4. ASSUME NEW e \in (Implying(c) \cup vivify_analyze_redundant(c)) \ {{}, c}, vivify_strengthen(c, e)
      PROVE  PlainOK
  <2>1. /\ e \in SUBSET c
        /\ \/ Negated(c) \subseteq Closure(OtherClauses(c), Negated(e), Vars)
           \/ Refuted(OtherClauses(c), Negated(e), Vars)
    BY DEF Implying, vivify_analyze_redundant
  <2>2. ASSUME NEW B \in All PROVE Satisfied(e, B)
    <3>1. B \in Total /\ Holds(OtherClauses(c), B) /\ Satisfied(c, B)
      BY <1>2 DEF All, Holds
    <3>2. e \in SUBSET Lits
      BY <1>2, <2>1
    <3>3. CASE Refuted(OtherClauses(c), Negated(e), Vars)
      BY <1>2, <3>1, <3>2, <3>3, RefutedClause
    <3>4. CASE Negated(c) \subseteq Closure(OtherClauses(c), Negated(e), Vars)
      <4> SUFFICES ASSUME ~Satisfied(e, B) PROVE FALSE
        OBVIOUS
      <4>1. Negated(e) \in SUBSET Lits
        BY <3>2, NegatedLits
      <4>2. Negated(e) \subseteq B
        <5> SUFFICES ASSUME NEW k \in Negated(e) PROVE k \in B
          OBVIOUS
        <5>1. k \in Lits /\ -k \in e
          BY <3>2, <4>1, NegatedLits
        <5> QED BY <3>1, <5>1, TotalFacts DEF Satisfied
      <4>3. Negated(c) \subseteq B
        BY <1>2, <3>1, <3>4, <4>1, <4>2, ClosureSound
      <4>4. PICK k \in c : k \in B
        BY <3>1 DEF Satisfied
      <4>5. -k \in B /\ k \in Lits
        BY <1>2, <4>3, <4>4 DEF Negated
      <4> QED BY <3>1, <4>4, <4>5, TotalFacts
    <3> QED BY <2>1, <3>3, <3>4
  <2> QED BY <1>2, <1>4, <2>1, <2>2, ShortenPlain DEF vivify_strengthen
<1>5. CASE flush_vivification_schedule(c)
  <2>1. PICK d \in Vivifiable \ {c} : d \subseteq c /\ (d \in irredundant <=> c \in irredundant)
    BY <1>5 DEF flush_vivification_schedule
  <2>2. c \in irredundant => \A B \in Total : Holds(irredundant \ {c}, B) => Satisfied(c, B)
    BY <2>1 DEF Holds, Satisfied
  <2> QED BY <1>5, <2>2, RemovePlain DEF flush_vivification_schedule
<1> QED BY <1>1, <1>3, <1>4, <1>5 DEF vivify_clause

\* All techniques that push nothing are plain.
LEMMA PlainTechniques ==
    ASSUME Ready, Plain
    PROVE  PlainOK
BY SubsumeOK, TransredOK, TernaryOK, HyperUnaryOK, ProbeOK, VivifyOK DEF Plain

\* What the search learns.
LEMMA LearnOK ==
    ASSUME Ready, Learn
    PROVE  PlainOK
<1>1. \/ \E c \in SUBSET ActiveLiterals :
             /\ ~Tautological(c) /\ Refuted(Database, Negated(c), Vars)
             /\ Update(irredundant, redundant \cup {c}, Unmarked)
      \/ \E c \in redundant : Update(irredundant, redundant \ {c}, Unmarked)
  BY DEF Learn
<1>2. ASSUME NEW c \in SUBSET ActiveLiterals,
             ~Tautological(c), Refuted(Database, Negated(c), Vars),
             Update(irredundant, redundant \cup {c}, Unmarked)
      PROVE  PlainOK
  <2>1. ActiveClause(c) /\ c \in SUBSET Lits
    BY <1>2, ActiveClauseLits, ActiveLits
  <2>2. \A B \in All : Satisfied(c, B)
    BY <1>2, <2>1, RefutedClause, ReadyFacts DEF All
  <2> DEFINE F == {}
             G == {c}
  <2>3. /\ \A d \in F \cup G : ActiveClause(d) /\ \A B \in All : Satisfied(d, B)
        /\ Update(irredundant \cup F, redundant \cup G, Unmarked)
    <3>1. irredundant \cup F = irredundant
      OBVIOUS
    <3> QED BY <1>2, <2>1, <2>2, <3>1
  <2> HIDE DEF F, G
  <2> QED BY <2>3, AddPlain
<1>3. ASSUME NEW c \in redundant, Update(irredundant, redundant \ {c}, Unmarked)
      PROVE  PlainOK
  <2>1. c \notin irredundant /\ irredundant \ {c} = irredundant
    BY DEF Ready, Open, DatabaseOK
  <2> QED BY <1>3, <2>1, RemovePlain
<1> QED BY <1>1, <1>2, <1>3

------------------------------------------------------------------------------
(***************************************************************************)
(* Techniques that push clauses on the extension stack.                    *)
(***************************************************************************)

EntriesFree(es) == \A i \in 1..Len(es) : \A lit \in es[i].witness : vidx(lit) \notin frozen

EntriesHold(es, B) == \A i \in 1..Len(es) : Satisfied(es[i].clause, B)

\* A technique pushes es.
StepOK(es) ==
    /\ Preserved /\ Follows
    /\ Stack(es) /\ EntriesFree(es) /\ \A B \in All : EntriesHold(es, B)
    /\ extension' = extension \o es
    /\ witness' = witness \cup UNION {e.witness : e \in ToSet(es)}
    /\ ~unsat' => Reconstructs(es, Mod', Mod)

\* From fewer assignments, into more.
LEMMA ReconstructsMonotonic ==
    ASSUME NEW es, NEW X, NEW X2 \in SUBSET X, NEW Y, NEW Y2, Y \subseteq Y2, Reconstructs(es, X, Y)
    PROVE  Reconstructs(es, X2, Y2)
BY DEF Reconstructs

\* A plain step pushes nothing.
LEMMA PlainStep ==
    ASSUME PlainOK, UNCHANGED stackVars, Stack(extension)
    PROVE  StepOK(<<>>)
<1> DEFINE es == <<>>
<1>1. es \in Seq(Entries) /\ Len(es) = 0
  OBVIOUS
<1>2. Stack(es) /\ EntriesFree(es) /\ \A B \in All : EntriesHold(es, B)
  BY <1>1 DEF Stack, EntriesFree, EntriesHold
<1>3. extension \o es = extension /\ ToSet(es) = {}
  BY <1>1 DEF Stack, ToSet
<1>4. UNION {e.witness : e \in ToSet(es)} = {}
  BY <1>3
<1>5. ~unsat' => Reconstructs(es, Mod', Mod)
  BY PushNothing DEF PlainOK
<1> HIDE DEF es
<1>6. StepOK(es)
  BY <1>2, <1>3, <1>4, <1>5 DEF StepOK, PlainOK, stackVars
<1> QED BY <1>6 DEF es

\* What a technique that pushes entries has to show.
LEMMA PushStep ==
    ASSUME NEW es, Stack(es), EntriesFree(es), \A B \in All : EntriesHold(es, B),
           push_on_extension_stack(es), Preserved, Follows,
           NEW I, Reconstructs(es, ModelsOf(I), Mod), ~unsat' => Mod' \subseteq ModelsOf(I)
    PROVE  StepOK(es)
<1>1. ~unsat' => Reconstructs(es, Mod', Mod)
  BY ReconstructsMonotonic
<1> QED BY <1>1 DEF StepOK, push_on_extension_stack

\* The same when it removes one clause.
LEMMA RemovePushingOK ==
    ASSUME Ready, NEW c \in irredundant, NEW es, Stack(es), EntriesFree(es),
           \A B \in All : EntriesHold(es, B),
           Reconstructs(es, ModelsOf(irredundant \ {c}), Mod), RemovePushing(c, es)
    PROVE  StepOK(es)
<1> DEFINE I == irredundant \ {c}
<1>1. \A d \in I \cup redundant : ActiveClause(d)
  BY ReadyFacts
<1>2. \A B \in All : Holds(I, B) /\ Holds(redundant, B)
  BY DEF All, Holds, Database
<1>3. Update(I, redundant, Unmarked) /\ push_on_extension_stack(es)
  BY DEF RemovePushing
<1>4. Reconstructs(es, ModelsOf(I), Mod)
  OBVIOUS
<1> HIDE DEF I
<1>5. /\ Preserved /\ Follows
      /\ ~unsat' => \A B \in Total : Holds(irredundant', B) /\ root' \subseteq B
                       => Holds(I, B) /\ root \subseteq B
  BY <1>1, <1>2, <1>3, GeneralUpdate
<1>6. ~unsat' => Mod' \subseteq ModelsOf(I)
  BY <1>5 DEF Mod, ModelsOf
<1> QED BY <1>3, <1>4, <1>5, <1>6, PushStep

\* One entry whose witness is one literal.
LEMMA OneEntry ==
    ASSUME NEW lit \in Lits, NEW c \in SUBSET Lits, lit \in c
    PROVE  LET e == Weakened({lit}, c) IN
           e.witness = {lit} /\ e.clause = c /\ Entry(e) /\ Stack(<<e>>)
<1> DEFINE e == Weakened({lit}, c)
<1>1. e.witness = {lit} /\ e.clause = c /\ e \in Entries
  BY DEF Weakened, Entries
<1>2. -lit # lit
  BY LitFacts
<1>3. Entry(e)
  BY <1>1, <1>2 DEF Entry, Tautological, Satisfied
<1>4. <<e>> \in Seq(Entries) /\ Len(<<e>>) = 1 /\ <<e>>[1] = e
  BY <1>1
<1>5. Stack(<<e>>)
  BY <1>3, <1>4 DEF Stack
<1> QED BY <1>1, <1>3, <1>5

\* Flipping one literal.
LEMMA FlipOne ==
    ASSUME NEW lit \in Lits, NEW c \in SUBSET Lits, lit \in c, NEW B \in Total, ~Satisfied(c, B)
    PROVE  LET D == Flipped(Weakened({lit}, c), B) IN
           /\ D \in Total /\ Satisfied(c, D) /\ lit \in D
           /\ \A k \in B : k # -lit => k \in D
<1> DEFINE e == Weakened({lit}, c)
           D == Flipped(e, B)
<1>1. e.witness = {lit} /\ e.clause = c /\ Entry(e)
  BY OneEntry
<1>2. /\ D \in Total /\ Satisfied(c, D)
      /\ \A k \in Lits : k \in D <=> k \in e.witness \/ (k \in B /\ -k \notin e.witness)
  <2> HIDE DEF e
  <2> QED BY <1>1, FlippedFacts
<1>3. \A k \in B : k \in Lits /\ k \in Int /\ (k # -lit => -k # lit)
  BY TotalFacts, LitFacts
<1> HIDE DEF e, D
<1>4. lit \in D /\ \A k \in B : k # -lit => k \in D
  BY <1>1, <1>2, <1>3
<1> QED BY <1>2, <1>4 DEF e, D

\* The literals fixed at the root level are no literals of clauses.
LEMMA RootApart ==
    ASSUME Open, NEW lit \in ActiveLiterals
    PROVE  lit \notin root /\ -lit \notin root
<1>1. lit \in Lits /\ vidx(lit) \in Vars /\ status[vidx(lit)] = "active"
  BY ActiveLits, LitFacts
<1>2. {vidx(lit), -vidx(lit)} \cap root = {}
  BY <1>1 DEF Open, FixedRight
<1> QED BY <1>1, <1>2, LitFacts

\* Every clause with the negation of the literal holds by another literal
\* when c does not.
LEMMA BlockedOK ==
    ASSUME Ready, NEW lit \in ActiveLiterals, vidx(lit) \notin frozen,
           NEW c \in irredundant, lit \in c,
           \A d \in Occurring(irredundant, -lit) : \E k \in c \ {lit} : -k \in d,
           RemovePushing(c, <<Weakened({lit}, c)>>)
    PROVE  StepOK(<<Weakened({lit}, c)>>)
<1> DEFINE e == Weakened({lit}, c)
           I == irredundant \ {c}
           es == <<e>>
<1>1. lit \in Lits /\ c \in SUBSET Lits /\ irredundant \in SUBSET SUBSET Lits /\ c \in Database
  BY ReadyFacts, ActiveLits
<1>2. e.witness = {lit} /\ e.clause = c /\ Entry(e) /\ Stack(es)
  BY <1>1, OneEntry
<1>3. ASSUME NEW B \in ModelsOf(I), B \in Total PROVE Flipped(e, B) \in Mod
  <2>1. CASE Satisfied(c, B)
    <3>1. Flipped(e, B) = B
      BY <1>2, <2>1 DEF Flipped
    <3> QED BY <2>1, <3>1 DEF ModelsOf, Mod, Holds
  <2>2. CASE ~Satisfied(c, B)
    <3> DEFINE D == Flipped(e, B)
    <3>1. D \in Total /\ Satisfied(c, D) /\ lit \in D /\ \A k \in B : k # -lit => k \in D
      BY <1>1, <1>3, <2>2, FlipOne
    <3> HIDE DEF D
    <3>2. ASSUME NEW d \in irredundant, d # c PROVE Satisfied(d, D)
      <4>1. CASE -lit \notin d
        <5>1. Satisfied(d, B)
          BY <3>2 DEF ModelsOf, Holds
        <5> QED BY <3>1, <4>1, <5>1 DEF Satisfied
      <4>2. CASE -lit \in d
        <5>1. PICK k \in c \ {lit} : -k \in d
          BY <4>2 DEF Occurring
        <5>2. k \notin B /\ k \in Lits
          BY <1>1, <2>2 DEF Satisfied
        <5>3. -k \in B /\ -k # -lit
          BY <1>1, <1>3, <5>1, <5>2, TotalFacts, LitFacts
        <5> QED BY <3>1, <5>1, <5>3 DEF Satisfied
      <4> QED BY <4>1, <4>2
    <3>3. root \subseteq D
      BY <1>3, <3>1, RootApart DEF ModelsOf, Ready
    <3> QED BY <3>1, <3>2, <3>3 DEF Mod, Holds, D
  <2> QED BY <2>1, <2>2
<1>4. EntriesFree(es) /\ \A B \in All : EntriesHold(es, B)
  <2>1. Len(es) = 1 /\ es[1] = e
    OBVIOUS
  <2>2. \A B \in All : Satisfied(c, B)
    BY <1>1 DEF All, Holds
  <2> HIDE DEF es, e
  <2>3. \A i \in 1..Len(es) : es[i] = e
    BY <2>1
  <2>4. EntriesFree(es)
    BY <1>2, <2>3 DEF EntriesFree
  <2>5. \A B \in All : EntriesHold(es, B)
    BY <1>2, <2>2, <2>3 DEF EntriesHold
  <2> QED BY <2>4, <2>5
<1> HIDE DEF e, I
<1>5. Reconstructs(es, ModelsOf(I), Mod)
  BY <1>2, <1>3, PushOne
<1> HIDE DEF es
<1>6. RemovePushing(c, es)
  BY DEF e, es
<1>7. StepOK(es)
  BY <1>2, <1>4, <1>5, <1>6, RemovePushingOK DEF I
<1> QED BY <1>7 DEF e, es

\* The sequence of a finite set has all its elements.
LEMMA SetToSeqFacts ==
    ASSUME NEW S, IsFiniteSet(S)
    PROVE  LET s == SetToSeq(S) IN
           /\ s \in Seq(S) /\ Len(s) \in Nat
           /\ \A x \in S : \E i \in 1..Len(s) : s[i] = x
<1> DEFINE n == Cardinality(S)
           s == SetToSeq(S)
<1>1. n \in Nat /\ ExistsBijection(1..n, S)
  BY FS_CardinalityType
<1>2. \E f \in [1..n -> S] : IsInjective(f)
  <2>1. PICK f \in Bijection(1..n, S) : TRUE
    BY <1>1 DEF ExistsBijection
  <2> QED BY <2>1 DEF Bijection, Injection
<1>3. s \in [1..n -> S] /\ IsInjective(s)
  BY <1>2 DEF SetToSeq
<1> DEFINE T == {s[i] : i \in 1..n}
<1>4. s \in Seq(S) /\ Len(s) = n
  <2> HIDE DEF s
  <2> QED BY <1>1, <1>3
<1>5. Cardinality(T) = n /\ T \in SUBSET S
  <2> HIDE DEF s
  <2>1. s \in Bijection(1..n, T)
    BY <1>3 DEF Bijection, Injection, Surjection
  <2>2. T \in SUBSET S
    BY <1>3
  <2> HIDE DEF T, n
  <2>3. Cardinality(T) = n
    BY <1>1, <2>1, FS_CountingElements DEF ExistsBijection
  <2> QED BY <2>2, <2>3
<1> HIDE DEF T
<1>6. T = S
  BY <1>5, FS_Subset DEF n
<1> HIDE DEF s
<1>7. \A x \in S : \E i \in 1..n : s[i] = x
  BY <1>6 DEF T
<1> QED BY <1>1, <1>4, <1>7 DEF s

\* The clauses F, pushed with one witness literal.
LEMMA WeakenedOnFacts ==
    ASSUME NEW lit \in Lits, NEW F \in SUBSET SUBSET Lits, \A c \in F : lit \in c
    PROVE  LET es == WeakenedOn(lit, F) IN
           /\ Stack(es) /\ Len(es) \in Nat
           /\ \A i \in 1..Len(es) : \E c \in F : es[i] = Weakened({lit}, c)
           /\ \A c \in F : \E i \in 1..Len(es) : es[i] = Weakened({lit}, c)
<1> DEFINE S == {Weakened({lit}, c) : c \in F}
           es == WeakenedOn(lit, F)
<1>1. IsFiniteSet(S)
  <2>1. IsFiniteSet(F)
    BY LitsFinite, FS_SUBSET, FS_Subset
  <2> DEFINE f == [c \in F |-> Weakened({lit}, c)]
  <2>2. f \in Surjection(F, S)
    BY DEF Surjection
  <2> HIDE DEF f, S
  <2> QED BY <2>1, <2>2, FS_Surjection
<1>2. es = SetToSeq(S)
  BY DEF WeakenedOn
<1>3. \A e \in S : Entry(e)
  BY OneEntry
<1>4. \A e : e \in S <=> \E c \in F : e = Weakened({lit}, c)
  OBVIOUS
<1> HIDE DEF S, es
<1>5. es \in Seq(S) /\ Len(es) \in Nat /\ \A x \in S : \E i \in 1..Len(es) : es[i] = x
  BY <1>1, <1>2, SetToSeqFacts
<1>6. \A i \in 1..Len(es) : es[i] \in S
  BY <1>5
<1>7. es \in Seq(Entries)
  <2>1. S \subseteq Entries
    BY <1>3 DEF Entry
  <2> QED BY <1>5, <2>1
<1>8. Stack(es)
  BY <1>3, <1>6, <1>7 DEF Stack
<1>9. \A i \in 1..Len(es) : \E c \in F : es[i] = Weakened({lit}, c)
  BY <1>4, <1>6
<1>10. \A c \in F : \E i \in 1..Len(es) : es[i] = Weakened({lit}, c)
  BY <1>4, <1>5
<1> QED BY <1>5, <1>8, <1>9, <1>10 DEF es

\* They reconstruct when flipping the literal keeps the other clauses.
LEMMA WeakenedOnBatch ==
    ASSUME NEW lit \in Lits, NEW F \in SUBSET SUBSET Lits, \A c \in F : lit \in c, NEW X, NEW Y,
           \A B \in X \cap Total, c \in F : ~Satisfied(c, B) => Flipped(Weakened({lit}, c), B) \in X,
           \A B \in X \cap Total : Holds(F, B) => B \in Y
    PROVE  Reconstructs(WeakenedOn(lit, F), X, Y)
<1> DEFINE es == WeakenedOn(lit, F)
<1>1. /\ Stack(es) /\ Len(es) \in Nat
      /\ \A i \in 1..Len(es) : \E c \in F : es[i] = Weakened({lit}, c)
      /\ \A c \in F : \E i \in 1..Len(es) : es[i] = Weakened({lit}, c)
  BY WeakenedOnFacts
<1> HIDE DEF es
<1>2. \A c : Weakened({lit}, c).clause = c
  BY DEF Weakened
<1>3. ASSUME NEW i \in 1..Len(es), NEW B \in X \cap Total, ~Satisfied(es[i].clause, B)
      PROVE  /\ Flipped(es[i], B) \in X
             /\ \A j \in (i + 1)..Len(es) : Satisfied(es[j].clause, Flipped(es[i], B))
  <2>1. PICK c \in F : es[i] = Weakened({lit}, c)
    BY <1>1
  <2>2. ~Satisfied(c, B) /\ c \in SUBSET Lits /\ lit \in c
    BY <1>2, <1>3, <2>1
  <2>3. lit \in Flipped(es[i], B)
    BY <2>1, <2>2, FlipOne
  <2>4. Flipped(es[i], B) \in X
    BY <2>1, <2>2
  <2>5. ASSUME NEW j \in (i + 1)..Len(es) PROVE Satisfied(es[j].clause, Flipped(es[i], B))
    <3>1. j \in 1..Len(es)
      BY <1>1
    <3>2. PICK d \in F : es[j] = Weakened({lit}, d)
      BY <1>1, <3>1
    <3> QED BY <1>2, <2>3, <3>2 DEF Satisfied
  <2> QED BY <2>4, <2>5
<1>4. ASSUME NEW B \in X \cap Total, \A j \in 1..Len(es) : Satisfied(es[j].clause, B)
      PROVE  B \in Y
  <2>1. Holds(F, B)
    BY <1>1, <1>2, <1>4 DEF Holds
  <2> QED BY <2>1
<1>5. Reconstructs(es, X, Y)
  BY <1>1, <1>3, <1>4, PushBatch
<1> QED BY <1>5 DEF es

\* Their witness is not frozen, and their clauses hold where they did.
LEMMA WeakenedOnMore ==
    ASSUME NEW lit \in Lits, vidx(lit) \notin frozen,
           NEW F \in SUBSET SUBSET Lits, \A c \in F : lit \in c
    PROVE  LET es == WeakenedOn(lit, F) IN
           EntriesFree(es) /\ \A B : Holds(F, B) => EntriesHold(es, B)
<1> DEFINE es == WeakenedOn(lit, F)
<1>1. \A i \in 1..Len(es) : \E c \in F : es[i] = Weakened({lit}, c)
  BY WeakenedOnFacts
<1> HIDE DEF es
<1>2. \A c : Weakened({lit}, c).clause = c /\ Weakened({lit}, c).witness = {lit}
  BY DEF Weakened
<1>3. ASSUME NEW i \in 1..Len(es)
      PROVE  /\ \A k \in es[i].witness : vidx(k) \notin frozen
             /\ \A B : Holds(F, B) => Satisfied(es[i].clause, B)
  <2>1. PICK c \in F : es[i] = Weakened({lit}, c)
    BY <1>1
  <2> QED BY <1>2, <2>1 DEF Holds
<1>4. EntriesFree(es) /\ \A B : Holds(F, B) => EntriesHold(es, B)
  BY <1>3 DEF EntriesFree, EntriesHold
<1> QED BY <1>4 DEF es

\* The clauses of a pure literal are removed (block.cpp).
LEMMA PureOK ==
    ASSUME Ready, NEW lit \in ActiveLiterals, vidx(lit) \notin frozen, block_pure_literal(lit)
    PROVE  \E es : StepOK(es)
<1> DEFINE pure == Occurring(irredundant, lit)
           I == irredundant \ pure
           R == {c \in redundant : {lit, -lit} \cap c = {}}
           mk == Marked({vidx(lit)}, "pure")
           es == WeakenedOn(lit, pure)
<1>1. Occurring(irredundant, -lit) = {} /\ Update(I, R, mk) /\ push_on_extension_stack(es)
  BY DEF block_pure_literal
<1>2. /\ lit \in Lits /\ irredundant \in SUBSET SUBSET Lits /\ pure \in SUBSET SUBSET Lits
      /\ \A c \in pure : lit \in c
  BY ReadyFacts, ActiveLits DEF Occurring
<1>3. \A c \in I : lit \notin c /\ -lit \notin c /\ c \in irredundant
  BY <1>1 DEF Occurring
<1>4. \A c \in I \cup R : c \in Database /\ lit \notin c /\ -lit \notin c
  BY <1>3 DEF Database
<1>5. DOMAIN mk = {vidx(lit)} /\ \A v \in DOMAIN mk : mk[v] = "pure"
  BY DEF Marked
<1> HIDE DEF mk, I, R
<1>6. ASSUME NEW c \in I \cup R
      PROVE  ActiveClause(c) /\ \A k \in c : WithMarks(mk)[vidx(k)] = "active"
  <2>1. ActiveClause(c)
    BY <1>4, ReadyFacts
  <2>2. ASSUME NEW k \in c PROVE WithMarks(mk)[vidx(k)] = "active"
    <3>1. k \in Lits /\ vidx(k) \in Vars /\ status[vidx(k)] = "active"
      BY <2>1, LitFacts DEF ActiveClause, Clause
    <3>2. k # lit /\ k # -lit
      BY <1>4
    <3>3. vidx(k) # vidx(lit)
      BY <1>2, <3>1, <3>2, LitFacts DEF vidx
    <3> QED BY <1>5, <3>1, <3>3 DEF WithMarks
  <2> QED BY <2>1, <2>2
<1>7. \A B \in All : Holds(I, B) /\ Holds(R, B) /\ Holds(pure, B)
  BY <1>4 DEF All, Holds, Database, Occurring
<1>8. \A v \in DOMAIN mk : mk[v] \in {"active"} \cup Gone /\ v \notin frozen
  BY <1>5 DEF Gone
<1>9. Preserved /\ Follows /\ (~unsat' => Mod' \subseteq ModelsOf(I))
  BY <1>1, <1>6, <1>7, <1>8, MarkedUpdate
<1>10. Stack(es) /\ EntriesFree(es) /\ \A B \in All : EntriesHold(es, B)
  BY <1>2, <1>7, WeakenedOnFacts, WeakenedOnMore
<1>11. Reconstructs(es, ModelsOf(I), Mod)
  <2>1. ASSUME NEW B \in ModelsOf(I) \cap Total, NEW c \in pure, ~Satisfied(c, B)
        PROVE  Flipped(Weakened({lit}, c), B) \in ModelsOf(I)
    <3> DEFINE D == Flipped(Weakened({lit}, c), B)
    <3>1. D \in Total /\ \A k \in B : k # -lit => k \in D
      BY <1>2, <2>1, FlipOne
    <3> HIDE DEF D
    <3>2. Holds(I, D)
      BY <1>3, <3>1 DEF ModelsOf, Holds, Satisfied
    <3>3. root \subseteq D
      BY <3>1, RootApart DEF ModelsOf, Ready
    <3> QED BY <3>1, <3>2, <3>3 DEF ModelsOf, D
  <2>2. \A B \in ModelsOf(I) \cap Total : Holds(pure, B) => B \in Mod
    BY DEF ModelsOf, Mod, Holds, I
  <2> HIDE DEF pure
  <2> QED BY <1>2, <2>1, <2>2, WeakenedOnBatch
<1> HIDE DEF es
<1> QED BY <1>1, <1>9, <1>10, <1>11, PushStep

\* Blocked clause elimination (block.cpp).
LEMMA BlockOK ==
    ASSUME Ready, block
    PROVE  \E es : StepOK(es)
<1>1. PICK lit \in ActiveLiterals :
         /\ vidx(lit) \notin frozen
         /\ \/ block_pure_literal(lit)
            \/ block_literal_with_one_negative_occ(lit)
            \/ block_literal_with_at_least_two_negative_occs(lit)
  BY DEF block
<1>2. irredundant \in SUBSET SUBSET Lits /\ \A c \in irredundant : ~Tautological(c)
  BY ReadyFacts DEF ActiveClause, Clause
<1>3. CASE block_literal_with_one_negative_occ(lit)
  <2>1. PICK d \in Occurring(irredundant, -lit) :
           /\ Occurring(irredundant, -lit) = {d}
           /\ \E c \in Occurring(irredundant, lit) :
                 /\ \E other \in c \ {lit} : -other \in d
                 /\ RemovePushing(c, <<Weakened({lit}, c)>>)
    BY <1>3 DEF block_literal_with_one_negative_occ
  <2>2. PICK c \in Occurring(irredundant, lit) :
                 /\ \E other \in c \ {lit} : -other \in d
                 /\ RemovePushing(c, <<Weakened({lit}, c)>>)
    BY <2>1
  <2>3. c \in irredundant /\ lit \in c
    BY DEF Occurring
  <2>4. \A e \in Occurring(irredundant, -lit) : \E k \in c \ {lit} : -k \in e
    BY <2>1, <2>2
  <2>5. StepOK(<<Weakened({lit}, c)>>)
    BY <1>1, <2>2, <2>3, <2>4, BlockedOK
  <2> QED BY <2>5
<1>4. CASE block_literal_with_at_least_two_negative_occs(lit)
  <2>1. PICK c \in block_candidates(lit) :
             is_blocked_clause(c, lit) /\ RemovePushing(c, <<Weakened({lit}, c)>>)
    BY <1>4 DEF block_literal_with_at_least_two_negative_occs
  <2>2. c \in irredundant /\ lit \in c
    BY DEF block_candidates, Occurring
  <2>3. ASSUME NEW d \in Occurring(irredundant, -lit) PROVE \E k \in c \ {lit} : -k \in d
    <3>1. PICK k \in Resolvent(c, d, lit) : -k \in Resolvent(c, d, lit)
      BY <2>1 DEF is_blocked_clause, Tautological
    <3>2. d \in irredundant /\ ~Tautological(c) /\ ~Tautological(d) /\ k \in Lits /\ -(-k) = k
      BY <1>2, <2>2, <3>1, LitFacts DEF Occurring, Resolvent
    <3> QED BY <3>1, <3>2 DEF Resolvent, Tautological
  <2>4. StepOK(<<Weakened({lit}, c)>>)
    BY <1>1, <2>1, <2>2, <2>3, BlockedOK
  <2> QED BY <2>4
<1> QED BY <1>1, <1>3, <1>4, PureOK

\* The assignment that condition starts from.
LEMMA InitialFacts ==
    ASSUME NEW A \in InitialAssignments
    PROVE  /\ A \in SUBSET ActiveLiterals /\ ~Tautological(A)
           /\ \A lit \in A : vidx(lit) \notin frozen
           /\ Cardinality(A) <= Cardinality(Active) /\ Cardinality(Active) \in Nat
           /\ IsFiniteSet(A)
<1> DEFINE V == Active \ frozen
<1>1. PICK P \in SUBSET V : A = P \cup Negated(V \ P)
  BY DEF InitialAssignments, Assignments
<1>2. V \in SUBSET Vars /\ Active \in SUBSET Vars /\ V \in SUBSET Active
  BY DEF Active
<1>3. \A lit : lit \in A <=> lit \in P \/ \E v \in V \ P : lit = -v
  BY <1>1 DEF Negated
<1>4. \A lit \in A : vidx(lit) \in V /\ (lit = vidx(lit) \/ lit = -vidx(lit)) /\ lit \in Int
  <2> SUFFICES ASSUME NEW lit \in A
               PROVE  vidx(lit) \in V /\ (lit = vidx(lit) \/ lit = -vidx(lit)) /\ lit \in Int
    OBVIOUS
  <2>1. PICK v \in V : lit = v \/ lit = -v
    BY <1>3
  <2>2. v \in Vars /\ v \in Lits /\ v \in Int /\ vidx(v) = v /\ vidx(-v) = vidx(v) /\ -v \in Int
    BY <1>2, LitFacts
  <2> QED BY <2>1, <2>2
<1>5. \A v \in V : v \in Int /\ v > 0
  BY <1>2, VarsAssumption
<1>6. A \in SUBSET ActiveLiterals
  BY <1>2, <1>3 DEF ActiveLiterals, Literals, Negated
<1>7. ~Tautological(A)
  <2> SUFFICES ASSUME NEW lit \in A, -lit \in A PROVE FALSE
    BY DEF Tautological
  <2>1. lit \in Int /\ -lit \in Int
    BY <1>4
  <2>2. CASE lit \in P
    <3>1. -lit \notin P
      BY <1>5, <2>1, <2>2
    <3>2. PICK v \in V \ P : -lit = -v
      BY <1>3, <3>1
    <3> QED BY <1>5, <2>1, <2>2, <3>2
  <2>3. CASE lit \notin P
    <3>1. PICK v \in V \ P : lit = -v
      BY <1>3, <2>3
    <3>2. -lit = v
      BY <1>5, <3>1
    <3>3. -lit \notin P
      BY <3>2
    <3>4. PICK u \in V \ P : -lit = -u
      BY <1>3, <3>3
    <3> QED BY <1>5, <3>1, <3>4
  <2> QED BY <2>2, <2>3
<1>8. IsFiniteSet(Active) /\ Cardinality(Active) \in Nat
  BY <1>2, VarsAssumption, FS_Subset, FS_CardinalityType
<1>9. Cardinality(A) <= Cardinality(Active) /\ IsFiniteSet(A)
  <2> DEFINE f == [lit \in A |-> vidx(lit)]
  <2>1. f \in Injection(A, Active)
    <3>1. f \in [A -> Active]
      BY <1>2, <1>4
    <3>2. \A j, k \in A : f[j] = f[k] => j = k
      BY <1>4, <1>7 DEF Tautological, vidx
    <3> HIDE DEF f
    <3> QED BY <3>1, <3>2 DEF Injection, IsInjective
  <2> HIDE DEF f
  <2> QED BY <1>8, <2>1, FS_Injection DEF ExistsInjection
<1> QED BY <1>4, <1>6, <1>7, <1>8, <1>9

\* Shrinking the conditional part reaches a fixed point.
LEMMA ConditionalCloses ==
    ASSUME NEW A \in InitialAssignments, NEW c
    PROVE  LET K == Conditional(c, A) IN
           /\ K \in SUBSET A
           /\ Negative(A, A \ {k \in K : -k \notin c}) \subseteq K
<1> DEFINE f(K) == K \cup Negative(A, A \ {k \in K : -k \notin c})
           step == [K \in SUBSET A |-> f(K)]
           n == Cardinality(Active)
           K0 == InitialConditional(A)
           S == Conditional(c, A)
<1>1. \A K \in SUBSET A : f(K) \in SUBSET A /\ K \subseteq f(K)
  BY DEF Negative
<1>2. step \in [SUBSET A -> SUBSET A] /\ Inflating(step, A) /\ \A K \in SUBSET A : step[K] = f(K)
  <2> HIDE DEF f
  <2>1. step \in [SUBSET A -> SUBSET A] /\ \A K \in SUBSET A : step[K] = f(K)
    BY <1>1
  <2> HIDE DEF step
  <2> QED BY <1>1, <2>1 DEF Inflating
<1>3. K0 \in SUBSET A
  BY DEF InitialConditional, Negative
<1>4. IsFiniteSet(A) /\ n \in Nat /\ Cardinality(A) <= n
  BY InitialFacts
<1>5. S = Iterated(step, K0, n)
  BY DEF Conditional
<1> HIDE DEF step, f, S, n, K0
<1>6. LET K == Iterated(step, K0, n) IN K \in SUBSET A /\ K0 \subseteq K /\ step[K] = K
  BY <1>2, <1>3, <1>4, IteratedCloses
<1>7. S \in SUBSET A /\ f(S) = S
  BY <1>2, <1>5, <1>6
<1> QED BY <1>7 DEF S, f

\* Globally blocked clause elimination (condition.cpp): flipping the witness,
\* the autarky part, keeps all other clauses.
LEMMA ConditionOK ==
    ASSUME Ready, condition
    PROVE  \E es : StepOK(es)
<1>1. PICK A \in InitialAssignments, c \in irredundant :
       LET autarky == A \ Conditional(c, A) IN
       /\ Satisfied(c, autarky)
       /\ RemovePushing(c, <<Weakened(autarky, c)>>)
  BY DEF condition
<1> DEFINE K == Conditional(c, A)
           W == A \ K
           e == Weakened(W, c)
           I == irredundant \ {c}
           es == <<e>>
<1>2. Satisfied(c, W) /\ RemovePushing(c, es)
  BY <1>1
<1>3. /\ A \in SUBSET ActiveLiterals /\ ~Tautological(A)
      /\ \A lit \in A : vidx(lit) \notin frozen
  BY InitialFacts
<1>4. K \in SUBSET A /\ Negative(A, A \ {k \in K : -k \notin c}) \subseteq K
  BY ConditionalCloses
<1>5. c \in SUBSET Lits /\ irredundant \in SUBSET SUBSET Lits /\ c \in Database
  BY ReadyFacts
<1> HIDE DEF K
<1>6. e.witness = W /\ e.clause = c /\ Entry(e) /\ W \in SUBSET Lits
  <2>1. W \in SUBSET Lits
    BY <1>3, ActiveLits
  <2>2. e.witness = W /\ e.clause = c /\ e \in Entries
    BY <1>5, <2>1 DEF Weakened, Entries
  <2>3. ~Tautological(W)
    BY <1>3 DEF Tautological
  <2> QED BY <1>2, <2>1, <2>2, <2>3 DEF Entry
<1> HIDE DEF e
<1>7. Stack(es)
  <2>1. Len(es) = 1 /\ es[1] = e /\ es \in Seq(Entries)
    BY <1>6 DEF Entry
  <2> QED BY <1>6, <2>1 DEF Stack
<1>8. ASSUME NEW B \in ModelsOf(I), B \in Total PROVE Flipped(e, B) \in Mod
  <2>1. CASE Satisfied(c, B)
    <3>1. Flipped(e, B) = B
      BY <1>6, <2>1 DEF Flipped
    <3> QED BY <2>1, <3>1 DEF ModelsOf, Mod, Holds
  <2>2. CASE ~Satisfied(c, B)
    <3> DEFINE D == Flipped(e, B)
    <3>1. /\ D \in Total /\ Satisfied(c, D)
          /\ \A k \in Lits : k \in D <=> k \in W \/ (k \in B /\ -k \notin W)
      BY <1>6, <1>8, <2>2, FlippedFacts
    <3> HIDE DEF D
    <3>2. ASSUME NEW d \in irredundant, d # c PROVE Satisfied(d, D)
      <4>0. d \in SUBSET Lits /\ Satisfied(d, B)
        BY <1>5, <3>2 DEF ModelsOf, Holds
      <4>1. CASE d \cap W # {}
        BY <3>1, <4>0, <4>1 DEF Satisfied
      <4>2. CASE d \cap W = {} /\ \A w \in W : -w \notin d
        <5>1. PICK k \in d : k \in B
          BY <4>0 DEF Satisfied
        <5>2. -k \notin W
          <6> SUFFICES ASSUME -k \in W PROVE FALSE
            OBVIOUS
          <6>1. -(-k) = k
            BY <4>0, LitFacts
          <6> QED BY <4>2, <6>1
        <5> QED BY <3>1, <4>0, <5>1, <5>2 DEF Satisfied
      <4>3. CASE d \cap W = {} /\ \E w \in W : -w \in d
        <5>1. PICK w \in W : -w \in d
          BY <4>3
        <5> DEFINE assigned == A \ {k \in K : -k \notin c}
        <5>2. w \in A /\ w \notin Negative(A, assigned)
          BY <1>4
        <5>3. Satisfied(d, assigned)
          BY <5>1, <5>2 DEF Negative
        <5>4. PICK k \in d : k \in A /\ (k \notin K \/ -k \in c)
          BY <5>3 DEF Satisfied
        <5>5. k \in K /\ -k \in c /\ k \in Lits
          BY <4>0, <4>3, <5>4
        <5>6. -k \notin B
          BY <2>2, <5>5 DEF Satisfied
        <5>7. k \in B
          BY <1>8, <5>5, <5>6, TotalFacts
        <5>8. -k \notin W
          BY <1>3, <5>4 DEF Tautological
        <5> QED BY <3>1, <5>4, <5>5, <5>7, <5>8 DEF Satisfied
      <4> QED BY <4>1, <4>2, <4>3
    <3>3. root \subseteq D
      <4> SUFFICES ASSUME NEW r \in root PROVE r \in D
        OBVIOUS
      <4>1. r \in B /\ r \in Lits /\ -(-r) = r
        BY ReadyFacts, LitFacts DEF ModelsOf
      <4>2. -r \notin W
        <5> SUFFICES ASSUME -r \in W PROVE FALSE
          OBVIOUS
        <5>1. -r \in ActiveLiterals
          BY <1>3
        <5> QED BY <4>1, <5>1, RootApart DEF Ready
      <4> QED BY <3>1, <4>1, <4>2
    <3> QED BY <3>1, <3>2, <3>3 DEF Mod, Holds, D
  <2> QED BY <2>1, <2>2
<1>9. EntriesFree(es) /\ \A B \in All : EntriesHold(es, B)
  <2>1. Len(es) = 1 /\ es[1] = e
    OBVIOUS
  <2>2. \A B \in All : Satisfied(c, B)
    BY <1>5 DEF All, Holds
  <2>3. \A lit \in W : vidx(lit) \notin frozen
    BY <1>3
  <2> HIDE DEF es, W
  <2>4. \A i \in 1..Len(es) : es[i] = e
    BY <2>1
  <2>5. EntriesFree(es)
    BY <1>6, <2>3, <2>4 DEF EntriesFree
  <2>6. \A B \in All : EntriesHold(es, B)
    BY <1>6, <2>2, <2>4 DEF EntriesHold
  <2> QED BY <2>5, <2>6
<1> HIDE DEF I
<1>10. Reconstructs(es, ModelsOf(I), Mod)
  BY <1>6, <1>8, PushOne
<1> HIDE DEF es
<1>11. StepOK(es)
  BY <1>2, <1>7, <1>9, <1>10, RemovePushingOK DEF I
<1> QED BY <1>11

\* The assignments from which the entries of a state of covering lead to
\* models: those of the other clauses that satisfy the extended clause.
CoveredModels(c, st) ==
    {B \in ModelsOf(irredundant \ {c}) : st.done \/ Satisfied(st.covered, B)}

EntriesOver(es, c) == \A i \in 1..Len(es) : c \subseteq es[i].clause

Covering(c, st) ==
    /\ st \in CoverStates
    /\ Stack(st.extend) /\ EntriesFree(st.extend) /\ EntriesOver(st.extend, c)
    /\ c \subseteq st.covered /\ st.covered \subseteq st.false /\ st.covered \subseteq ActiveLiterals
    /\ Reconstructs(st.extend, CoveredModels(c, st), Mod)
    /\ \A B \in ModelsOf(irredundant \ {c}) : ~Satisfied(st.covered, B) => ~Satisfied(st.false, B)

\* The shape of a state of covering.
LEMMA CoverStateFacts ==
    ASSUME NEW st
    PROVE  st \in CoverStates <=>
              /\ st = [false |-> st.false, covered |-> st.covered, extend |-> st.extend, done |-> st.done]
              /\ st.false \in SUBSET Lits /\ st.covered \in SUBSET Lits
              /\ st.extend \in Seq(Entries) /\ st.done \in BOOLEAN
BY DEF CoverStates, Entries, Lits

\* One entry more on top of those that reconstruct.
LEMMA OneMore ==
    ASSUME NEW es, Stack(es), EntriesFree(es), NEW c, EntriesOver(es, c),
           NEW e, Entry(e), \A lit \in e.witness : vidx(lit) \notin frozen, c \subseteq e.clause,
           NEW X1, NEW X2, NEW Y, Reconstructs(es, X1, Y),
           \A B \in X2 : B \in Total => Flipped(e, B) \in X1
    PROVE  LET more == Append(es, e) IN
           /\ Stack(more) /\ EntriesFree(more) /\ EntriesOver(more, c)
           /\ Reconstructs(more, X2, Y)
<1> DEFINE one == <<e>>
           more == Append(es, e)
<1>1. /\ es \in Seq(Entries) /\ e \in Entries /\ Len(es) \in Nat
      /\ more = es \o one /\ Len(more) = Len(es) + 1
      /\ more[Len(es) + 1] = e /\ \A i \in 1..Len(es) : more[i] = es[i]
  BY DEF Stack, Entry
<1>2. Stack(one)
  BY <1>1 DEF Stack
<1>3. Reconstructs(one, X2, X1)
  BY PushOne
<1> HIDE DEF one
<1>4. Stack(es \o one) /\ Reconstructs(es \o one, X2, Y)
  BY <1>2, <1>3, PushAll
<1> HIDE DEF more
<1>5. \A i \in 1..Len(more) : more[i] = e \/ (i \in 1..Len(es) /\ more[i] = es[i])
  BY <1>1
<1>6. EntriesFree(more) /\ EntriesOver(more, c)
  BY <1>5 DEF EntriesFree, EntriesOver
<1> QED BY <1>1, <1>4, <1>6 DEF more

\* Covering starts with the clause itself and nothing pushed.
LEMMA CoverStart ==
    ASSUME Ready, NEW c \in irredundant
    PROVE  Covering(c, CoverState(c))
<1> DEFINE st == CoverState(c)
           es == <<>>
<1>1. /\ st.false = c /\ st.covered = c /\ st.extend = es /\ st.done = FALSE
      /\ st = [false |-> c, covered |-> c, extend |-> es, done |-> FALSE]
  BY DEF CoverState
<1> HIDE DEF st
<1>2. c \in SUBSET Lits /\ c \subseteq ActiveLiterals
  BY ReadyFacts, ActiveClauseLits
<1>3. es \in Seq(Entries) /\ Len(es) = 0
  OBVIOUS
<1>4. Stack(es) /\ EntriesFree(es) /\ EntriesOver(es, c)
  BY <1>3 DEF Stack, EntriesFree, EntriesOver
<1>5. CoveredModels(c, st) \subseteq Mod
  BY <1>1 DEF CoveredModels, ModelsOf, Mod, Holds
<1>6. Reconstructs(es, CoveredModels(c, st), Mod)
  BY <1>5, PushNothing
<1> HIDE DEF es
<1>7. st \in CoverStates
  BY <1>1, <1>2, <1>3, CoverStateFacts
<1> QED BY <1>1, <1>2, <1>4, <1>6, <1>7 DEF Covering, st

\* Asymmetric literals: when the extended clause is false, so are they, and
\* no clause is falsified.
LEMMA AsymmetricFacts ==
    ASSUME Ready, NEW c \in irredundant, NEW st, Covering(c, st)
    PROVE  LET closed == Asymmetric(c, st) IN
           /\ closed \in CoverStates
           /\ closed.covered = st.covered /\ closed.extend = st.extend
           /\ st.false \subseteq closed.false
           /\ \A B \in ModelsOf(irredundant \ {c}) : ~Satisfied(st.covered, B) =>
                 ~Satisfied(closed.false, B) /\ ~closed.done
<1> DEFINE I == irredundant \ {c}
           A == Closure(I, Negated(st.false), Vars)
           closed == Asymmetric(c, st)
           falsified == \E d \in I : Falsified(d, A)
<1>1. st \in CoverStates
  BY DEF Covering
<1>2. /\ closed = [false |-> Negated(A), covered |-> st.covered, extend |-> st.extend,
                   done |-> falsified]
  <2>1. closed = [st EXCEPT !.false = Negated(A), !.done = falsified]
    BY DEF Asymmetric
  <2> DEFINE N == Negated(A)
  <2>2. closed = [st EXCEPT !.false = N, !.done = falsified]
    BY <2>1
  <2> HIDE DEF closed, N, falsified
  <2>3. closed = [false |-> N, covered |-> st.covered, extend |-> st.extend, done |-> falsified]
    BY <1>1, <2>2 DEF CoverStates
  <2> QED BY <2>3 DEF N
<1> HIDE DEF closed
<1>3. I \in SUBSET SUBSET Lits
  BY ReadyFacts
<1>4. st.false \in SUBSET Lits /\ st.covered \in SUBSET Lits /\ st.extend \in Seq(Entries)
  BY <1>1, CoverStateFacts
<1>5. Negated(st.false) \in SUBSET Lits /\ Negated(Negated(st.false)) = st.false
  BY <1>4, NegatedLits
<1> HIDE DEF I
<1>6. A \in SUBSET Lits /\ Negated(st.false) \subseteq A
  BY <1>3, <1>5, ClosureGrows
<1>7. Negated(A) \in SUBSET Lits /\ st.false \subseteq Negated(A)
  <2>1. Negated(A) \in SUBSET Lits
    BY <1>6, NegatedLits
  <2>2. Negated(Negated(st.false)) \subseteq Negated(A)
    BY <1>6 DEF Negated
  <2> QED BY <1>5, <2>1, <2>2
<1>8. ASSUME NEW B \in ModelsOf(I), ~Satisfied(st.covered, B)
      PROVE  ~Satisfied(Negated(A), B) /\ ~falsified
  <2>1. B \in Total /\ Holds(I, B)
    BY DEF ModelsOf
  <2>2. ~Satisfied(st.false, B)
    BY <1>8 DEF Covering, I
  <2>3. Negated(st.false) \subseteq B
    <3> SUFFICES ASSUME NEW k \in Negated(st.false) PROVE k \in B
      OBVIOUS
    <3>1. k \in Lits /\ -k \in st.false
      BY <1>4, <1>5, NegatedLits
    <3> QED BY <2>1, <2>2, <3>1, TotalFacts DEF Satisfied
  <2> HIDE DEF A
  <2>4. A \subseteq B
    BY <1>3, <1>5, <2>1, <2>3, ClosureSound DEF A
  <2>5. ~Satisfied(Negated(A), B)
    <3> SUFFICES ASSUME NEW k \in Negated(A), k \in B PROVE FALSE
      BY DEF Satisfied
    <3>1. k \in Lits /\ -k \in A
      BY <1>6, <1>7, NegatedLits
    <3> QED BY <2>1, <2>4, <3>1, TotalFacts
  <2>6. \A d \in I : ~Falsified(d, A)
    BY <1>3, <2>1, <2>4, NotFalsified DEF Holds
  <2> QED BY <2>5, <2>6
<1> HIDE DEF A, falsified
<1>9. closed \in CoverStates
  <2>1. falsified \in BOOLEAN
    BY DEF falsified
  <2> QED BY <1>2, <1>4, <1>7, <2>1, CoverStateFacts
<1> QED BY <1>2, <1>7, <1>8, <1>9 DEF closed, I

\* A covered literal is flipped.
LEMMA CoverFlip ==
    ASSUME Ready, NEW c \in irredundant, NEW lit \in ActiveLiterals,
           NEW covered \in SUBSET Lits, lit \in covered,
           NEW B \in ModelsOf(irredundant \ {c}), ~Satisfied(covered, B),
           \A d \in irredundant \ {c} : -lit \in d => \E k \in d \ {-lit} : k \in B
    PROVE  LET D == Flipped(Weakened({lit}, covered), B) IN
           D \in ModelsOf(irredundant \ {c}) /\ Satisfied(covered, D)
<1> DEFINE D == Flipped(Weakened({lit}, covered), B)
<1>1. lit \in Lits /\ B \in Total
  BY ActiveLits DEF ModelsOf
<1>2. D \in Total /\ Satisfied(covered, D) /\ lit \in D /\ \A k \in B : k # -lit => k \in D
  BY <1>1, FlipOne
<1> HIDE DEF D
<1>3. ASSUME NEW d \in irredundant \ {c} PROVE Satisfied(d, D)
  <2>1. CASE -lit \in d
    BY <1>2, <2>1 DEF Satisfied
  <2>2. CASE -lit \notin d
    <3>1. Satisfied(d, B)
      BY DEF ModelsOf, Holds
    <3> QED BY <1>2, <2>2, <3>1 DEF Satisfied
  <2> QED BY <2>1, <2>2
<1>4. root \subseteq D
  BY <1>2, RootApart DEF ModelsOf, Ready
<1> QED BY <1>2, <1>3, <1>4 DEF ModelsOf, Holds, D

\* A step that adds covered literals or finds the clause blocked.
LEMMA CoveredOK ==
    ASSUME Ready, NEW c \in irredundant, NEW st, Covering(c, st), ~st.done,
           NEW closed, closed \in CoverStates, ~closed.done,
           closed.covered = st.covered, closed.extend = st.extend, st.false \subseteq closed.false,
           \A B \in ModelsOf(irredundant \ {c}) : ~Satisfied(st.covered, B) => ~Satisfied(closed.false, B),
           NEW lit \in st.covered, vidx(lit) \notin frozen, NEW new \in Covered(closed, lit)
    PROVE  Covering(c, new)
<1> DEFINE I == irredundant \ {c}
           fal == closed.false
           cov == st.covered
           open == {d \ {-lit} : d \in {e \in Occurring(irredundant, -lit) :
                                        (e \ {-lit}) \cap Negated(fal) = {}}}
           intersection == {k \in UNION open : k \notin fal /\ \A d \in open : k \in d}
           e0 == Weakened({lit}, cov)
           pushed == Append(st.extend, e0)
<1>1. /\ lit \in ActiveLiterals /\ lit \in Lits /\ cov \in SUBSET Lits /\ fal \in SUBSET Lits
      /\ c \subseteq cov /\ cov \subseteq fal /\ cov \subseteq ActiveLiterals
      /\ st.extend \in Seq(Entries)
  BY ActiveLits, CoverStateFacts DEF Covering
<1>2. \/ open = {} /\ new = [closed EXCEPT !.extend = pushed, !.done = TRUE]
      \/ open # {} /\ new = [closed EXCEPT !.extend = pushed, !.covered = @ \cup intersection,
                                            !.false = @ \cup intersection]
  BY DEF Covered
<1>3. \A d \in irredundant : d \in SUBSET Lits /\ d \subseteq ActiveLiterals
  BY ReadyFacts, ActiveClauseLits
\* A clause that is not open has another literal that holds.
<1>4. ASSUME NEW B \in ModelsOf(I), ~Satisfied(cov, B), NEW d \in I, -lit \in d, d \ {-lit} \notin open
      PROVE  \E k \in d \ {-lit} : k \in B
  <2>1. PICK k \in d \ {-lit} : k \in Negated(fal)
    BY <1>4 DEF Occurring
  <2>2. k \in Lits /\ -k \in fal
    BY <1>1, <1>3, <2>1, NegatedLits
  <2>3. -k \notin B /\ B \in Total
    BY <1>4, <2>2 DEF Satisfied, ModelsOf
  <2> QED BY <2>1, <2>2, <2>3, TotalFacts
<1>5. intersection \in SUBSET ActiveLiterals /\ intersection \in SUBSET Lits
  <2> SUFFICES ASSUME NEW k \in intersection PROVE k \in ActiveLiterals /\ k \in Lits
    OBVIOUS
  <2>1. PICK d \in irredundant : k \in d
    BY DEF Occurring
  <2> QED BY <1>3, <2>1
<1>6. \A d \in open : \A k \in intersection : k \in d
  OBVIOUS
<1>7. \A d \in open : -lit \notin d
  OBVIOUS
<1> HIDE DEF open, intersection
<1>8. e0.witness = {lit} /\ e0.clause = cov /\ Entry(e0)
  BY <1>1, OneEntry
<1>9. /\ Stack(st.extend) /\ EntriesFree(st.extend) /\ EntriesOver(st.extend, c)
      /\ Reconstructs(st.extend, CoveredModels(c, st), Mod)
  BY DEF Covering
<1> HIDE DEF e0
<1>10. ASSUME NEW X, \A B \in X : B \in Total => Flipped(e0, B) \in CoveredModels(c, st)
       PROVE  /\ Stack(pushed) /\ EntriesFree(pushed) /\ EntriesOver(pushed, c)
              /\ Reconstructs(pushed, X, Mod)
  <2> DEFINE es == st.extend
             X1 == CoveredModels(c, st)
  <2>1. /\ Stack(es) /\ EntriesFree(es) /\ EntriesOver(es, c) /\ Reconstructs(es, X1, Mod)
        /\ \A B \in X : B \in Total => Flipped(e0, B) \in X1
        /\ Entry(e0) /\ \A k \in e0.witness : vidx(k) \notin frozen
        /\ c \subseteq e0.clause
    BY <1>1, <1>8, <1>9, <1>10
  <2> HIDE DEF es, X1
  <2>2. /\ Stack(Append(es, e0)) /\ EntriesFree(Append(es, e0)) /\ EntriesOver(Append(es, e0), c)
        /\ Reconstructs(Append(es, e0), X, Mod)
    BY <2>1, OneMore
  <2> QED BY <2>2 DEF es
<1> HIDE DEF pushed
<1>11. CASE open = {} /\ new = [closed EXCEPT !.extend = pushed, !.done = TRUE]
  <2>1. new = [false |-> fal, covered |-> cov, extend |-> pushed, done |-> TRUE]
    BY <1>11 DEF CoverStates
  <2>2. new.false = fal /\ new.covered = cov /\ new.extend = pushed /\ new.done = TRUE
    BY <2>1
  <2>3. \A B \in CoveredModels(c, new) : Flipped(e0, B) \in CoveredModels(c, st)
    <3> SUFFICES ASSUME NEW B \in ModelsOf(I) PROVE Flipped(e0, B) \in CoveredModels(c, st)
      BY DEF CoveredModels
    <3>1. CASE Satisfied(cov, B)
      <4>1. Flipped(e0, B) = B
        BY <1>8, <3>1 DEF Flipped
      <4> QED BY <3>1, <4>1 DEF CoveredModels
    <3>2. CASE ~Satisfied(cov, B)
      <4>1. \A d \in I : -lit \in d => \E k \in d \ {-lit} : k \in B
        BY <1>4, <1>11, <3>2
      <4>2. Flipped(e0, B) \in ModelsOf(I) /\ Satisfied(cov, Flipped(e0, B))
        BY <1>1, <3>2, <4>1, CoverFlip DEF e0
      <4> QED BY <4>2 DEF CoveredModels
    <3> QED BY <3>1, <3>2
  <2>4. /\ Stack(pushed) /\ EntriesFree(pushed) /\ EntriesOver(pushed, c)
        /\ Reconstructs(pushed, CoveredModels(c, new), Mod)
    BY <1>10, <2>3
  <2>5. new \in CoverStates
    <3>1. pushed \in Seq(Entries)
      BY <2>4 DEF Stack
    <3> QED BY <1>1, <2>1, <2>2, <3>1, CoverStateFacts
  <2> QED BY <1>1, <2>2, <2>4, <2>5 DEF Covering
<1>12. CASE /\ open # {}
            /\ new = [closed EXCEPT !.extend = pushed, !.covered = @ \cup intersection,
                                     !.false = @ \cup intersection]
  <2> DEFINE cov2 == cov \cup intersection
             fal2 == fal \cup intersection
  <2>1. new = [false |-> fal2, covered |-> cov2, extend |-> pushed, done |-> closed.done]
    BY <1>12 DEF CoverStates
  <2>2. /\ new.false = fal2 /\ new.covered = cov2 /\ new.extend = pushed
        /\ new.done = closed.done /\ closed.done \in BOOLEAN /\ ~new.done
    BY <2>1, CoverStateFacts
  <2>3. \A B \in CoveredModels(c, new) : Flipped(e0, B) \in CoveredModels(c, st)
    <3> SUFFICES ASSUME NEW B \in ModelsOf(I), Satisfied(cov2, B)
                 PROVE  Flipped(e0, B) \in CoveredModels(c, st)
      BY <2>2 DEF CoveredModels
    <3>1. CASE Satisfied(cov, B)
      <4>1. Flipped(e0, B) = B
        BY <1>8, <3>1 DEF Flipped
      <4> QED BY <3>1, <4>1 DEF CoveredModels
    <3>2. CASE ~Satisfied(cov, B)
      <4>0. PICK j \in intersection : j \in B
        BY <3>2 DEF Satisfied
      <4>1. ASSUME NEW d \in I, -lit \in d PROVE \E k \in d \ {-lit} : k \in B
        <5>1. CASE d \ {-lit} \in open
          BY <1>6, <4>0, <5>1
        <5>2. CASE d \ {-lit} \notin open
          BY <1>4, <3>2, <4>1, <5>2
        <5> QED BY <5>1, <5>2
      <4>2. Flipped(e0, B) \in ModelsOf(I) /\ Satisfied(cov, Flipped(e0, B))
        BY <1>1, <3>2, <4>1, CoverFlip DEF e0
      <4> QED BY <4>2 DEF CoveredModels
    <3> QED BY <3>1, <3>2
  <2>4. /\ Stack(pushed) /\ EntriesFree(pushed) /\ EntriesOver(pushed, c)
        /\ Reconstructs(pushed, CoveredModels(c, new), Mod)
    BY <1>10, <2>3
  <2>5. new \in CoverStates
    <3>1. pushed \in Seq(Entries)
      BY <2>4 DEF Stack
    <3> QED BY <1>1, <1>5, <2>1, <2>2, <3>1, CoverStateFacts
  <2>6. \A B \in ModelsOf(I) : ~Satisfied(cov2, B) => ~Satisfied(fal2, B)
    BY DEF Satisfied
  <2>7. c \subseteq cov2 /\ cov2 \subseteq fal2 /\ cov2 \subseteq ActiveLiterals
    BY <1>1, <1>5
  <2> HIDE DEF cov2, fal2
  <2> QED BY <2>2, <2>4, <2>5, <2>6, <2>7 DEF Covering
<1> QED BY <1>2, <1>11, <1>12

\* Every step of covering keeps what is known of its state.
LEMMA CoverStepOK ==
    ASSUME Ready, NEW c \in irredundant, NEW st, Covering(c, st), NEW new \in CoverStep(c, st)
    PROVE  Covering(c, new)
<1> DEFINE closed == Asymmetric(c, st)
<1>1. /\ closed \in CoverStates
      /\ closed.covered = st.covered /\ closed.extend = st.extend
      /\ st.false \subseteq closed.false
      /\ \A B \in ModelsOf(irredundant \ {c}) : ~Satisfied(st.covered, B) =>
                 ~Satisfied(closed.false, B) /\ ~closed.done
  BY AsymmetricFacts
<1>2. \/ (st.done \/ closed.done) /\ new = [closed EXCEPT !.done = TRUE]
      \/ ~st.done /\ ~closed.done /\ \E lit \in st.covered : vidx(lit) \notin frozen /\ new \in Covered(closed, lit)
  BY DEF CoverStep
<1> HIDE DEF closed
<1>3. CASE (st.done \/ closed.done) /\ new = [closed EXCEPT !.done = TRUE]
  <2>1. new = [false |-> closed.false, covered |-> st.covered, extend |-> st.extend, done |-> TRUE]
    BY <1>1, <1>3 DEF CoverStates
  <2>2. /\ new.false = closed.false /\ new.covered = st.covered /\ new.extend = st.extend
        /\ new.done = TRUE
    BY <2>1
  <2>3. new \in CoverStates
    BY <1>1, <2>1, <2>2, CoverStateFacts
  <2>4. CoveredModels(c, new) \subseteq CoveredModels(c, st)
    BY <1>1, <1>3 DEF CoveredModels
  <2>5. Reconstructs(new.extend, CoveredModels(c, new), Mod)
    <3> DEFINE es == st.extend
               X2 == CoveredModels(c, new)
               X == CoveredModels(c, st)
    <3>1. Reconstructs(es, X, Mod) /\ X2 \in SUBSET X /\ Mod \subseteq Mod
      BY <2>4 DEF Covering
    <3> HIDE DEF es, X2, X
    <3>2. Reconstructs(es, X2, Mod)
      BY <3>1, ReconstructsMonotonic
    <3> QED BY <2>2, <3>2 DEF es, X2
  <2> QED BY <1>1, <2>2, <2>3, <2>5 DEF Covering
<1>4. ASSUME ~st.done, ~closed.done, NEW lit \in st.covered, vidx(lit) \notin frozen,
             new \in Covered(closed, lit)
      PROVE  Covering(c, new)
  BY <1>1, <1>4, CoveredOK
<1> QED BY <1>2, <1>3, <1>4

\* So do all of them.
LEMMA CoverOutcomesOK ==
    ASSUME Ready, NEW c \in irredundant, NEW st \in CoverOutcomes(c)
    PROVE  Covering(c, st)
<1> DEFINE T == SUBSET CoverStates
           P == {S \in T : \A x \in S : Covering(c, x)}
           f(S) == S \cup UNION {CoverStep(c, x) : x \in S}
           step == [S \in T |-> f(S)]
           n == Cardinality(Vars) + 1
           S0 == {CoverState(c)}
<1>1. \A x : Covering(c, x) => x \in CoverStates
  BY DEF Covering
<1>2. ASSUME NEW x \in CoverStates, NEW y \in CoverStep(c, x) PROVE y \in CoverStates
  <2> DEFINE closed == Asymmetric(c, x)
  <2>0. closed \in CoverStates
    <3>1. irredundant \ {c} \in SUBSET SUBSET Lits /\ x.false \in SUBSET Lits
      BY ReadyFacts, CoverStateFacts
    <3>2. Negated(Closure(irredundant \ {c}, Negated(x.false), Vars)) \in SUBSET Lits
      <4> DEFINE F == irredundant \ {c}
                 L == x.false
      <4>1. F \in SUBSET SUBSET Lits /\ L \in SUBSET Lits
        BY <3>1
      <4> HIDE DEF F, L
      <4>2. Negated(L) \in SUBSET Lits
        BY <4>1, NegatedLits
      <4>3. Closure(F, Negated(L), Vars) \in SUBSET Lits
        BY <4>1, <4>2, ClosureGrows
      <4>4. Negated(Closure(F, Negated(L), Vars)) \in SUBSET Lits
        BY <4>3, NegatedLits
      <4> QED BY <4>4 DEF F, L
    <3> DEFINE N == Negated(Closure(irredundant \ {c}, Negated(x.false), Vars))
               b == \E d \in irredundant \ {c} :
                       Falsified(d, Closure(irredundant \ {c}, Negated(x.false), Vars))
    <3>3. closed = [x EXCEPT !.false = N, !.done = b] /\ b \in BOOLEAN
      BY DEF Asymmetric
    <3> HIDE DEF closed, N, b
    <3> QED BY <3>2, <3>3 DEF CoverStates, N, Lits
  <2>1. \/ y = [closed EXCEPT !.done = TRUE]
        \/ \E lit \in x.covered : y \in Covered(closed, lit)
    BY <1>2 DEF CoverStep
  <2> HIDE DEF closed
  <2>2. CASE y = [closed EXCEPT !.done = TRUE]
    BY <2>0, <2>2 DEF CoverStates
  <2>3. ASSUME NEW lit \in x.covered, y \in Covered(closed, lit) PROVE y \in CoverStates
    <3> DEFINE pushed == Append(closed.extend, Weakened({lit}, closed.covered))
    <3>1. \/ y = [closed EXCEPT !.extend = pushed, !.done = TRUE]
          \/ \E inter \in SUBSET UNION irredundant :
                y = [closed EXCEPT !.extend = pushed, !.covered = @ \cup inter, !.false = @ \cup inter]
      <4> DEFINE open == {d \ {-lit} : d \in {e \in Occurring(irredundant, -lit) :
                                        (e \ {-lit}) \cap Negated(closed.false) = {}}}
                 inter == {k \in UNION open : k \notin closed.false /\ \A d \in open : k \in d}
      <4>1. inter \in SUBSET UNION irredundant
        <5> SUFFICES ASSUME NEW k \in inter PROVE \E d \in irredundant : k \in d
          OBVIOUS
        <5> QED BY DEF Occurring
      <4>2. \/ y = [closed EXCEPT !.extend = pushed, !.done = TRUE]
            \/ y = [closed EXCEPT !.extend = pushed, !.covered = @ \cup inter, !.false = @ \cup inter]
        BY <2>3 DEF Covered
      <4> HIDE DEF inter, pushed
      <4> QED BY <4>1, <4>2
    <3>2. UNION irredundant \in SUBSET Lits
      BY ReadyFacts
    <3>3. pushed \in Seq(Entries)
      <4>1. closed.extend \in Seq(Entries) /\ closed.covered \in SUBSET Lits /\ lit \in Lits
        BY <2>0, CoverStateFacts
      <4>2. Weakened({lit}, closed.covered) \in Entries
        BY <4>1 DEF Weakened, Entries
      <4> QED BY <4>1, <4>2
    <3> HIDE DEF pushed
    <3> QED BY <2>0, <3>1, <3>2, <3>3, ZenonT(60) DEF CoverStates, Entries, Lits
  <2> QED BY <2>1, <2>2, <2>3
<1>3. \A S \in T : f(S) \in T
  BY <1>2
<1>4. step \in [T -> T] /\ \A S \in T : step[S] = f(S)
  <2> HIDE DEF f, T
  <2> QED BY <1>3
<1>5. S0 \in T /\ S0 \in P
  BY <1>1, CoverStart
<1>6. \A S \in T : S \in P => step[S] \in P
  <2> SUFFICES ASSUME NEW S \in T, S \in P PROVE step[S] \in P
    OBVIOUS
  <2>1. step[S] = f(S) /\ f(S) \in T
    BY <1>3, <1>4
  <2>2. \A x \in f(S) : Covering(c, x)
    BY CoverStepOK
  <2> QED BY <2>1, <2>2
<1>7. n \in Nat
  BY VarsAssumption, FS_CardinalityType
<1>8. CoverOutcomes(c) = Iterated(step, S0, n)
  BY DEF CoverOutcomes
<1> HIDE DEF T, P, f, step, n, S0
<1>9. Iterated(step, S0, n) \in P
  BY <1>4, <1>5, <1>6, <1>7, IteratedIn
<1> QED BY <1>8, <1>9 DEF P

\* Covered clause elimination (cover.cpp).
LEMMA CoverOK ==
    ASSUME Ready, cover_clause
    PROVE  \E es : StepOK(es)
<1>1. PICK c \in irredundant : \E st \in {s \in CoverOutcomes(c) : s.done} : RemovePushing(c, st.extend)
  BY DEF cover_clause
<1>2. PICK st \in CoverOutcomes(c) : st.done /\ RemovePushing(c, st.extend)
  BY <1>1
<1>3. Covering(c, st)
  BY CoverOutcomesOK
<1> DEFINE es == st.extend
<1>4. Stack(es) /\ EntriesFree(es) /\ EntriesOver(es, c) /\ Reconstructs(es, CoveredModels(c, st), Mod)
  BY <1>3 DEF Covering
<1>5. CoveredModels(c, st) = ModelsOf(irredundant \ {c})
  BY <1>2 DEF CoveredModels
<1>6. \A B \in All : EntriesHold(es, B)
  BY <1>4 DEF All, Holds, Database, EntriesHold, EntriesOver, Satisfied
<1>7. RemovePushing(c, es)
  BY <1>2
<1> HIDE DEF es
<1>8. StepOK(es)
  BY <1>4, <1>5, <1>6, <1>7, RemovePushingOK
<1> QED BY <1>8

\* The literals implied through the binary clauses.
Implied(lit) == Reachable(Binary(Database), lit)

\* Closed under the implications.
Transitive(S) == \A k \in S, c \in Binary(Database) : -k \in c => c \ {-k} \subseteq S

Onward(F, S) == S \cup UNION {UNION {c \ {-k} : c \in Occurring(F, -k)} : k \in S}

\* A step along the implications.
LEMMA OnwardMember ==
    ASSUME NEW F, NEW S
    PROVE  /\ S \subseteq Onward(F, S)
           /\ \A j : j \in Onward(F, S) <=>
                 j \in S \/ \E k \in S : \E c \in F : -k \in c /\ j \in c \ {-k}
BY DEF Onward, Occurring

\* It stays in a set that is closed under them.
LEMMA OnwardWithin ==
    ASSUME NEW S, Transitive(S), NEW S2 \in SUBSET S
    PROVE  Onward(Binary(Database), S2) \in SUBSET S
<1> SUFFICES ASSUME NEW j \in Onward(Binary(Database), S2) PROVE j \in S
  OBVIOUS
<1>1. j \in S2 \/ \E k \in S2 : \E c \in Binary(Database) : -k \in c /\ j \in c \ {-k}
  BY OnwardMember
<1> QED BY <1>1 DEF Transitive

\* Binary clauses have active literals.
LEMMA BinaryActive ==
    ASSUME Ready, NEW c \in Binary(Database)
    PROVE  c \in Database /\ c \in SUBSET Lits /\ c \subseteq ActiveLiterals /\ Cardinality(c) = 2
BY ReadyFacts, ActiveClauseLits DEF Binary

\* The active literals are closed under the implications.
LEMMA ActiveTransitive ==
    ASSUME Ready
    PROVE  Transitive(ActiveLiterals)
BY BinaryActive DEF Transitive

\* The implied literals are the least closed set.
LEMMA ImpliedFacts ==
    ASSUME Ready, NEW lit \in ActiveLiterals
    PROVE  /\ Implied(lit) \in SUBSET ActiveLiterals /\ lit \in Implied(lit)
           /\ Transitive(Implied(lit))
           /\ \A S : lit \in S /\ Transitive(S) => Implied(lit) \subseteq S
<1> DEFINE U == ActiveLiterals
           F == Binary(Database)
           step == [S \in SUBSET U |-> Onward(F, S)]
           n == Cardinality(U)
           X == Implied(lit)
<1>1. \A S \in SUBSET U : Onward(F, S) \in SUBSET U /\ S \subseteq Onward(F, S)
  BY ActiveTransitive, OnwardWithin, OnwardMember
<1>2. /\ step \in [SUBSET U -> SUBSET U] /\ Inflating(step, U)
      /\ \A S \in SUBSET U : step[S] = Onward(F, S)
  <2> HIDE DEF U, F
  <2> QED BY <1>1 DEF Inflating
<1>3. X = Iterated(step, {lit}, n)
  BY DEF Implied, Reachable, Onward
<1>4. IsFiniteSet(U) /\ n \in Nat /\ n <= n /\ {lit} \in SUBSET U
  BY ActiveFinite
<1> HIDE DEF step, X, F
<1>5. X \in SUBSET U /\ lit \in X /\ step[X] = X
  <2>1. LET S == Iterated(step, {lit}, n) IN S \in SUBSET U /\ {lit} \subseteq S /\ step[S] = S
    <3> HIDE DEF U
    <3> QED BY <1>2, <1>4, IteratedCloses
  <2> QED BY <1>3, <2>1
<1>6. Transitive(X)
  <2> SUFFICES ASSUME NEW k \in X, NEW c \in Binary(Database), -k \in c, NEW j \in c \ {-k} PROVE j \in X
    BY DEF Transitive
  <2>1. j \in Onward(F, X)
    BY OnwardMember DEF F
  <2> QED BY <1>2, <1>5, <2>1
<1>7. ASSUME NEW S, lit \in S, Transitive(S) PROVE X \subseteq S
  <2> DEFINE P == SUBSET S
             T == SUBSET U
  <2>1. \A Y \in T : Y \in P => step[Y] \in P
    BY <1>2, <1>7, OnwardWithin DEF F
  <2>2. {lit} \in P
    BY <1>7
  <2>3. step \in [T -> T] /\ {lit} \in T /\ n \in Nat
    BY <1>2, <1>4
  <2> HIDE DEF T, P, U, n
  <2>4. Iterated(step, {lit}, n) \in P
    BY <2>1, <2>2, <2>3, IteratedIn
  <2> QED BY <1>3, <2>4 DEF P
<1> QED BY <1>5, <1>6, <1>7 DEF X

\* They hold where the literal does.
LEMMA ImpliedHolds ==
    ASSUME Ready, NEW lit \in ActiveLiterals, NEW B \in All, lit \in B
    PROVE  Implied(lit) \subseteq B
<1> DEFINE S == B \cap ActiveLiterals
<1>1. Transitive(S)
  <2> SUFFICES ASSUME NEW k \in S, NEW c \in Binary(Database), -k \in c PROVE c \ {-k} \subseteq S
    BY DEF Transitive
  <2>1. /\ c \in SUBSET Lits /\ c \subseteq ActiveLiterals /\ Cardinality(c) = 2
        /\ Satisfied(c, B) /\ B \in Total /\ k \in Lits /\ k \in B
    BY BinaryActive, ActiveLits DEF All, Holds
  <2>2. c \ {-k} \subseteq B
    BY <2>1, BinaryImplies
  <2> QED BY <2>1, <2>2
<1> HIDE DEF S
<1>2. Implied(lit) \subseteq S
  <2>1. lit \in S
    BY DEF S
  <2> QED BY <1>1, <2>1, ImpliedFacts
<1> QED BY <1>2 DEF S

\* Implication is transitive.
LEMMA ImpliedTransitive ==
    ASSUME Ready, NEW lit \in ActiveLiterals, NEW k \in Implied(lit)
    PROVE  k \in ActiveLiterals /\ Implied(k) \subseteq Implied(lit)
BY ImpliedFacts

\* Implications can be read backwards.
LEMMA ImpliedContrapositive ==
    ASSUME Ready, NEW lit \in ActiveLiterals, NEW k \in Implied(lit)
    PROVE  -lit \in Implied(-k)
<1> DEFINE S == {j \in ActiveLiterals : -lit \in Implied(-j)}
<1>1. lit \in S
  BY ActiveNegated, ImpliedFacts
<1>2. Transitive(S)
  <2> SUFFICES ASSUME NEW i \in S, NEW c \in Binary(Database), -i \in c, NEW j \in c \ {-i} PROVE j \in S
    BY DEF Transitive
  <2>1. c \in SUBSET Lits /\ c \subseteq ActiveLiterals /\ Cardinality(c) = 2
    BY BinaryActive
  <2>2. j \in ActiveLiterals /\ -j \in ActiveLiterals /\ -(-j) = j /\ -i \in ActiveLiterals
    BY <2>1, ActiveNegated
  <2>3. -i \in Implied(-j)
    <3>1. Transitive(Implied(-j)) /\ -j \in Implied(-j)
      BY <2>2, ImpliedFacts
    <3>2. c \ {j} \subseteq Implied(-j)
      BY <2>2, <3>1 DEF Transitive
    <3> QED BY <3>2
  <2>4. Implied(-i) \subseteq Implied(-j)
    BY <2>2, <2>3, ImpliedTransitive
  <2> QED BY <2>2, <2>4
<1> HIDE DEF S
<1>3. k \in S
  BY <1>1, <1>2, ImpliedFacts
<1> QED BY <1>3 DEF S

\* Equivalent literals have the same value in every model.
LEMMA EquivalentFacts ==
    ASSUME Ready, NEW lit \in ActiveLiterals
    PROVE  /\ EquivalentTo(lit) \in SUBSET ActiveLiterals /\ lit \in EquivalentTo(lit)
           /\ \A k \in EquivalentTo(lit) :
                 /\ EquivalentTo(k) = EquivalentTo(lit)
                 /\ -k \in EquivalentTo(-lit)
                 /\ \A B \in All : k \in B <=> lit \in B
<1>1. \A j, k : k \in EquivalentTo(j) <=> k \in Implied(j) /\ j \in Implied(k)
  BY DEF EquivalentTo, Implied
<1>2. \A k \in EquivalentTo(lit) : k \in ActiveLiterals
  BY <1>1, ImpliedFacts
<1>3. lit \in EquivalentTo(lit)
  BY <1>1, ImpliedFacts
<1>4. ASSUME NEW k \in EquivalentTo(lit) PROVE EquivalentTo(k) = EquivalentTo(lit)
  <2>1. k \in ActiveLiterals /\ k \in Implied(lit) /\ lit \in Implied(k)
    BY <1>1, <1>2
  <2>2. Implied(k) = Implied(lit)
    BY <2>1, ImpliedTransitive
  <2>3. ASSUME NEW j, j \in EquivalentTo(k) PROVE j \in EquivalentTo(lit)
    <3>1. j \in Implied(lit) /\ k \in Implied(j)
      BY <1>1, <2>2, <2>3
    <3>2. lit \in Implied(j)
      BY <2>1, <3>1, ImpliedTransitive
    <3> QED BY <1>1, <3>1, <3>2
  <2>4. ASSUME NEW j, j \in EquivalentTo(lit) PROVE j \in EquivalentTo(k)
    <3>1. j \in Implied(k) /\ lit \in Implied(j) /\ j \in ActiveLiterals
      BY <1>1, <1>2, <2>2, <2>4
    <3>2. k \in Implied(j)
      BY <2>1, <3>1, ImpliedTransitive
    <3> QED BY <1>1, <3>1, <3>2
  <2> QED BY <2>3, <2>4
<1>5. ASSUME NEW k \in EquivalentTo(lit) PROVE -k \in EquivalentTo(-lit)
  <2>1. k \in ActiveLiterals /\ k \in Implied(lit) /\ lit \in Implied(k)
    BY <1>1, <1>2
  <2>2. -lit \in Implied(-k) /\ -k \in Implied(-lit)
    BY <2>1, ImpliedContrapositive
  <2> QED BY <1>1, <2>2
<1>6. ASSUME NEW k \in EquivalentTo(lit), NEW B \in All PROVE k \in B <=> lit \in B
  <2>1. k \in ActiveLiterals /\ k \in Implied(lit) /\ lit \in Implied(k)
    BY <1>1, <1>2
  <2> QED BY <2>1, ImpliedHolds
<1> QED BY <1>2, <1>3, <1>4, <1>5, <1>6

Least(S, k) == k \in S /\ \A m \in S : vidx(k) <= vidx(m)

\* There is a literal with the smallest variable.
LEMMA LeastExists ==
    ASSUME NEW S \in SUBSET ActiveLiterals, S # {}
    PROVE  \E k \in S : Least(S, k)
<1> DEFINE T == {vidx(k) : k \in S}
<1>1. \A k \in S : vidx(k) \in Nat
  BY ActiveLits, LitFacts, VarsAssumption
<1>2. T \subseteq Nat /\ T # {}
  BY <1>1
<1>3. PICK t \in T : \A s \in T : <<s, t>> \notin OpToRel(<, Nat)
  <2> HIDE DEF T
  <2> QED BY <1>2, NatLessThanWellFounded, WFMin
<1>4. \A s \in T : ~(s < t)
  BY <1>2, <1>3 DEF OpToRel
<1>5. PICK k \in S : vidx(k) = t
  OBVIOUS
<1>6. \A m \in S : vidx(k) <= vidx(m)
  BY <1>1, <1>4, <1>5
<1> QED BY <1>5, <1>6 DEF Least

\* No literal is equivalent to its negation.
Consistent == \A lit \in ActiveLiterals : -lit \notin EquivalentTo(lit)

\* It is unique unless complementary literals are equivalent.
LEMMA LeastUnique ==
    ASSUME Ready, Consistent, NEW lit \in ActiveLiterals, NEW j, NEW k,
           Least(EquivalentTo(lit), j), Least(EquivalentTo(lit), k)
    PROVE  j = k
<1>1. j \in EquivalentTo(lit) /\ k \in EquivalentTo(lit) /\ vidx(j) <= vidx(k) /\ vidx(k) <= vidx(j)
  BY DEF Least
<1>2. j \in ActiveLiterals /\ k \in ActiveLiterals
  BY <1>1, EquivalentFacts
<1>3. j \in Lits /\ k \in Lits /\ j \in Int /\ k \in Int
  BY <1>2, ActiveNegated
<1>4. vidx(j) = vidx(k)
  BY <1>1, <1>3 DEF vidx
<1>5. k # -j
  <2>1. k \in EquivalentTo(j)
    BY <1>1, EquivalentFacts
  <2> QED BY <1>2, <2>1 DEF Consistent
<1> QED BY <1>3, <1>4, <1>5 DEF vidx

\* The representatives agree on complementary literals and keep frozen
\* ones.
LEMMA RepresentativesFacts ==
    ASSUME Ready, Consistent
    PROVE  LET repr == Representatives IN
           \A lit \in ActiveLiterals :
              /\ repr[lit] \in EquivalentTo(lit) /\ repr[lit] \in ActiveLiterals
              /\ -repr[lit] = repr[-lit]
              /\ repr[repr[lit]] = repr[lit]
              /\ vidx(lit) \in frozen => repr[lit] = lit
<1> DEFINE repr == Representatives
           least(lit) == CHOOSE k \in EquivalentTo(lit) : \A m \in EquivalentTo(lit) : vidx(k) <= vidx(m)
<1>1. \A lit \in ActiveLiterals : repr[lit] = IF vidx(lit) \in frozen THEN lit ELSE least(lit)
  BY DEF Representatives
<1>2. ASSUME NEW lit \in ActiveLiterals PROVE Least(EquivalentTo(lit), least(lit))
  <2>1. EquivalentTo(lit) \in SUBSET ActiveLiterals /\ EquivalentTo(lit) # {}
    BY EquivalentFacts
  <2>2. \E k \in EquivalentTo(lit) : \A m \in EquivalentTo(lit) : vidx(k) <= vidx(m)
    BY <2>1, LeastExists DEF Least
  <2> QED BY <2>2 DEF Least
<1>3. \A j, k : EquivalentTo(j) = EquivalentTo(k) => least(j) = least(k)
  OBVIOUS
<1> HIDE DEF repr, least
<1>4. ASSUME NEW lit \in ActiveLiterals
      PROVE  repr[lit] \in EquivalentTo(lit) /\ repr[lit] \in ActiveLiterals
  BY <1>1, <1>2, EquivalentFacts DEF Least
<1>5. ASSUME NEW lit \in ActiveLiterals PROVE -repr[lit] = repr[-lit]
  <2>0. -lit \in ActiveLiterals /\ vidx(-lit) = vidx(lit) /\ -(-lit) = lit
    BY ActiveNegated, LitFacts
  <2>1. CASE vidx(lit) \in frozen
    BY <1>1, <2>0, <2>1
  <2>2. CASE vidx(lit) \notin frozen
    <3> DEFINE k == least(lit)
    <3>1. repr[lit] = k /\ repr[-lit] = least(-lit)
      BY <1>1, <2>0, <2>2
    <3>2. Least(EquivalentTo(lit), k) /\ Least(EquivalentTo(-lit), least(-lit))
      BY <1>2, <2>0
    <3> HIDE DEF k
    <3>3. k \in EquivalentTo(lit) /\ k \in ActiveLiterals /\ -k \in EquivalentTo(-lit)
      BY <3>2, EquivalentFacts DEF Least
    <3>4. ASSUME NEW m \in EquivalentTo(-lit) PROVE vidx(-k) <= vidx(m)
      <4>1. -m \in EquivalentTo(-(-lit)) /\ m \in ActiveLiterals
        BY <2>0, EquivalentFacts
      <4>2. vidx(-m) = vidx(m) /\ vidx(-k) = vidx(k) /\ -m \in EquivalentTo(lit)
        BY <2>0, <3>3, <4>1, ActiveNegated, LitFacts
      <4> QED BY <3>2, <4>2 DEF Least
    <3>5. Least(EquivalentTo(-lit), -k)
      BY <3>3, <3>4 DEF Least
    <3>6. -k = least(-lit)
      BY <2>0, <3>2, <3>5, LeastUnique
    <3> QED BY <3>1, <3>6
  <2> QED BY <2>1, <2>2
<1>6. ASSUME NEW lit \in ActiveLiterals PROVE repr[repr[lit]] = repr[lit]
  <2>1. CASE vidx(lit) \in frozen
    BY <1>1, <2>1
  <2>2. CASE vidx(lit) \notin frozen
    <3>1. repr[lit] = least(lit)
      BY <1>1, <2>2
    <3>2. EquivalentTo(repr[lit]) = EquivalentTo(lit) /\ repr[lit] \in ActiveLiterals
      BY <1>4, EquivalentFacts
    <3>3. least(repr[lit]) = least(lit)
      BY <1>3, <3>2
    <3> QED BY <1>1, <3>1, <3>2, <3>3
  <2> QED BY <2>1, <2>2
<1> QED BY <1>1, <1>4, <1>5, <1>6 DEF repr

\* Propagation derives literals of the clauses only.
LEMMA ClosureWithin ==
    ASSUME NEW F \in SUBSET SUBSET Lits, NEW A \in SUBSET Lits
    PROVE  Closure(F, A, Vars) \subseteq A \cup UNION F
<1> DEFINE T == SUBSET Lits
           P == {S \in T : S \subseteq A \cup UNION F}
<1>1. /\ Rounds(F) \in [T -> T] /\ \A B \in T : Rounds(F)[B] = Round(F, B)
      /\ Closure(F, A, Vars) = Iterated(Rounds(F), A, Cardinality(Vars))
      /\ Cardinality(Vars) \in Nat
  BY RoundsFacts
<1>2. A \in P /\ A \in T
  OBVIOUS
<1>3. \A B \in T : B \in P => Rounds(F)[B] \in P
  <2> TAKE B \in T
  <2> HAVE B \in P
  <2>1. Round(F, B) \in T /\ \A lit \in Lits : lit \in Round(F, B) <=>
           lit \in B \/ \E c \in F : lit \in c /\ -lit \notin B /\ Negated(c \ {lit}) \subseteq B
    BY RoundFacts
  <2>2. Round(F, B) \subseteq A \cup UNION F
    BY <2>1
  <2> QED BY <1>1, <2>1, <2>2
<1>4. Iterated(Rounds(F), A, Cardinality(Vars)) \in P
  <2> HIDE DEF P, T
  <2> QED BY <1>1, <1>2, <1>3, IteratedIn
<1> QED BY <1>1, <1>4

\* The elements of a finite set of numbers, by their rank.
LEMMA NthFacts ==
    ASSUME NEW P \in SUBSET Nat, IsFiniteSet(P)
    PROVE  /\ Cardinality(P) \in Nat
           /\ \A i \in 1..Cardinality(P) : Nth(P, i) \in P
           /\ \A p \in P : \E i \in 1..Cardinality(P) : Nth(P, i) = p
<1> DEFINE n == Cardinality(P)
           Below(p) == {q \in P : q < p}
           r == [p \in P |-> Cardinality(Below(p))]
<1>1. n \in Nat
  BY FS_CardinalityType
<1>2. \A p \in P : r[p] \in 0..(n - 1)
  <2> TAKE p \in P
  <2>1. Below(p) \in SUBSET P /\ Below(p) # P
    <3>1. p \notin Below(p)
      OBVIOUS
    <3> QED BY <3>1
  <2>2. Cardinality(Below(p)) \in Nat /\ Cardinality(Below(p)) < n
    <3> HIDE DEF Below
    <3> QED BY <2>1, ProperSubset
  <2> QED BY <1>1, <2>2
<1>3. \A p, q \in P : p < q => r[p] < r[q]
  <2> TAKE p, q \in P
  <2> HAVE p < q
  <2>0. p \in Nat /\ q \in Nat
    OBVIOUS
  <2>1. Below(p) \in SUBSET Below(q) /\ Below(p) # Below(q)
    <3>1. p \in Below(q) /\ p \notin Below(p)
      BY <2>0
    <3>2. ASSUME NEW x \in Below(p) PROVE x \in Below(q)
      <4>1. x \in Nat /\ x \in P /\ x < p
        OBVIOUS
      <4>2. x < q
        BY <2>0, <4>1
      <4> QED BY <4>1, <4>2
    <3> QED BY <3>1, <3>2
  <2>2. IsFiniteSet(Below(q))
    BY FS_Subset
  <2>3. Cardinality(Below(p)) < Cardinality(Below(q))
    <3> HIDE DEF Below
    <3> QED BY <2>1, <2>2, ProperSubset
  <2> QED BY <2>3
<1>4. \A p, q \in P : r[p] = r[q] => p = q
  <2> HIDE DEF r
  <2> TAKE p, q \in P
  <2> HAVE r[p] = r[q]
  <2>1. r[p] \in Int
    BY <1>1, <1>2
  <2>2. CASE p < q
    BY <1>3, <2>1, <2>2
  <2>3. CASE q < p
    BY <1>3, <2>1, <2>3
  <2> QED BY <2>2, <2>3
<1>5. \A k \in 0..(n - 1) : \E p \in P : r[p] = k
  <2> DEFINE M == {r[p] : p \in P}
  <2>1. M \subseteq 0..(n - 1)
    BY <1>2
  <2>2. IsFiniteSet(M) /\ Cardinality(M) = n
    <3>1. r \in [P -> M] /\ IsInjective(r)
      <4> HIDE DEF r
      <4>1. r \in [P -> M]
        BY DEF r
      <4> QED BY <1>4, <4>1 DEF IsInjective
    <3>2. r \in Surjection(P, M)
      BY <3>1 DEF Surjection
    <3>3. r \in Bijection(P, M)
      BY <3>1, <3>2 DEF Bijection, Injection
    <3> HIDE DEF r, M
    <3> QED BY <3>3, FS_Bijection DEF ExistsBijection
  <2>3. IsFiniteSet(0..(n - 1)) /\ Cardinality(0..(n - 1)) = n
    <3>1. 0 \in Int /\ n - 1 \in Int
      BY <1>1
    <3> HIDE DEF n
    <3>2. Cardinality(0..(n - 1)) = IF 0 > n - 1 THEN 0 ELSE (n - 1) - 0 + 1
      BY <3>1, FS_Interval
    <3> QED BY <1>1, <3>1, <3>2, FS_Interval
  <2>4. M = 0..(n - 1)
    <3> HIDE DEF M
    <3> QED BY <2>1, <2>2, <2>3, FS_Subset
  <2> QED BY <2>4
<1>6. \A i \in 1..n : Nth(P, i) \in P /\ r[Nth(P, i)] = i - 1
  <2> TAKE i \in 1..n
  <2>1. i - 1 \in 0..(n - 1)
    BY <1>1
  <2>2. PICK p \in P : r[p] = i - 1
    BY <1>5, <2>1
  <2>3. Cardinality({q \in P : q < p}) = i - 1
    BY <2>2
  <2>4. Nth(P, i) \in P /\ Cardinality({q \in P : q < Nth(P, i)}) = i - 1
    BY <2>3 DEF Nth
  <2> QED BY <2>4
<1>7. \A p \in P : \E i \in 1..n : Nth(P, i) = p
  <2> HIDE DEF r
  <2> TAKE p \in P
  <2>1. r[p] + 1 \in 1..n
    BY <1>1, <1>2
  <2>2. Nth(P, r[p] + 1) \in P /\ r[Nth(P, r[p] + 1)] = r[p]
    BY <1>1, <1>2, <1>6, <2>1
  <2> QED BY <1>4, <2>1, <2>2
<1> QED BY <1>1, <1>6, <1>7

\* The literals that another one stands for, and the entry pushed for one.
ReplacedBy(repr) == {lit \in ActiveLiterals : repr[lit] # lit}
Substitution(w, repr) == Weakened({w}, {w, -repr[w]})

\* The entries that decompose pushes: two for every substituted variable.
LEMMA EquivalencesFacts ==
    ASSUME DatabaseOK, NEW repr,
           \A lit \in ActiveLiterals : repr[lit] \in ActiveLiterals /\ -repr[lit] = repr[-lit],
           NEW P \in SUBSET {v \in Active : repr[v] # v}
    PROVE  LET es == EquivalencesOf(P, repr)
               W == {w \in ReplacedBy(repr) : vidx(w) \in P}
           IN  /\ Stack(es) /\ Len(es) \in Nat
               /\ \A i \in 1..Len(es) : \E w \in W : es[i] = Substitution(w, repr)
               /\ \A w \in W : \E i \in 1..Len(es) : es[i] = Substitution(w, repr)
<1> DEFINE n == Cardinality(P)
           es == EquivalencesOf(P, repr)
           W == {w \in ReplacedBy(repr) : vidx(w) \in P}
           E(i) == Equivalence(Nth(P, (i + 1) \div 2), repr[Nth(P, (i + 1) \div 2)])[2 - (i % 2)]
<1>1. P \in SUBSET Nat /\ IsFiniteSet(P) /\ P \in SUBSET Active /\ P \in SUBSET Vars
  <2>1. P \in SUBSET Vars
    BY DEF Active
  <2>2. P \in SUBSET Nat /\ IsFiniteSet(P)
    BY <2>1, VarsAssumption, FS_Subset
  <2> QED BY <2>1, <2>2
<1>2. ASSUME NEW v \in P
      PROVE  /\ v \in W /\ -v \in W
             /\ Equivalence(v, repr[v]) = <<Substitution(-v, repr), Substitution(v, repr)>>
  <2>1. v \in Active /\ repr[v] # v
    OBVIOUS
  <2>2. v \in ActiveLiterals /\ -v \in ActiveLiterals /\ v \in Int
    <3>1. v \in ActiveLiterals
      BY <2>1, LitFacts, ActiveLits DEF Active
    <3> QED BY <3>1, ActiveNegated
  <2>3. -repr[v] = repr[-v] /\ -(-repr[v]) = repr[v] /\ repr[v] \in Int
    BY <2>2, ActiveNegated
  <2>4. repr[-v] # -v
    BY <2>1, <2>2, <2>3, ActiveNegated
  <2>5. vidx(v) = v /\ vidx(-v) = v
    BY <1>1, LitFacts
  <2> QED BY <2>1, <2>2, <2>3, <2>4, <2>5 DEF ReplacedBy, Equivalence, Substitution
<1>3. ASSUME NEW w \in W
      PROVE  \E v \in P : w = v \/ w = -v
  <2>1. w \in Lits /\ vidx(w) \in P
    BY ActiveLits DEF ReplacedBy
  <2> QED BY <2>1, LitFacts
<1>4. n \in Nat /\ (\A i \in 1..n : Nth(P, i) \in P) /\ \A p \in P : \E i \in 1..n : Nth(P, i) = p
  <2> QED BY <1>1, NthFacts
<1>5. es = [i \in 1..(2 * n) |-> E(i)]
  BY DEF EquivalencesOf
<1> HIDE DEF es, n
<1>6. \A i \in 1..(2 * n) : es[i] = E(i)
  BY <1>5
<1>7. Len(es) = 2 * n /\ 2 * n \in Nat /\ DOMAIN es = 1..(2 * n)
  <2>1. 2 * n \in Nat /\ DOMAIN es = 1..(2 * n)
    BY <1>4, <1>5
  <2>2. es = [i \in 1..(2 * n) |-> es[i]]
    BY <1>5, <1>6
  <2>3. es \in Seq({E(i) : i \in 1..(2 * n)})
    <3> DEFINE S == {E(i) : i \in 1..(2 * n)}
    <3>1. \A i \in 1..(2 * n) : es[i] \in S
      BY <1>6
    <3> HIDE DEF S
    <3>2. es \in [1..(2 * n) -> S]
      BY <2>2, <3>1
    <3>3. es \in Seq(S)
      BY <2>1, <3>2
    <3> QED BY <3>3 DEF S
  <2> HIDE DEF E
  <2> QED BY <2>1, <2>3
<1>8. ASSUME NEW i \in 1..(2 * n) PROVE \E w \in W : es[i] = Substitution(w, repr)
  <2> DEFINE v == Nth(P, (i + 1) \div 2)
  <2>1. (i + 1) \div 2 \in 1..n
    BY <1>4
  <2>2. v \in P
    BY <1>4, <2>1
  <2>3. es[i] = Equivalence(v, repr[v])[2 - (i % 2)]
    BY <1>6
  <2>4. 2 - (i % 2) \in 1..2
    BY <1>4
  <2> HIDE DEF v
  <2>5. es[i] = Substitution(-v, repr) \/ es[i] = Substitution(v, repr)
    <3>1. Equivalence(v, repr[v]) = <<Substitution(-v, repr), Substitution(v, repr)>>
      BY <1>2, <2>2
    <3> DEFINE j == 2 - (i % 2)
    <3>2. j = 1 \/ j = 2
      BY <2>4
    <3>3. es[i] = Equivalence(v, repr[v])[j]
      BY <2>3
    <3> HIDE DEF j
    <3> QED BY <3>1, <3>2, <3>3
  <2> QED BY <1>2, <2>2, <2>5
<1>9. ASSUME NEW w \in W PROVE \E i \in 1..(2 * n) : es[i] = Substitution(w, repr)
  <2>1. PICK v \in P : w = v \/ w = -v
    BY <1>3
  <2>2. PICK k \in 1..n : Nth(P, k) = v
    BY <1>4
  <2>3. Equivalence(v, repr[v]) = <<Substitution(-v, repr), Substitution(v, repr)>>
    BY <1>2
  <2>4. CASE w = v
    <3>1. 2 * k \in 1..(2 * n) /\ (2 * k + 1) \div 2 = k /\ 2 - ((2 * k) % 2) = 2
      BY <1>4
    <3>2. es[2 * k] = Equivalence(v, repr[v])[2]
      BY <1>6, <2>2, <3>1
    <3> QED BY <2>3, <2>4, <3>1, <3>2
  <2>5. CASE w = -v
    <3>1. 2 * k - 1 \in 1..(2 * n) /\ (2 * k - 1 + 1) \div 2 = k /\ 2 - ((2 * k - 1) % 2) = 1
      BY <1>4
    <3>2. es[2 * k - 1] = Equivalence(v, repr[v])[1]
      BY <1>6, <2>2, <3>1
    <3> QED BY <2>3, <2>5, <3>1, <3>2
  <2> QED BY <2>1, <2>4, <2>5
<1>10. Stack(es)
  <2>1. ASSUME NEW i \in 1..(2 * n) PROVE es[i] \in Entries /\ Entry(es[i])
    <3>1. PICK w \in W : es[i] = Substitution(w, repr)
      BY <1>8
    <3>2. w \in Lits /\ -repr[w] \in Lits
      <4>1. w \in ActiveLiterals
        BY DEF ReplacedBy
      <4>2. repr[w] \in ActiveLiterals
        BY <4>1
      <4> QED BY <4>1, <4>2, ActiveNegated, ActiveLits
    <3>3. Entry(Weakened({w}, {w, -repr[w]}))
      <4> DEFINE c == {w, -repr[w]}
      <4>1. c \in SUBSET Lits /\ w \in c
        BY <3>2
      <4> HIDE DEF c
      <4>2. Entry(Weakened({w}, c))
        BY <3>2, <4>1, OneEntry
      <4> QED BY <4>2 DEF c
    <3> QED BY <3>1, <3>3 DEF Substitution, Entry
  <2>2. es \in Seq(Entries)
    <3>1. es = [i \in 1..(2 * n) |-> es[i]]
      BY <1>5, <1>6
    <3>2. es \in [1..(2 * n) -> Entries]
      BY <2>1, <3>1
    <3> QED BY <1>7, <3>2
  <2> QED BY <1>7, <2>1, <2>2 DEF Stack
<1> QED BY <1>7, <1>8, <1>9, <1>10 DEF es

\* If there is no model, the empty clause may be derived.
LEMMA DecomposeUnsat ==
    ASSUME Ready, Stack(extension), All = {},
           unsat' = TRUE, UNCHANGED <<irredundant, redundant, root, status, stackVars>>
    PROVE  StepOK(<<>>)
<1>1. DatabaseOK'
  BY DEF Ready, Open, DatabaseOK, Database
<1>2. PlainOK
  BY <1>1 DEF PlainOK, Preserved, Follows
<1> QED BY <1>2, PlainStep

\* Literals in the clauses that are left stand for themselves.
LEMMA SubstitutedMember ==
    ASSUME NEW F, NEW repr, NEW c
    PROVE  c \in Substituted(F, repr) <=>
              \E d \in F : c = {repr[lit] : lit \in d} /\ ~Tautological(c)
BY DEF Substituted

Settled(repr) ==
    \A lit \in ActiveLiterals :
       /\ repr[lit] \in EquivalentTo(lit) /\ repr[lit] \in ActiveLiterals
       /\ -repr[lit] = repr[-lit]
       /\ repr[repr[lit]] = repr[lit]
       /\ vidx(lit) \in frozen => repr[lit] = lit

\* Substitution keeps all models, and loses nothing where literals agree with
\* their representatives.
LEMMA SubstitutedFacts ==
    ASSUME Ready, NEW repr, Settled(repr), NEW F \in SUBSET Database
    PROVE  LET I == Substituted(F, repr) IN
           /\ \A c \in I : ActiveClause(c) /\ \A lit \in c : repr[lit] = lit
           /\ \A B \in All : Holds(I, B)
           /\ \A B \in Total : Holds(I, B) /\ (\A lit \in ActiveLiterals : repr[lit] \in B => lit \in B)
                 => Holds(F, B)
<1> DEFINE I == Substituted(F, repr)
<1>1. ASSUME NEW d \in F PROVE d \subseteq ActiveLiterals /\ d \in Database
  BY ReadyFacts, ActiveClauseLits
<1>2. ASSUME NEW c \in I PROVE ActiveClause(c) /\ \A lit \in c : repr[lit] = lit
  <2>1. PICK d \in F : c = {repr[lit] : lit \in d} /\ ~Tautological(c)
    BY SubstitutedMember
  <2>2. c \subseteq ActiveLiterals
    BY <1>1, <2>1 DEF Settled
  <2>3. \A lit \in c : repr[lit] = lit
    BY <1>1, <2>1 DEF Settled
  <2> QED BY <2>1, <2>2, <2>3, ActiveClauseLits
<1>3. ASSUME NEW B \in All, NEW c \in I PROVE Satisfied(c, B)
  <2>1. PICK d \in F : c = {repr[lit] : lit \in d} /\ ~Tautological(c)
    BY SubstitutedMember
  <2>2. PICK lit \in d : lit \in B
    BY <1>1 DEF All, Holds, Satisfied
  <2>3. lit \in ActiveLiterals /\ repr[lit] \in EquivalentTo(lit)
    BY <1>1 DEF Settled
  <2>4. repr[lit] \in B
    BY <2>2, <2>3, EquivalentFacts
  <2> QED BY <2>1, <2>4 DEF Satisfied
<1>4. ASSUME NEW B \in Total, Holds(I, B), \A lit \in ActiveLiterals : repr[lit] \in B => lit \in B,
             NEW d \in F
      PROVE  Satisfied(d, B)
  <2> DEFINE c == {repr[lit] : lit \in d}
  <2>1. \E lit \in d : repr[lit] \in B
    <3>1. CASE Tautological(c)
      <4>1. PICK k \in c : -k \in c
        BY <3>1 DEF Tautological
      <4>2. PICK lit1 \in d, lit2 \in d : repr[lit1] = k /\ repr[lit2] = -k
        BY <4>1
      <4>3. k \in Lits
        BY <1>1, <4>2, ActiveLits DEF Settled
      <4>4. k \in B \/ -k \in B
        BY <4>3, TotalFacts
      <4> QED BY <4>2, <4>4
    <3>2. CASE ~Tautological(c)
      <4>1. c \in I
        BY <3>2, SubstitutedMember
      <4>2. Satisfied(c, B)
        BY <1>4, <4>1 DEF Holds
      <4> QED BY <4>2 DEF Satisfied
    <3> QED BY <3>1, <3>2
  <2>2. PICK lit \in d : repr[lit] \in B
    BY <2>1
  <2>3. lit \in B
    BY <1>1, <1>4, <2>2
  <2> QED BY <2>3 DEF Satisfied
<1> QED BY <1>2, <1>3, <1>4 DEF Holds

\* Flipping a literal that another one stands for, or keeping it, makes the
\* two equal and disturbs nothing else.
LEMMA SubstitutionFlip ==
    ASSUME Ready, NEW repr, Settled(repr),
           NEW I \in SUBSET SUBSET Lits, \A c \in I : \A lit \in c : lit \in ActiveLiterals /\ repr[lit] = lit,
           NEW w \in ReplacedBy(repr), NEW B \in ModelsOf(I),
           ~Satisfied(Substitution(w, repr).clause, B)
    PROVE  LET D == Flipped(Substitution(w, repr), B) IN
           /\ D \in ModelsOf(I) /\ \A k \in B : k # -w => k \in D
           /\ \A u \in ReplacedBy(repr) : Satisfied(Substitution(u, repr).clause, B)
                 => Satisfied(Substitution(u, repr).clause, D)
<1> DEFINE D == Flipped(Substitution(w, repr), B)
           c0 == {w, -repr[w]}
<1>1. /\ w \in ActiveLiterals /\ repr[w] # w /\ w \in Lits /\ repr[w] \in ActiveLiterals
      /\ -w \in ActiveLiterals /\ -(-w) = w /\ -w \in Lits /\ repr[w] \in Lits
      /\ -repr[w] = repr[-w] /\ repr[repr[w]] = repr[w] /\ -repr[w] \in Lits /\ -(-repr[w]) = repr[w]
  BY ActiveLits, ActiveNegated DEF ReplacedBy, Settled
<1>2. \A u : Substitution(u, repr).clause = {u, -repr[u]}
  BY DEF Substitution, Weakened
<1>3. B \in Total /\ Holds(I, B) /\ root \subseteq B /\ ~Satisfied(c0, B)
  BY <1>2 DEF ModelsOf
<1>4. D \in Total /\ w \in D /\ \A k \in B : k # -w => k \in D
  <2>1. c0 \in SUBSET Lits /\ w \in c0 /\ D = Flipped(Weakened({w}, c0), B)
    BY <1>1 DEF Substitution
  <2> HIDE DEF c0, D
  <2> QED BY <1>1, <1>3, <2>1, FlipOne
<1>5. repr[w] \in B
  BY <1>1, <1>3, TotalFacts DEF Satisfied
<1> HIDE DEF D
<1>6. repr[-w] # -w
  BY <1>1
<1>7. ASSUME NEW c \in I PROVE Satisfied(c, D)
  <2>1. PICK k \in c : k \in B
    BY <1>3 DEF Holds, Satisfied
  <2>2. k # -w
    BY <1>6
  <2> QED BY <1>4, <2>1, <2>2 DEF Satisfied
<1>8. root \subseteq D
  <2>1. -w \notin root
    BY <1>1, RootApart DEF Ready
  <2> QED BY <1>3, <1>4, <2>1
<1>9. ASSUME NEW u \in ReplacedBy(repr), Satisfied({u, -repr[u]}, B) PROVE Satisfied({u, -repr[u]}, D)
  <2>0. u \in ActiveLiterals /\ repr[u] \in ActiveLiterals /\ repr[repr[u]] = repr[u]
        /\ -(-repr[u]) = repr[u]
    BY ActiveNegated DEF ReplacedBy, Settled
  <2>1. PICK k \in {u, -repr[u]} : k \in B
    BY <1>9 DEF Satisfied
  <2>2. CASE k # -w
    BY <1>4, <2>1, <2>2 DEF Satisfied
  <2>3. CASE k = -w /\ k = u
    <3>1. -repr[u] = repr[w]
      BY <1>1, <2>3
    <3>2. repr[w] # -w
      BY <1>1, <1>6
    <3>3. repr[w] \in D
      BY <1>4, <1>5, <3>2
    <3> QED BY <3>1, <3>3 DEF Satisfied
  <2>4. CASE k = -w /\ k = -repr[u]
    <3>1. w = repr[u]
      BY <1>1, <2>0, <2>4
    <3> QED BY <1>1, <2>0, <3>1
  <2> QED BY <2>1, <2>2, <2>3, <2>4
<1> QED BY <1>2, <1>4, <1>7, <1>8, <1>9 DEF ModelsOf, Holds, D

\* The entries reconstruct the values of the substituted literals.
LEMMA SubstitutionBatch ==
    ASSUME Ready, NEW repr, Settled(repr),
           NEW A \in SUBSET Lits, NEW W \in SUBSET ReplacedBy(repr), \A w \in W : -w \notin A,
           \A w \in ReplacedBy(repr) \ W : w \in A \/ -repr[w] \in A,
           NEW es, Stack(es), Len(es) \in Nat,
           \A i \in 1..Len(es) : \E w \in W : es[i] = Substitution(w, repr),
           \A w \in W : \E i \in 1..Len(es) : es[i] = Substitution(w, repr)
    PROVE  Reconstructs(es, {B \in ModelsOf(Substituted(irredundant, repr)) : A \subseteq B}, Mod)
<1> DEFINE I == Substituted(irredundant, repr)
           X == {B \in ModelsOf(I) : A \subseteq B}
<1>1. irredundant \in SUBSET Database
  BY DEF Database
<1>2. /\ \A c \in I : ActiveClause(c) /\ \A lit \in c : repr[lit] = lit
      /\ \A B \in Total : Holds(I, B) /\ (\A lit \in ActiveLiterals : repr[lit] \in B => lit \in B)
            => Holds(irredundant, B)
  BY <1>1, SubstitutedFacts
<1>3. I \in SUBSET SUBSET Lits /\ \A c \in I : \A lit \in c : lit \in ActiveLiterals /\ repr[lit] = lit
  BY <1>2, ActiveClauseLits DEF ActiveClause, Clause
<1> HIDE DEF I
<1>4. ASSUME NEW i \in 1..Len(es), NEW B \in X \cap Total,
             ~Satisfied(es[i].clause, B), \A j \in (i + 1)..Len(es) : Satisfied(es[j].clause, B)
      PROVE  /\ Flipped(es[i], B) \in X
             /\ \A j \in (i + 1)..Len(es) : Satisfied(es[j].clause, Flipped(es[i], B))
  <2>1. PICK w \in W : es[i] = Substitution(w, repr)
    OBVIOUS
  <2>2. B \in ModelsOf(I) /\ ~Satisfied(Substitution(w, repr).clause, B)
    BY <1>4, <2>1
  <2>3. LET D == Flipped(Substitution(w, repr), B) IN
        /\ D \in ModelsOf(I) /\ \A k \in B : k # -w => k \in D
        /\ \A u \in ReplacedBy(repr) : Satisfied(Substitution(u, repr).clause, B)
              => Satisfied(Substitution(u, repr).clause, D)
    BY <1>3, <2>2, SubstitutionFlip
  <2>4. ASSUME NEW j \in (i + 1)..Len(es) PROVE Satisfied(es[j].clause, Flipped(es[i], B))
    <3>1. PICK u \in W : es[j] = Substitution(u, repr)
      <4>1. j \in 1..Len(es)
        OBVIOUS
      <4> QED BY <4>1
    <3>2. Satisfied(es[j].clause, B)
      BY <1>4
    <3> QED BY <2>1, <2>3, <3>1, <3>2
  <2>5. A \subseteq Flipped(es[i], B)
    BY <2>1, <2>3
  <2> QED BY <2>1, <2>3, <2>4, <2>5
<1>5. ASSUME NEW B \in X \cap Total, \A j \in 1..Len(es) : Satisfied(es[j].clause, B)
      PROVE  B \in Mod
  <2>1. ASSUME NEW lit \in ActiveLiterals, repr[lit] \in B PROVE lit \in B
    <3>1. CASE repr[lit] = lit
      BY <2>1, <3>1
    <3>3. repr[lit] \in Lits
      BY ActiveLits DEF Settled
    <3>4. -repr[lit] \notin B
      BY <2>1, <3>3, TotalFacts
    <3>5. CASE repr[lit] # lit /\ lit \notin W
      BY <3>4, <3>5 DEF ReplacedBy
    <3>2. CASE repr[lit] # lit /\ lit \in W
      <4>1. PICK i \in 1..Len(es) : es[i] = Substitution(lit, repr)
        BY <3>2
      <4>2. Satisfied({lit, -repr[lit]}, B)
        <5>1. Satisfied(es[i].clause, B)
          BY <1>5
        <5>2. es[i].clause = {lit, -repr[lit]}
          BY <4>1 DEF Substitution, Weakened
        <5> QED BY <5>1, <5>2
      <4> QED BY <3>4, <4>2 DEF Satisfied
    <3> QED BY <3>1, <3>2, <3>5
  <2>2. Holds(I, B) /\ root \subseteq B /\ B \in Total
    BY DEF ModelsOf
  <2> QED BY <1>2, <2>1, <2>2 DEF Mod
<1> HIDE DEF X
<1> QED BY <1>4, <1>5, PushBatch DEF X, I

\* Equivalent literal substitution (decompose.cpp).
LEMMA DecomposeOK ==
    ASSUME Ready, Stack(extension), decompose
    PROVE  \E es : StepOK(es)
<1> DEFINE repr == Representatives
           I == Substituted(irredundant, repr)
           R == Substituted(redundant, repr) \ I
           F == I \cup R \cup Binary(Database)
           A == Closure(F, root, Vars)
           Q == {v \in Active : repr[v] # v}
           P == {v \in Q : {v, -v} \cap A = {}}
           gone == {v \in P : {repr[v], -repr[v]} \cap A = {}}
           marked == Marked(gone, "substituted")
           W == {w \in ReplacedBy(repr) : vidx(w) \in P}
           es == EquivalencesOf(P, repr)
           IU == I \cup Units(A)
<1>0. IF (\E lit \in ActiveLiterals : -lit \in EquivalentTo(lit)) \/ Refuted(F, root, Vars)
      THEN unsat' = TRUE /\ UNCHANGED <<irredundant, redundant, root, status, stackVars>>
      ELSE Update(IU, R, marked) /\ push_on_extension_stack(es)
  <2>1. P = {v \in Active : repr[v] # v /\ {v, -v} \cap A = {}}
    OBVIOUS
  <2> QED BY <2>1 DEF decompose
<1>1. CASE \E lit \in ActiveLiterals : -lit \in EquivalentTo(lit)
  <2>1. PICK lit \in ActiveLiterals : -lit \in EquivalentTo(lit)
    BY <1>1
  <2>2. ASSUME NEW B \in All PROVE FALSE
    <3>1. -lit \in B <=> lit \in B
      BY <2>1, EquivalentFacts
    <3>2. lit \in Lits /\ B \in Total
      BY ActiveLits DEF All
    <3> QED BY <3>1, <3>2, TotalFacts
  <2>3. unsat' = TRUE /\ UNCHANGED <<irredundant, redundant, root, status, stackVars>>
    BY <1>0, <1>1
  <2> QED BY <2>2, <2>3, DecomposeUnsat
<1>2. CASE ~\E lit \in ActiveLiterals : -lit \in EquivalentTo(lit)
  <2>2. Settled(repr)
    <3>1. Consistent
      BY <1>2 DEF Consistent
    <3> QED BY <3>1, RepresentativesFacts DEF Settled
  <2> HIDE DEF repr
  <2>3. /\ \A c \in I \cup R : ActiveClause(c) /\ \A lit \in c : repr[lit] = lit
        /\ \A B \in All : Holds(I, B) /\ Holds(R, B)
    <3>1. irredundant \in SUBSET Database /\ redundant \in SUBSET Database
      BY DEF Database
    <3>2. /\ \A c \in I : ActiveClause(c) /\ \A lit \in c : repr[lit] = lit
          /\ \A B \in All : Holds(I, B)
      BY <2>2, <3>1, SubstitutedFacts
    <3> DEFINE R2 == Substituted(redundant, repr)
    <3>3. /\ \A c \in R2 : ActiveClause(c) /\ \A lit \in c : repr[lit] = lit
          /\ \A B \in All : Holds(R2, B)
      BY <2>2, <3>1, SubstitutedFacts
    <3>4. R \subseteq R2
      OBVIOUS
    <3> HIDE DEF I, R, R2
    <3> QED BY <3>2, <3>3, <3>4 DEF Holds
  <2> HIDE DEF I, R
  <2>f. /\ F \in SUBSET SUBSET Lits /\ root \in SUBSET Lits /\ UNION F \subseteq ActiveLiterals
        /\ \A B \in All : Holds(F, B)
    <3>1. \A c \in I \cup R : c \in SUBSET Lits /\ c \subseteq ActiveLiterals
      BY <2>3, ActiveClauseLits DEF ActiveClause, Clause
    <3>2. \A c \in Binary(Database) : c \in Database /\ c \in SUBSET Lits /\ c \subseteq ActiveLiterals
      BY BinaryActive
    <3>3. \A B \in All : \A c \in F : Satisfied(c, B)
      BY <2>3, <3>2 DEF Holds, All
    <3> QED BY <3>1, <3>2, <3>3, ReadyFacts DEF Holds
  <2> HIDE DEF F
  <2>u. CASE Refuted(F, root, Vars)
    <3>1. All = {}
      <4> SUFFICES ASSUME NEW B \in All PROVE FALSE
        OBVIOUS
      <4>1. B \in Total /\ root \subseteq B /\ Holds(F, B)
        BY <2>f DEF All
      <4> QED BY <2>f, <2>u, <4>1, RefutedSound
    <3>2. unsat' = TRUE /\ UNCHANGED <<irredundant, redundant, root, status, stackVars>>
      BY <1>0, <2>u
    <3> QED BY <3>1, <3>2, DecomposeUnsat
  <2>0. SUFFICES ASSUME ~Refuted(F, root, Vars) PROVE \E ets : StepOK(ets)
    BY <2>u
  <2>1. Update(IU, R, marked) /\ push_on_extension_stack(es)
    <3> HIDE DEF repr, marked, es, IU
    <3> QED BY <1>0, <1>2, <2>0
  <2>4. /\ A \in SUBSET Lits /\ root \subseteq A /\ ~Tautological(A)
        /\ \A c \in F : ~Falsified(c, A)
        /\ Round(F, A) = A /\ A \subseteq root \cup UNION F
        /\ \A B \in All : A \subseteq B
    <3>1. ~Tautological(A) /\ \A c \in F : ~Falsified(c, A)
      BY <2>0 DEF Refuted
    <3>2. Round(F, A) = A /\ A \in SUBSET Lits /\ root \subseteq A
      BY <2>f, <3>1, ClosureComplete, ClosureGrows
    <3>3. A \subseteq root \cup UNION F
      BY <2>f, ClosureWithin
    <3>4. \A B \in All : A \subseteq B
      BY <2>f, ClosureSound DEF All
    <3> QED BY <3>1, <3>2, <3>3, <3>4
  <2> HIDE DEF A
  <2>5. ASSUME NEW w \in W PROVE w \notin A /\ -w \notin A /\ vidx(w) \notin frozen
    <3>1. w \in ActiveLiterals /\ repr[w] # w /\ w \in Lits /\ vidx(w) \in P
      BY ActiveLits DEF ReplacedBy
    <3>2. {vidx(w), -vidx(w)} \cap A = {}
      BY <3>1
    <3> QED BY <2>2, <3>1, <3>2, LitFacts DEF Settled
  <2>6. ASSUME NEW v \in P PROVE v \in W /\ v \in Vars /\ vidx(v) = v
    BY LitFacts, ActiveLits DEF ReplacedBy, Active
  <2>7. Transitive(A \cap ActiveLiterals)
    <3> SUFFICES ASSUME NEW k \in A \cap ActiveLiterals, NEW c \in Binary(Database), -k \in c,
                        NEW j \in c \ {-k}
                 PROVE  j \in A \cap ActiveLiterals
      BY DEF Transitive
    <3>1. c \in F /\ c \in SUBSET Lits /\ c \subseteq ActiveLiterals /\ Cardinality(c) = 2
      BY BinaryActive DEF F
    <3>2. c = {-k, j}
      BY <3>1, BinaryOther
    <3>3. j \in Lits /\ -(-k) = k /\ -(-j) = j
      BY <3>1, ActiveLits, LitFacts
    <3>4. -j \notin A
      <4>1. ~Falsified(c, A)
        BY <2>4, <3>1
      <4> QED BY <3>2, <3>3, <4>1 DEF Falsified, Negated
    <3>5. Negated(c \ {j}) \subseteq A
      BY <3>2, <3>3 DEF Negated
    <3>6. j \in Round(F, A)
      <4>1. \A l \in Lits : l \in Round(F, A) <=>
               l \in A \/ \E d \in F : l \in d /\ -l \notin A /\ Negated(d \ {l}) \subseteq A
        BY <2>f, <2>4, RoundFacts, ZenonT(60)
      <4> QED BY <3>1, <3>3, <3>4, <3>5, <4>1
    <3> QED BY <2>4, <3>1, <3>6
  <2>a. \A lit \in ActiveLiterals : lit \in A => repr[lit] \in A
    <3> TAKE lit \in ActiveLiterals
    <3>1. repr[lit] \in Implied(lit)
      BY <2>2 DEF Settled, EquivalentTo, Implied
    <3>2. lit \in A => Implied(lit) \subseteq A \cap ActiveLiterals
      BY <2>7, ImpliedFacts
    <3> QED BY <3>1, <3>2
  <2>b. \A w \in ReplacedBy(repr) \ W : w \in A \/ -repr[w] \in A
    <3> TAKE w \in ReplacedBy(repr) \ W
    <3>1. w \in ActiveLiterals /\ repr[w] # w /\ w \in Lits /\ status[vidx(w)] = "active"
      BY ActiveLits DEF ReplacedBy
    <3>2. /\ vidx(w) \in Active /\ vidx(w) \in Vars /\ (w = vidx(w) \/ w = -vidx(w))
          /\ -w \in ActiveLiterals /\ -(-w) = w
      BY <3>1, LitFacts, ActiveNegated DEF Active
    <3>3. repr[vidx(w)] # vidx(w)
      <4>1. repr[-w] = -repr[w] /\ -(-repr[w]) = repr[w]
        BY <2>2, <3>1, ActiveNegated DEF Settled
      <4>2. -vidx(w) = w => vidx(w) = -w
        BY <3>2, LitFacts
      <4> QED BY <3>1, <3>2, <4>1, <4>2
    <3>4. w \in A \/ -w \in A
      <4>1. vidx(w) \notin P
        OBVIOUS
      <4>2. {vidx(w), -vidx(w)} \cap A # {}
        BY <3>2, <3>3, <4>1
      <4>3. -vidx(w) = w => vidx(w) = -w
        BY <3>2, LitFacts
      <4> QED BY <3>2, <4>2, <4>3
    <3>5. -w \in A => -repr[w] \in A
      BY <2>2, <2>a, <3>1, <3>2 DEF Settled
    <3> QED BY <3>4, <3>5
  <2>8. LET ets == EquivalencesOf(P, repr) IN
        /\ Stack(ets) /\ Len(ets) \in Nat
        /\ \A i \in 1..Len(ets) : \E w \in W : ets[i] = Substitution(w, repr)
        /\ \A w \in W : \E i \in 1..Len(ets) : ets[i] = Substitution(w, repr)
    <3>1. DatabaseOK
      BY DEF Ready, Open
    <3>2. \A lit \in ActiveLiterals : repr[lit] \in ActiveLiterals /\ -repr[lit] = repr[-lit]
      BY <2>2 DEF Settled
    <3>3. P \in SUBSET {v \in Active : repr[v] # v}
      OBVIOUS
    <3> HIDE DEF P
    <3> QED BY <3>1, <3>2, <3>3, EquivalencesFacts
  <2>9. /\ Stack(es) /\ Len(es) \in Nat
        /\ \A i \in 1..Len(es) : \E w \in W : es[i] = Substitution(w, repr)
        /\ \A w \in W : \E i \in 1..Len(es) : es[i] = Substitution(w, repr)
    BY <2>8
  <2>11. /\ \A v \in DOMAIN marked : marked[v] \in {"active"} \cup Gone /\ v \notin frozen
         /\ DOMAIN marked = gone
    <3>1. DOMAIN marked = gone /\ \A v \in gone : marked[v] = "substituted"
      BY DEF Marked
    <3>2. gone \subseteq P
      OBVIOUS
    <3> HIDE DEF gone, marked
    <3>3. \A v \in gone : v \notin frozen
      BY <2>5, <2>6, <3>2
    <3> QED BY <3>1, <3>3 DEF Gone
  <2> HIDE DEF marked, es
  <2>12. \A c \in IU \cup R : Clause(c) /\ \A lit \in c : WithMarks(marked)[vidx(lit)] \in {"active", "fixed"}
    <3>0. DOMAIN status = Vars
      BY DEF Ready, Open, DatabaseOK
    <3>1. ASSUME NEW c \in I \cup R, NEW lit \in c PROVE WithMarks(marked)[vidx(lit)] = "active"
      <4>1. lit \in Lits /\ status[vidx(lit)] = "active" /\ repr[lit] = lit /\ lit \in ActiveLiterals
        BY <2>3, <3>1, ActiveLits DEF ActiveClause, Clause
      <4>2. vidx(lit) \in Vars /\ (lit = vidx(lit) \/ lit = -vidx(lit))
        BY <4>1, LitFacts
      <4>3. vidx(lit) \notin gone
        <5>1. CASE lit = vidx(lit)
          BY <4>1, <5>1
        <5>2. CASE lit = -vidx(lit)
          <6>1. -lit = vidx(lit) /\ repr[-lit] = -lit
            <7>1. -(-vidx(lit)) = vidx(lit)
              BY <4>2, LitFacts
            <7>2. -repr[lit] = repr[-lit]
              BY <2>2, <4>1 DEF Settled
            <7> QED BY <4>1, <5>2, <7>1, <7>2
          <6> QED BY <6>1
        <5> QED BY <4>2, <5>1, <5>2
      <4> QED BY <2>11, <3>0, <4>1, <4>2, <4>3, MergedAt
    <3>2. ASSUME NEW lit \in A
          PROVE  Clause({lit}) /\ WithMarks(marked)[vidx(lit)] \in {"active", "fixed"}
      <4>1. lit \in Lits /\ -lit # lit /\ vidx(lit) \in Vars /\ (lit = vidx(lit) \/ lit = -vidx(lit))
        BY <2>4, <3>2, LitFacts
      <4>2. vidx(lit) \notin gone
        BY <3>2, <4>1
      <4>3. status[vidx(lit)] \in {"active", "fixed"}
        <5>1. CASE lit \in root
          <6>1. {vidx(lit), -vidx(lit)} \cap root # {}
            BY <4>1, <5>1
          <6> QED BY <4>1, <6>1 DEF Ready, Open, FixedRight
        <5>2. CASE lit \in UNION F
          BY <2>f, <5>2, ActiveLits
        <5> QED BY <2>4, <3>2, <5>1, <5>2
      <4>4. Clause({lit})
        BY <4>1 DEF Clause, Tautological
      <4> QED BY <2>11, <3>0, <4>1, <4>2, <4>3, <4>4, MergedAt
    <3>3. \A c \in IU \cup R : c \in I \cup R \/ \E lit \in A : c = {lit}
      BY DEF Units
    <3> HIDE DEF IU, gone
    <3>4. \A c \in I \cup R : Clause(c)
      BY <2>3 DEF ActiveClause
    <3>5. ASSUME NEW c \in I \cup R
          PROVE  Clause(c) /\ \A lit \in c : WithMarks(marked)[vidx(lit)] \in {"active", "fixed"}
      <4>1. \A lit \in c : WithMarks(marked)[vidx(lit)] = "active"
        BY <3>1
      <4> QED BY <3>4, <4>1
    <3>6. ASSUME NEW k \in A, NEW c, c = {k}
          PROVE  Clause(c) /\ \A lit \in c : WithMarks(marked)[vidx(lit)] \in {"active", "fixed"}
      BY <3>2, <3>6
    <3> QED BY <3>3, <3>5, <3>6
  <2>13. Preserved /\ Follows /\ (~unsat' => Mod' \subseteq ModelsOf(IU))
    <3> DEFINE K == {}
    <3>1. /\ UpdateConnected(IU, R, K, marked) /\ Open
          /\ \A c \in K : Clause(c) /\ Cardinality(c) > 1
          /\ K # {} => eliminating'.round
          /\ \A c \in K : \A lit \in c : WithMarks(marked)[vidx(lit)] \in {"active", "fixed", "eliminated"}
      BY <2>1 DEF Update, Ready
    <3>2. \A B \in All : Holds(IU, B) /\ Holds(R, B) /\ Holds(K, B)
      <4> TAKE B \in All
      <4>1. Holds(I, B) /\ Holds(R, B) /\ A \subseteq B
        BY <2>3, <2>4
      <4> QED BY <4>1 DEF Holds, Units, Satisfied
    <3> HIDE DEF K, IU
    <3>3. \A c \in IU \cup R : Clause(c)
      BY <2>12
    <3>4. \A c \in IU \cup R : \A lit \in c : WithMarks(marked)[vidx(lit)] \in {"active", "fixed"}
      BY <2>12
    <3>5. /\ Preserved /\ Follows
          /\ ~unsat' => \A B \in Total : Holds(irredundant', B) /\ root' \subseteq B
                           => Holds(IU, B) /\ root \subseteq B
      BY <2>11, <3>1, <3>2, <3>3, <3>4, ConnectedUpdate
    <3> QED BY <3>5 DEF Mod, ModelsOf
  <2>14. EntriesFree(es)
    <3>1. ASSUME NEW i \in 1..Len(es), NEW lit \in es[i].witness PROVE vidx(lit) \notin frozen
      <4>1. PICK w \in W : es[i] = Substitution(w, repr)
        BY <2>9
      <4>2. lit = w
        BY <4>1 DEF Substitution, Weakened
      <4> QED BY <2>5, <4>2
    <3> QED BY <3>1 DEF EntriesFree
  <2>15. \A B \in All : EntriesHold(es, B)
    <3>1. ASSUME NEW B \in All, NEW i \in 1..Len(es) PROVE Satisfied(es[i].clause, B)
      <4>1. PICK w \in W : es[i] = Substitution(w, repr)
        BY <2>9
      <4>2. w \in ActiveLiterals /\ repr[w] \in EquivalentTo(w) /\ repr[w] \in ActiveLiterals
        BY <2>2 DEF ReplacedBy, Settled
      <4>3. repr[w] \in B <=> w \in B
        BY <4>2, EquivalentFacts
      <4>4. w \in B \/ -repr[w] \in B
        BY <4>2, <4>3, ActiveLits, TotalFacts DEF All
      <4>5. es[i].clause = {w, -repr[w]}
        BY <4>1 DEF Substitution, Weakened
      <4> QED BY <4>4, <4>5 DEF Satisfied
    <3> QED BY <3>1 DEF EntriesHold
  <2>16. Reconstructs(es, ModelsOf(IU), Mod)
    <3> DEFINE X == {B \in ModelsOf(Substituted(irredundant, repr)) : A \subseteq B}
    <3>1. Reconstructs(es, X, Mod)
      <4>1. W \in SUBSET ReplacedBy(repr) /\ \A w \in W : -w \notin A
        BY <2>5
      <4> HIDE DEF W
      <4> QED BY <2>2, <2>4, <2>9, <2>b, <4>1, SubstitutionBatch
    <3>2. ModelsOf(IU) \in SUBSET X
      <4> SUFFICES ASSUME NEW B \in ModelsOf(IU) PROVE B \in X
        OBVIOUS
      <4>1. B \in Total /\ root \subseteq B /\ Holds(I, B)
        BY DEF ModelsOf, Holds
      <4>2. ASSUME NEW lit \in A PROVE lit \in B
        <5>1. {lit} \in IU
          BY DEF Units
        <5>2. Satisfied({lit}, B)
          BY <5>1 DEF ModelsOf, Holds
        <5> QED BY <5>2 DEF Satisfied
      <4> QED BY <4>1, <4>2 DEF ModelsOf, I
    <3> HIDE DEF X
    <3> QED BY <3>1, <3>2, ReconstructsMonotonic
  <2>17. StepOK(es)
    <3> HIDE DEF IU
    <3> QED BY <2>1, <2>9, <2>13, <2>14, <2>15, <2>16, PushStep
  <2> QED BY <2>17
<1> QED BY <1>1, <1>2

------------------------------------------------------------------------------
(***************************************************************************)
(* Variable elimination.                                                   *)
(***************************************************************************)

\* The clauses of a gate leave the pivot no choice and rule nothing else out.
Apart(c, d, p, B) == p \in c /\ -p \in d => Satisfied(c \ {p}, B) \/ Satisfied(d \ {-p}, B)
Forces(c, p, B) == p \in c /\ ~Satisfied(c \ {p}, B)
Defines(gate, p) ==
    \A B \in Total :
       /\ \A c, d \in gate : Apart(c, d, p, B)
       /\ \E c \in gate : Forces(c, p, B) \/ Forces(c, -p, B)

\* A gate of the negated pivot is a gate.
LEMMA DefinesNegated ==
    ASSUME NEW gate, NEW p \in Lits, Defines(gate, -p)
    PROVE  Defines(gate, p)
<1>1. -(-p) = p
  BY LitFacts
<1>2. ASSUME NEW B \in Total
      PROVE  /\ \A c, d \in gate : Apart(c, d, p, B)
             /\ \E c \in gate : Forces(c, p, B) \/ Forces(c, -p, B)
  <2>1. /\ \A c, d \in gate : Apart(c, d, -p, B)
        /\ \E c \in gate : Forces(c, -p, B) \/ Forces(c, -(-p), B)
    BY DEF Defines
  <2>2. ASSUME NEW c \in gate, NEW d \in gate PROVE Apart(c, d, p, B)
    <3>1. Apart(d, c, -p, B)
      BY <2>1
    <3> QED BY <1>1, <3>1 DEF Apart
  <2>3. \E c \in gate : Forces(c, p, B) \/ Forces(c, -p, B)
    BY <1>1, <2>1
  <2> QED BY <2>2, <2>3
<1> QED BY <1>2 DEF Defines

\* An equivalence defines the pivot (gates.cpp).
LEMMA EquivalenceDefines ==
    ASSUME Open, NEW p \in Lits, NEW gate \in Equivalences(p)
    PROVE  gate \subseteq irredundant /\ Defines(gate, p)
<1>1. PICK s \in ActiveLiterals : gate = {{p, -s}, {-p, s}} /\ {{p, -s}, {-p, s}} \subseteq irredundant
  BY DEF Equivalences
<1>2. s \in Lits /\ -s \in Lits /\ -(-s) = s /\ -(-p) = p /\ -p \in Lits
  BY ActiveLits, LitFacts
<1>3. {p, -s} \in Database /\ {-p, s} \in Database
  BY <1>1 DEF Database
<1>4. ~Tautological({p, -s}) /\ Cardinality({p, -s}) > 1
  BY <1>3 DEF Open, DatabaseOK
<1>5. p # s /\ p # -s
  <2>1. p # s
    BY <1>4 DEF Tautological
  <2>2. p # -s
    <3>1. {p, -s} \in SUBSET Lits
      BY <1>2
    <3>2. \E a, b \in {p, -s} : a # b
      <4> DEFINE c == {p, -s}
      <4>1. c \in SUBSET Lits /\ Cardinality(c) > 1
        BY <1>4, <3>1
      <4> HIDE DEF c
      <4>2. \E a, b \in c : a # b
        BY <4>1, TwoLiterals
      <4> QED BY <4>2 DEF c
    <3> QED BY <3>2
  <2> QED BY <2>1, <2>2
<1>6. ASSUME NEW B \in Total
      PROVE  /\ \A c, d \in gate : Apart(c, d, p, B)
             /\ \E c \in gate : Forces(c, p, B) \/ Forces(c, -p, B)
  <2>1. {p, -s} \ {p} = {-s} /\ {-p, s} \ {-p} = {s} /\ p \notin {-p, s} /\ -p \notin {p, -s}
    BY <1>2, <1>5, LitFacts
  <2>2. s \in B <=> -s \notin B
    BY <1>2, TotalFacts
  <2>3. \A c, d \in gate : Apart(c, d, p, B)
    <3> TAKE c, d \in gate
    <3> SUFFICES ASSUME p \in c /\ -p \in d PROVE Satisfied(c \ {p}, B) \/ Satisfied(d \ {-p}, B)
      BY DEF Apart
    <3>1. c = {p, -s} /\ d = {-p, s}
      BY <1>1, <2>1
    <3> QED BY <2>1, <2>2, <3>1 DEF Satisfied
  <2>4. Forces({p, -s}, p, B) \/ Forces({-p, s}, -p, B)
    BY <2>1, <2>2 DEF Forces, Satisfied
  <2> QED BY <1>1, <2>3, <2>4
<1> QED BY <1>1, <1>6 DEF Defines

\* An AND gate defines the pivot (gates.cpp).
LEMMA AndGateDefines ==
    ASSUME Open, NEW p \in Lits, NEW gate \in AndGates(p)
    PROVE  gate \subseteq irredundant /\ Defines(gate, p)
<1>1. PICK c \in Occs(-p) :
         /\ gate = {c} \cup {{p, -lit} : lit \in c \ {-p}}
         /\ \A lit \in c \ {-p} : {p, -lit} \in irredundant
  BY DEF AndGates
<1>2. c \in irredundant /\ -p \in c /\ c \in SUBSET Lits /\ ~Tautological(c) /\ -(-p) = p
  BY OpenFacts, LitFacts DEF Occs, Occurring, ActiveClause, Clause, Database
<1>3. p \notin c
  BY <1>2 DEF Tautological
<1>4. ASSUME NEW lit \in c \ {-p}
      PROVE  /\ lit \in Lits /\ -lit \in Lits /\ -(-lit) = lit /\ lit # p
             /\ {p, -lit} \ {p} = {-lit} /\ -p \notin {p, -lit}
  <2>1. lit \in Lits /\ -lit \in Lits /\ -(-lit) = lit /\ lit # p /\ lit # -p
    BY <1>2, <1>3, LitFacts
  <2>2. -lit # p /\ -lit # -p /\ -p # p
    BY <1>2, <2>1, LitFacts
  <2> QED BY <2>1, <2>2
<1>5. ASSUME NEW B \in Total
      PROVE  /\ \A d, e \in gate : Apart(d, e, p, B)
             /\ \E d \in gate : Forces(d, p, B) \/ Forces(d, -p, B)
  <2>1. \A d, e \in gate : Apart(d, e, p, B)
    <3> TAKE d, e \in gate
    <3> SUFFICES ASSUME p \in d /\ -p \in e PROVE Satisfied(d \ {p}, B) \/ Satisfied(e \ {-p}, B)
      BY DEF Apart
    <3>1. e = c
      BY <1>1, <1>4
    <3>2. PICK lit \in c \ {-p} : d = {p, -lit}
      BY <1>1, <1>3
    <3>3. lit \in B \/ -lit \in B
      BY <1>4, TotalFacts
    <3> QED BY <1>4, <3>1, <3>2, <3>3 DEF Satisfied
  <2>2. CASE Satisfied(c \ {-p}, B)
    <3>1. PICK lit \in c \ {-p} : lit \in B
      BY <2>2 DEF Satisfied
    <3>2. -lit \notin B
      BY <1>4, <3>1, TotalFacts
    <3>3. Forces({p, -lit}, p, B)
      BY <1>4, <3>2 DEF Forces, Satisfied
    <3> QED BY <1>1, <2>1, <3>3
  <2>3. CASE ~Satisfied(c \ {-p}, B)
    <3>1. Forces(c, -p, B)
      BY <1>2, <2>3 DEF Forces
    <3> QED BY <1>1, <2>1, <3>1
  <2> QED BY <2>2, <2>3
<1>6. gate \subseteq irredundant
  BY <1>1, <1>2
<1> QED BY <1>5, <1>6 DEF Defines

\* The third literal of a ternary clause.
LEMMA ThreeLiterals ==
    ASSUME NEW c \in SUBSET Lits, Cardinality(c) = 3, NEW a \in c, NEW b \in c, a # b
    PROVE  \E x \in c : c = {a, b, x}
<1>1. IsFiniteSet(c)
  BY LitsFinite
<1>2. IsFiniteSet(c \ {a}) /\ Cardinality(c \ {a}) = 2
  BY <1>1, FS_RemoveElement
<1>3. IsFiniteSet(c \ {a, b}) /\ Cardinality(c \ {a, b}) = 1
  <2>1. (c \ {a}) \ {b} = c \ {a, b} /\ b \in c \ {a}
    OBVIOUS
  <2> DEFINE d == c \ {a}
  <2>2. IsFiniteSet(d) /\ Cardinality(d) = 2 /\ b \in d /\ d \ {b} = c \ {a, b}
    BY <1>2, <2>1
  <2> HIDE DEF d
  <2>3. IsFiniteSet(d \ {b}) /\ Cardinality(d \ {b}) = 2 - 1
    BY <2>2, FS_RemoveElement
  <2> QED BY <2>2, <2>3
<1>4. PICK x : c \ {a, b} = {x}
  BY <1>3, FS_Singleton
<1> QED BY <1>4

\* Two different elements are two.
LEMMA TwoElements ==
    ASSUME NEW a, NEW b, a # b
    PROVE  Cardinality({a, b}) = 2
<1>1. IsFiniteSet({a}) /\ Cardinality({a}) = 1
  BY FS_Singleton
<1>2. Cardinality({a} \cup {b}) = 1 + 1
  <2> DEFINE S == {a}
  <2>1. IsFiniteSet(S) /\ b \notin S /\ Cardinality(S) = 1
    BY <1>1
  <2> HIDE DEF S
  <2>2. Cardinality(S \cup {b}) = Cardinality(S) + 1
    BY <2>1, FS_AddElement
  <2> QED BY <2>1, <2>2 DEF S
<1>3. {a, b} = {a} \cup {b}
  OBVIOUS
<1> QED BY <1>2, <1>3

\* An if-then-else gate defines the pivot (gates.cpp).
LEMMA IfThenElseDefines ==
    ASSUME Open, NEW p \in Lits, NEW gate \in IfThenElses(p)
    PROVE  gate \subseteq irredundant /\ Defines(gate, p)
<1> DEFINE flip(d, b) == {b} \cup Negated(d \ {b})
<1>1. gate \subseteq irredundant /\
      \E di, dj \in Ternary(Occs(p)) : \E b \in di \cap Negated(dj) :
         gate = {di, dj, flip(di, b), flip(dj, -b)}
  <2> DEFINE triples == Ternary(Occs(p))
             pairs == {q \in triples \X triples : Cardinality({vidx(lit) : lit \in q[1] \cup q[2]}) = 4}
             gates(di, dj) == {{di, dj, flip(di, b), flip(dj, -b)} : b \in di \cap Negated(dj)}
  <2>1. IfThenElses(p) = {g \in UNION {gates(q[1], q[2]) : q \in pairs} : g \subseteq irredundant}
    BY DEF IfThenElses
  <2> HIDE DEF flip
  <2>2. PICK q \in pairs : gate \in gates(q[1], q[2])
    BY <2>1
  <2>3. q[1] \in triples /\ q[2] \in triples
    BY <2>2
  <2> QED BY <2>1, <2>2, <2>3
<1>2. PICK di \in Ternary(Occs(p)), dj \in Ternary(Occs(p)) : \E b \in di \cap Negated(dj) :
         gate = {di, dj, flip(di, b), flip(dj, -b)}
  BY <1>1
<1>3. PICK b \in di \cap Negated(dj) : gate = {di, dj, flip(di, b), flip(dj, -b)}
  BY <1>2
<1>4. /\ di \in SUBSET Lits /\ p \in di /\ Cardinality(di) = 3 /\ ~Tautological(di)
      /\ dj \in SUBSET Lits /\ p \in dj /\ Cardinality(dj) = 3 /\ ~Tautological(dj)
  BY OpenFacts DEF Ternary, Occs, Occurring, Database, ActiveClause, Clause
<1>5. b \in Lits /\ -b \in Lits /\ -(-b) = b /\ b \in di /\ -b \in dj /\ -b # b /\ -p \in Lits
      /\ -(-p) = p /\ -p # p /\ b \in Int /\ p \in Int
  <2>1. b \in Lits /\ b \in di
    BY <1>4
  <2> QED BY <1>4, <2>1, NegatedLits, LitFacts
<1>6. b # p /\ -b # p /\ b # -p /\ -b # -p
  BY <1>4, <1>5 DEF Tautological
<1>7. PICK x \in di : di = {p, b, x}
  BY <1>4, <1>5, <1>6, ThreeLiterals
<1>8. PICK y \in dj : dj = {p, -b, y}
  BY <1>4, <1>5, <1>6, ThreeLiterals
<1>9. /\ x \in Lits /\ -x \in Lits /\ -(-x) = x /\ x # p /\ x # b /\ x # -p /\ x # -b /\ x \in Int
      /\ y \in Lits /\ -y \in Lits /\ -(-y) = y /\ y # p /\ y # -b /\ y # -p /\ y # b /\ y \in Int
  <2>0. x \in Lits /\ -x \in Lits /\ -(-x) = x /\ y \in Lits /\ -y \in Lits /\ -(-y) = y /\ x \in Int /\ y \in Int
    BY <1>4, LitFacts
  <2>1. x # -p /\ x # -b /\ y # -p /\ y # b
    BY <1>4, <1>5, <1>7, <1>8, <2>0 DEF Tautological
  <2>2. x # p /\ x # b
    <3> SUFFICES ASSUME x = p \/ x = b PROVE FALSE
      OBVIOUS
    <3>1. di = {p, b}
      BY <1>7
    <3>2. Cardinality({p, b}) = 2
      BY <1>6, TwoElements
    <3> QED BY <1>4, <3>1, <3>2
  <2>3. y # p /\ y # -b
    <3> SUFFICES ASSUME y = p \/ y = -b PROVE FALSE
      OBVIOUS
    <3>1. dj = {p, -b}
      BY <1>8
    <3>2. Cardinality({p, -b}) = 2
      BY <1>6, TwoElements
    <3> QED BY <1>4, <3>1, <3>2
  <2> QED BY <2>0, <2>1, <2>2, <2>3
<1> DEFINE c1 == {p, b, x}
           c2 == {p, -b, y}
           c3 == {-p, b, -x}
           c4 == {-p, -b, -y}
<1>10. gate = {c1, c2, c3, c4}
  <2>1. flip(di, b) = c3
    <3>1. di \ {b} = {p, x}
      BY <1>6, <1>7, <1>9
    <3> QED BY <3>1 DEF Negated
  <2>2. flip(dj, -b) = c4
    <3>1. dj \ {-b} = {p, y}
      BY <1>6, <1>8, <1>9
    <3> QED BY <3>1 DEF Negated
  <2> QED BY <1>3, <1>7, <1>8, <2>1, <2>2
<1>11. ASSUME NEW B \in Total
       PROVE  /\ \A c, d \in gate : Apart(c, d, p, B)
              /\ \E c \in gate : Forces(c, p, B) \/ Forces(c, -p, B)
  <2>0. (b \in B <=> -b \notin B) /\ (x \in B <=> -x \notin B) /\ (y \in B <=> -y \notin B)
    BY <1>5, <1>9, TotalFacts
  <2>1. /\ c1 \ {p} = {b, x} /\ c2 \ {p} = {-b, y} /\ c3 \ {-p} = {b, -x} /\ c4 \ {-p} = {-b, -y}
        /\ -p \notin c1 /\ -p \notin c2 /\ p \notin c3 /\ p \notin c4
        /\ p \in c1 /\ p \in c2 /\ -p \in c3 /\ -p \in c4
    BY <1>5, <1>6, <1>9
  <2> HIDE DEF c1, c2, c3, c4
  <2>2. \A c, d \in gate : Apart(c, d, p, B)
    <3> TAKE c, d \in gate
    <3> SUFFICES ASSUME p \in c /\ -p \in d PROVE Satisfied(c \ {p}, B) \/ Satisfied(d \ {-p}, B)
      BY DEF Apart
    <3>1. (c = c1 \/ c = c2) /\ (d = c3 \/ d = c4)
      BY <1>10, <2>1
    <3> QED BY <2>0, <2>1, <3>1 DEF Satisfied
  <2>3. Forces(c1, p, B) \/ Forces(c2, p, B) \/ Forces(c3, -p, B) \/ Forces(c4, -p, B)
    BY <2>0, <2>1 DEF Forces, Satisfied
  <2> QED BY <1>10, <2>2, <2>3
<1> HIDE DEF flip
<1> QED BY <1>1, <1>11 DEF Defines

Signed(c, N) == {IF lit \in N THEN -lit ELSE lit : lit \in c}

\* The literals of a clause with some signs changed.
LEMMA SignedMember ==
    ASSUME NEW c, NEW N, NEW k
    PROVE  k \in Signed(c, N) <=> \E lit \in c : k = IF lit \in N THEN -lit ELSE lit
BY DEF Signed

\* An XOR gate defines the pivot (gates.cpp).
LEMMA XorGateDefines ==
    ASSUME Open, NEW p \in Lits, NEW gate \in XorGates(p)
    PROVE  gate \subseteq irredundant /\ Defines(gate, p)
<1>1. PICK c \in Occs(p) :
         /\ gate = {Signed(c, N) : N \in {M \in SUBSET c : Cardinality(M) % 2 = 0}}
         /\ gate \subseteq irredundant
  BY DEF XorGates, Signed
<1>2. c \in irredundant /\ p \in c /\ c \in SUBSET Lits /\ ~Tautological(c) /\ -(-p) = p /\ -p # p
      /\ -p \notin c
  BY OpenFacts, LitFacts DEF Occs, Occurring, ActiveClause, Clause, Database, Tautological
<1>3. \A lit \in c : lit \in Lits /\ -lit \in Lits /\ -(-lit) = lit /\ lit # -lit /\ -lit \notin c
  BY <1>2, LitFacts DEF Tautological
<1>4. \A N \in SUBSET c : IsFiniteSet(N) /\ Cardinality(N) \in Nat
  BY <1>2, LitsFinite, FS_CardinalityType
<1>5. ASSUME NEW N \in SUBSET c
      PROVE  /\ p \in Signed(c, N) <=> p \notin N
             /\ -p \in Signed(c, N) <=> p \in N
  <2>1. p \in Signed(c, N) <=> p \notin N
    BY <1>2, <1>3, SignedMember
  <2>2. -p \in Signed(c, N) <=> p \in N
    BY <1>2, <1>3, SignedMember
  <2> QED BY <2>1, <2>2
<1>6. ASSUME NEW B \in Total
      PROVE  /\ \A d, e \in gate : Apart(d, e, p, B)
             /\ \E d \in gate : Forces(d, p, B) \/ Forces(d, -p, B)
  <2>1. \A d, e \in gate : Apart(d, e, p, B)
    <3> TAKE d, e \in gate
    <3> SUFFICES ASSUME p \in d /\ -p \in e PROVE Satisfied(d \ {p}, B) \/ Satisfied(e \ {-p}, B)
      BY DEF Apart
    <3>1. PICK N \in SUBSET c : d = Signed(c, N) /\ Cardinality(N) % 2 = 0
      BY <1>1
    <3>2. PICK M \in SUBSET c : e = Signed(c, M) /\ Cardinality(M) % 2 = 0
      BY <1>1
    <3>3. p \notin N /\ p \in M
      BY <1>5, <3>1, <3>2
    <3>4. N # M \ {p}
      <4>1. Cardinality(M \ {p}) = Cardinality(M) - 1 /\ Cardinality(M) \in Nat
        BY <1>4, <3>3, FS_RemoveElement
      <4>2. (Cardinality(M) - 1) % 2 # 0
        BY <3>2, <4>1
      <4> QED BY <3>1, <4>1, <4>2
    <3>5. PICK lit \in c \ {p} : ~(lit \in N <=> lit \in M)
      BY <3>3, <3>4
    <3>6. lit \in B \/ -lit \in B
      BY <1>3, TotalFacts
    <3>7. lit # p /\ -lit # p /\ lit # -p /\ -lit # -p
      BY <1>2, <1>3
    <3>8. CASE lit \in N
      <4>1. -lit \in d /\ lit \in e
        BY <3>1, <3>2, <3>5, <3>8, SignedMember
      <4> QED BY <3>6, <3>7, <4>1 DEF Satisfied
    <3>9. CASE lit \notin N
      <4>1. lit \in d /\ -lit \in e
        BY <3>1, <3>2, <3>5, <3>9, SignedMember
      <4> QED BY <3>6, <3>7, <4>1 DEF Satisfied
    <3> QED BY <3>8, <3>9
  <2> DEFINE Q == (c \ {p}) \cap B
  <2>2. ASSUME NEW N \in SUBSET c, N \ {p} = Q, NEW k \in Signed(c, N), k \in B
        PROVE  k = p \/ k = -p
    <3>1. PICK lit \in c : k = IF lit \in N THEN -lit ELSE lit
      BY SignedMember
    <3>2. CASE lit = p
      BY <3>1, <3>2
    <3>3. CASE lit # p
      <4>1. lit \in N <=> lit \in B
        BY <2>2, <3>3
      <4>2. k \notin B
        BY <1>3, <3>1, <4>1, TotalFacts
      <4> QED BY <2>2, <4>2
    <3> QED BY <3>2, <3>3
  <2>3. Q \in SUBSET c /\ p \notin Q /\ Cardinality(Q) \in Nat /\ IsFiniteSet(Q)
    BY <1>4
  <2>4. CASE Cardinality(Q) % 2 = 0
    <3>1. Signed(c, Q) \in gate
      BY <1>1, <2>3, <2>4
    <3>2. p \in Signed(c, Q) /\ -p \notin Signed(c, Q)
      BY <1>5, <2>3
    <3>3. ~Satisfied(Signed(c, Q) \ {p}, B)
      <4>1. Q \ {p} = Q
        OBVIOUS
      <4> HIDE DEF Q
      <4> QED BY <2>2, <2>3, <3>2, <4>1 DEF Satisfied
    <3> QED BY <2>1, <3>1, <3>2, <3>3 DEF Forces
  <2>5. CASE Cardinality(Q) % 2 # 0
    <3> DEFINE M == Q \cup {p}
    <3>1. M \in SUBSET c /\ M \ {p} = Q /\ p \in M
      BY <1>2
    <3>2. Cardinality(M) % 2 = 0
      <4>1. Cardinality(M) = Cardinality(Q) + 1
        <5> HIDE DEF Q
        <5> QED BY <2>3, FS_AddElement
      <4> QED BY <2>3, <2>5, <4>1
    <3> HIDE DEF M, Q
    <3>3. Signed(c, M) \in gate
      BY <1>1, <3>1, <3>2
    <3>4. -p \in Signed(c, M) /\ p \notin Signed(c, M)
      BY <1>5, <3>1
    <3>5. ~Satisfied(Signed(c, M) \ {-p}, B)
      BY <2>2, <3>1, <3>4 DEF Satisfied
    <3> QED BY <2>1, <3>3, <3>4, <3>5 DEF Forces
  <2> QED BY <2>4, <2>5
<1> QED BY <1>1, <1>6 DEF Defines

\* Every gate that is found defines its pivot.
LEMMA GatesDefine ==
    ASSUME Open, NEW p \in Lits, NEW gate \in Gates(p)
    PROVE  gate = {} \/ (gate \subseteq irredundant /\ Defines(gate, p))
<1>1. gate = {} \/ gate \in Equivalences(p) \/ gate \in AndGates(p) \/ gate \in AndGates(-p)
      \/ gate \in IfThenElses(p) \/ gate \in XorGates(p)
  BY DEF Gates
<1>2. CASE gate \in AndGates(-p)
  <2>1. -p \in Lits
    BY LitFacts
  <2>2. gate \subseteq irredundant /\ Defines(gate, -p)
    BY <1>2, <2>1, AndGateDefines
  <2> QED BY <2>2, DefinesNegated
<1> QED BY <1>1, <1>2, EquivalenceDefines, AndGateDefines, IfThenElseDefines, XorGateDefines

\* The gate clauses that are left still define the pivot, together with the
\* clauses without it.
Without(p) == {e \in irredundant : p \notin e /\ -p \notin e}
GateOK ==
    LET p == eliminating.pivot
        G == eliminating.gate \cap irredundant
    IN  \A B \in Total : root \subseteq B =>
           /\ \A c, d \in G : Apart(c, d, p, B)
           /\ (Holds(Without(p), B) => \E c \in G : Forces(c, p, B) \/ Forces(c, -p, B))

Tries == [round : {TRUE}, pivot : Lits, clauses : Nat, substitute : BOOLEAN, gate : SUBSET SUBSET Lits]
ElimOK ==
    Trying =>
       /\ eliminating \in Tries
       /\ vidx(eliminating.pivot) \notin frozen
       /\ (eliminating.substitute /\ vidx(eliminating.pivot) \in Active => GateOK)

\* Between two tries of a round no variable is being tried, and none is when
\* no round is under way.
LEMMA BetweenFacts ==
    /\ BetweenTries.round /\ BetweenTries.pivot = 0
    /\ ~NotEliminating.round /\ NotEliminating.pivot = 0
    /\ eliminating' = BetweenTries => eliminating'.round /\ ~Trying'
    /\ eliminating' = NotEliminating => ~eliminating'.round /\ ~Trying'
BY DEF BetweenTries, NotEliminating, Trying

\* A step that leaves the clauses alone is plain.
LEMMA QuietPlain ==
    ASSUME Open, UNCHANGED clauseVars, eliminating.round => eliminating'.round
    PROVE  PlainOK
<1>1. irredundant' = irredundant /\ redundant' = redundant /\ root' = root /\ unsat' = unsat
      /\ status' = status
  BY DEF clauseVars
<1>2. DatabaseOK'
  BY <1>1 DEF Open, DatabaseOK, Database
<1>4. Unconnected \subseteq Unconnected'
  BY DEF Unconnected
<1>5. FixedRight'
  BY <1>1, <1>4 DEF Open, FixedRight
<1>3. Mod' = Mod /\ All' = All
  BY <1>1 DEF Mod, All, Database
<1> QED BY <1>1, <1>2, <1>3, <1>5 DEF PlainOK, Preserved, Follows, Open

\* A literal that two other ones clash on follows.
LEMMA ClashingHolds ==
    ASSUME NEW B \in Total, Holds(irredundant, B), NEW lit, Clashing(lit)
    PROVE  lit \in B
<1>1. PICK k \in ActiveLiterals : {{lit, k}, {lit, -k}} \subseteq irredundant
  BY DEF Clashing
<1>2. Satisfied({lit, k}, B) /\ Satisfied({lit, -k}, B)
  BY <1>1 DEF Holds
<1>3. k \in B <=> -k \notin B
  BY ActiveLits, TotalFacts
<1> QED BY <1>2, <1>3 DEF Satisfied

\* The units found while looking for gates follow.
LEMMA GateUnitsFollow ==
    ASSUME Open, NEW p \in ActiveLiterals, NEW lit \in GateUnits(p)
    PROVE  ActiveClause({lit}) /\ \A B \in Total : Holds(irredundant, B) => Satisfied({lit}, B)
<1>0. \/ lit = p /\ Clashing(p)
      \/ lit = -p /\ Clashing(-p)
      \/ lit \in ActiveLiterals /\ {{p, lit}, {-p, lit}} \subseteq irredundant
  BY DEF GateUnits
<1>1. lit \in ActiveLiterals /\ lit \in Lits /\ p \in Lits
  BY <1>0, ActiveNegated
<1>2. ActiveClause({lit})
  <2>1. -lit # lit
    BY <1>1, LitFacts
  <2> QED BY <1>1, <2>1, ActiveClauseLits DEF Tautological
<1>3. ASSUME NEW B \in Total, Holds(irredundant, B) PROVE lit \in B
  <2>1. CASE {{p, lit}, {-p, lit}} \subseteq irredundant
    <3>1. Satisfied({p, lit}, B) /\ Satisfied({-p, lit}, B)
      BY <1>3, <2>1 DEF Holds
    <3>2. p \in B <=> -p \notin B
      BY <1>1, TotalFacts
    <3> QED BY <3>1, <3>2 DEF Satisfied
  <2>2. CASE Clashing(lit)
    BY <1>3, <2>2, ClashingHolds
  <2> QED BY <1>0, <2>1, <2>2
<1> QED BY <1>2, <1>3 DEF Satisfied

\* Looking for a gate starts the elimination of a pivot, or finds a unit.
LEMMA FindGateOK ==
    ASSUME Open, Stack(extension), find_gate_clauses, UNCHANGED frozen
    PROVE  StepOK(<<>>) /\ (~unsat' => ElimOK')
<1>1. PICK v \in Active \ frozen :
          LET pivot == IF Cardinality(Occs(v)) > Cardinality(Occs(-v)) THEN -v ELSE v
              clauses == Cardinality(Occs(v)) + Cardinality(Occs(-v))
              units == IF Occs(pivot) = {} THEN {} ELSE GateUnits(pivot)
              gates == IF Occs(pivot) = {} THEN {{}} ELSE Gates(pivot)
          IN  \/ /\ \E lit \in units : elim_update(irredundant \cup {{lit}}, Unmarked)
                 /\ eliminating' = BetweenTries
              \/ /\ \E gate \in gates :
                       eliminating' = [round |-> TRUE, pivot |-> pivot, clauses |-> clauses,
                                       substitute |-> gate # {}, gate |-> gate]
                 /\ UNCHANGED clauseVars
  BY DEF find_gate_clauses
<1> DEFINE p == IF Cardinality(Occs(v)) > Cardinality(Occs(-v)) THEN -v ELSE v
           clauses == Cardinality(Occs(v)) + Cardinality(Occs(-v))
<1>a. \/ /\ \E lit \in GateUnits(p) : elim_update(irredundant \cup {{lit}}, Unmarked)
         /\ eliminating' = BetweenTries
      \/ /\ \E gate \in Gates(p) \cup {{}} :
               eliminating' = [round |-> TRUE, pivot |-> p, clauses |-> clauses,
                               substitute |-> gate # {}, gate |-> gate]
         /\ UNCHANGED clauseVars
  BY <1>1
<1>2. p \in ActiveLiterals /\ p \in Lits /\ vidx(p) = v
  <2>1. v \in Vars /\ v \in Lits /\ vidx(v) = v /\ vidx(-v) = v /\ status[v] = "active" /\ -v \in Lits
    BY LitFacts DEF Active
  <2> QED BY <2>1, ActiveLits
<1>3. clauses \in Nat
  <2>1. IsFiniteSet(irredundant)
    BY OpenFacts, LitsFinite, FS_SUBSET, FS_Subset
  <2>2. \A lit : Occs(lit) \in SUBSET irredundant
    BY DEF Occs, Occurring
  <2>3. \A lit : Cardinality(Occs(lit)) \in Nat
    BY <2>1, <2>2, FS_Subset, FS_CardinalityType
  <2> QED BY <2>3
<1> HIDE DEF p, clauses
<1>4. UNCHANGED stackVars
  BY DEF find_gate_clauses
<1>5. CASE /\ \E lit \in GateUnits(p) : elim_update(irredundant \cup {{lit}}, Unmarked)
           /\ eliminating' = BetweenTries
  <2>1. PICK lit \in GateUnits(p) : elim_update(irredundant \cup {{lit}}, Unmarked)
    BY <1>5
  <2>2. eliminating'.round /\ ~Trying'
    BY <1>5, BetweenFacts
  <2>3. ActiveClause({lit}) /\ \A B \in Total : Holds(irredundant, B) => Satisfied({lit}, B)
    BY <1>2, GateUnitsFollow
  <2>4. PlainOK
    <3> DEFINE I == irredundant \cup {{lit}}
    <3>1. \A c \in I : ActiveClause(c)
      BY <2>3, OpenFacts
    <3>2. \A B \in All : Holds(I, B)
      BY <2>3 DEF All, Holds, Database
    <3>3. \A B \in Total : Holds(I, B) => Holds(irredundant, B)
      BY DEF Holds
    <3>4. elim_update(I, Unmarked)
      BY <2>1
    <3> HIDE DEF I
    <3> QED BY <2>2, <3>1, <3>2, <3>3, <3>4, ElimPlain
  <2> QED BY <1>4, <2>2, <2>4, PlainStep DEF ElimOK
<1>6. CASE /\ \E gate \in Gates(p) \cup {{}} :
                 eliminating' = [round |-> TRUE, pivot |-> p, clauses |-> clauses,
                                 substitute |-> gate # {}, gate |-> gate]
           /\ UNCHANGED clauseVars
  <2>1. PICK gate \in Gates(p) \cup {{}} :
           eliminating' = [round |-> TRUE, pivot |-> p, clauses |-> clauses,
                           substitute |-> gate # {}, gate |-> gate]
    BY <1>6
  <2>2. UNCHANGED clauseVars
    BY <1>6
  <2>3. gate = {} \/ (gate \subseteq irredundant /\ Defines(gate, p))
    BY <1>2, <2>1, GatesDefine
  <2>4. eliminating' \in Tries
    <3>1. gate \in SUBSET SUBSET Lits
      BY <2>3, OpenFacts
    <3>2. (gate # {}) \in BOOLEAN
      OBVIOUS
    <3> QED BY <1>2, <1>3, <2>1, <3>1, <3>2 DEF Tries
  <2>5. /\ eliminating'.pivot = p /\ eliminating'.gate = gate /\ eliminating'.round
        /\ (eliminating'.substitute => gate # {})
    BY <2>1
  <2>6. irredundant' = irredundant /\ root' = root
    BY <2>2 DEF clauseVars
  <2>7. ASSUME gate # {} PROVE GateOK'
    <3>1. gate \cap irredundant' = gate
      BY <2>3, <2>6, <2>7
    <3>2. \A B \in Total :
             /\ \A c, d \in gate : Apart(c, d, p, B)
             /\ \E c \in gate : Forces(c, p, B) \/ Forces(c, -p, B)
      BY <2>3, <2>7 DEF Defines
    <3> QED BY <2>5, <3>1, <3>2 DEF GateOK
  <2>8. vidx(eliminating'.pivot) \notin frozen'
    <3>1. v \notin frozen
      OBVIOUS
    <3> QED BY <1>2, <2>5, <3>1
  <2>9. PlainOK
    BY <2>2, <2>5, QuietPlain
  <2> QED BY <1>4, <2>4, <2>5, <2>7, <2>8, <2>9, PlainStep DEF ElimOK
<1> QED BY <1>a, <1>5, <1>6

\* A resolvent that is not a tautology is an active clause that follows.
LEMMA ResolvedFacts ==
    ASSUME Open, eliminating \in Tries, NEW pr \in Resolvable
    PROVE  LET p == eliminating.pivot
               r == Resolved(pr)
           IN  /\ p \in Lits /\ -p \in Lits /\ -(-p) = p /\ p # -p
               /\ pr[1] \in irredundant /\ p \in pr[1] /\ -p \notin pr[1] /\ pr[1] \in SUBSET Lits
               /\ pr[2] \in irredundant /\ -p \in pr[2] /\ p \notin pr[2] /\ pr[2] \in SUBSET Lits
               /\ r = (pr[1] \ {p}) \cup (pr[2] \ {-p})
               /\ p \notin r /\ -p \notin r /\ ActiveClause(r) /\ r \in SUBSET Lits
               /\ \A B \in Total : Holds(irredundant, B) => Satisfied(r, B)
<1> DEFINE p == eliminating.pivot
           r == Resolved(pr)
           c == pr[1]
           d == pr[2]
<1>1. p \in Lits /\ -p \in Lits /\ -(-p) = p /\ p # -p
  BY LitFacts DEF Tries
<1>2. c \in irredundant /\ p \in c /\ d \in irredundant /\ -p \in d /\ ~Tautological(r)
  BY DEF Resolvable, Occs, Occurring, Resolved
<1>3. ActiveClause(c) /\ ActiveClause(d) /\ c \in SUBSET Lits /\ d \in SUBSET Lits
  BY <1>2, OpenFacts DEF Database, ActiveClause, Clause
<1>4. -p \notin c /\ p \notin d
  BY <1>1, <1>2, <1>3 DEF ActiveClause, Clause, Tautological
<1>5. r = (c \ {p}) \cup (d \ {-p})
  BY DEF Resolved, Resolvent
<1>6. ActiveClause(r)
  <2>1. c \subseteq ActiveLiterals /\ d \subseteq ActiveLiterals
    BY <1>3, ActiveClauseLits
  <2>2. r \subseteq ActiveLiterals
    BY <1>5, <2>1
  <2> HIDE DEF r
  <2> QED BY <1>2, <2>2, ActiveClauseLits
<1>7. ASSUME NEW B \in Total, Holds(irredundant, B) PROVE Satisfied(r, B)
  <2>1. Satisfied(c, B) /\ Satisfied(d, B)
    BY <1>2, <1>7 DEF Holds
  <2>2. r = Resolvent(c, d, p)
    BY DEF Resolved
  <2> HIDE DEF c, d, r, p
  <2> QED BY <1>2, <1>3, <2>1, <2>2, ResolventHolds
<1> HIDE DEF c, d, p
<1>8. p \notin r /\ -p \notin r /\ r \in SUBSET Lits
  BY <1>1, <1>3, <1>4, <1>5
<1> QED BY <1>1, <1>2, <1>3, <1>4, <1>5, <1>6, <1>7, <1>8 DEF c, d, p

\* A resolvent that takes the place of antecedents leaves the gate intact.
LEMMA GateKept ==
    ASSUME Open, eliminating \in Tries, NEW pr \in Resolvable,
           elim_update((irredundant \ Shortened(pr)) \cup {Resolved(pr)}, Unmarked),
           eliminating' = [eliminating EXCEPT !.gate = Flushed(@ \cap irredundant, root')
                                                       \cap irredundant'],
           ~unsat', vidx(eliminating.pivot) \in Active', GateOK
    PROVE  GateOK'
<1> DEFINE p == eliminating.pivot
           r == Resolved(pr)
           S == Shortened(pr)
           I == (irredundant \ S) \cup {r}
           G == eliminating.gate \cap irredundant
<1>1. /\ p \in Lits /\ -p \in Lits /\ -(-p) = p /\ p # -p
      /\ p \notin r /\ -p \notin r /\ r \in SUBSET Lits
  BY ResolvedFacts
<1>2. \A c \in S : r \subseteq c
  BY DEF Shortened
<1>3. I \cup {} \in SUBSET SUBSET Lits /\ root \in SUBSET Lits
      /\ irredundant \in SUBSET SUBSET Lits
  BY <1>1, OpenFacts
<1>4. /\ root' = Closure(I \cup {}, root, Vars) /\ irredundant' = Flushed(I, root')
      /\ status' = [v \in Vars |-> IF {v, -v} \cap root' # {} THEN "fixed" ELSE WithMarks(Unmarked)[v]]
  <2> HIDE DEF I
  <2>1. UpdateConnected(I, {}, redundant, Unmarked)
    BY DEF I, elim_update
  <2> QED BY <2>1 DEF UpdateConnected
<1>5. eliminating'.pivot = p /\ eliminating'.gate = Flushed(G, root') \cap irredundant'
  BY DEF Tries
<1> HIDE DEF p, r, S, I, G
<1>6. root' \in SUBSET Lits /\ root \subseteq root'
  BY <1>3, <1>4, ClosureGrows
<1>7. p \notin root' /\ -p \notin root'
  <2>1. vidx(p) \in Vars /\ (p = vidx(p) \/ p = -vidx(p)) /\ status'[vidx(p)] = "active"
    BY <1>1, LitFacts DEF p, Active
  <2>2. {vidx(p), -vidx(p)} \cap root' = {}
    BY <1>4, <2>1
  <2>3. -(-vidx(p)) = vidx(p)
    BY <2>1, LitFacts
  <2> QED BY <2>1, <2>2, <2>3
<1>8. ASSUME NEW B \in Total, root' \subseteq B,
             NEW c \in SUBSET Lits
      PROVE  \A k \in c : k \in B => k \in c \ Negated(root')
  <2> TAKE k \in c
  <2> HAVE k \in B
  <2>1. -k \notin root' /\ k \in Lits
    BY <1>8, TotalFacts
  <2> QED BY <1>6, <2>1, NegatedLits
<1>9. ASSUME NEW B \in Total, root' \subseteq B,
             NEW c2 \in eliminating'.gate \cap irredundant', NEW d2 \in eliminating'.gate \cap irredundant'
      PROVE  Apart(c2, d2, p, B)
  <2>1. PICK c \in G : c2 = c \ Negated(root')
    BY <1>5, FlushedMember
  <2>2. PICK d \in G : d2 = d \ Negated(root')
    BY <1>5, FlushedMember
  <2>3. Apart(c, d, p, B)
    <3>1. root \subseteq B
      BY <1>6, <1>9
    <3> QED BY <3>1 DEF GateOK, G, p
  <2>4. c \in SUBSET Lits /\ d \in SUBSET Lits
    BY <1>3 DEF G
  <2>5. /\ \A k \in c : k \in B => k \in c2
        /\ \A k \in d : k \in B => k \in d2
    BY <1>8, <1>9, <2>1, <2>2, <2>4
  <2> QED BY <2>1, <2>2, <2>3, <2>5 DEF Apart, Satisfied
<1>10. ASSUME NEW B \in Total, root' \subseteq B, Holds(Without(p)', B)
       PROVE  \E c \in eliminating'.gate \cap irredundant' : Forces(c, p, B) \/ Forces(c, -p, B)
  <2>1. ASSUME NEW c \in I, p \notin c, -p \notin c PROVE Satisfied(c, B)
    <3>1. CASE Satisfied(c, root')
      BY <1>10, <3>1 DEF Satisfied
    <3>2. CASE ~Satisfied(c, root')
      <4>1. c \ Negated(root') \in irredundant'
        BY <1>4, <3>2, FlushedMember
      <4>2. c \ Negated(root') \in Without(p)'
        BY <2>1, <4>1 DEF Without, p
      <4>3. Satisfied(c \ Negated(root'), B)
        BY <1>10, <4>2 DEF Holds
      <4> QED BY <4>3 DEF Satisfied
    <3> QED BY <3>1, <3>2
  <2>2. Satisfied(r, B)
    BY <1>1, <2>1 DEF I
  <2>3. ASSUME NEW c \in Without(p) PROVE Satisfied(c, B)
    <3>1. CASE c \in S
      BY <1>2, <2>2, <3>1 DEF Satisfied
    <3>2. CASE c \notin S
      BY <2>1, <3>2 DEF I, Without
    <3> QED BY <3>1, <3>2
  <2>4. PICK c \in G, q \in {p, -p} : Forces(c, q, B)
    <3>1. root \subseteq B /\ Holds(Without(p), B)
      BY <1>6, <1>10, <2>3 DEF Holds
    <3>2. \E c \in G : Forces(c, p, B) \/ Forces(c, -p, B)
      BY <3>1 DEF GateOK, G, p
    <3> QED BY <3>2
  <2>5. q \in c /\ ~Satisfied(c \ {q}, B)
    BY <2>4 DEF Forces
  <2>6. c \in I
    <3>1. CASE c \in S
      <4>1. r \subseteq c \ {q}
        BY <1>1, <1>2, <3>1
      <4> QED BY <2>2, <2>5, <4>1 DEF Satisfied
    <3>2. CASE c \notin S
      BY <3>2 DEF I, G
    <3> QED BY <3>1, <3>2
  <2>7. ~Satisfied(c, root')
    BY <1>7, <1>10, <2>5 DEF Satisfied
  <2> DEFINE c2 == c \ Negated(root')
  <2>8. c2 \in irredundant' /\ c2 \in Flushed(G, root')
    BY <1>4, <2>6, <2>7, FlushedMember
  <2>9. q \in c2
    <3>1. q \in Lits /\ -q \notin root'
      BY <1>1, <1>7
    <3>2. q \notin Negated(root')
      BY <1>6, <3>1, NegatedLits
    <3> QED BY <2>5, <3>2
  <2>10. Forces(c2, q, B)
    BY <2>5, <2>9 DEF Forces, Satisfied
  <2> HIDE DEF c2
  <2> QED BY <1>5, <2>8, <2>10
<1>11. ASSUME NEW B \in Total, root' \subseteq B
       PROVE  LET G2 == eliminating'.gate \cap irredundant' IN
              /\ \A c, d \in G2 : Apart(c, d, p, B)
              /\ (Holds(Without(p)', B) => \E c \in G2 : Forces(c, p, B) \/ Forces(c, -p, B))
  BY <1>9, <1>10, <1>11
<1>12. Without(eliminating.pivot)' = Without(p)'
  <2>1. p' = p
    BY <1>5 DEF p
  <2> QED BY <1>5, <2>1 DEF Without, p
<1> QED BY <1>5, <1>11, <1>12 DEF GateOK

\* Without marks, no variable becomes active.
LEMMA UnmarkedActive ==
    ASSUME Open, NEW I, elim_update(I, Unmarked), ~unsat'
    PROVE  Active' \subseteq Active
<1>1. status' = [v \in Vars |-> IF {v, -v} \cap root' # {} THEN "fixed" ELSE WithMarks(Unmarked)[v]]
  BY DEF elim_update, UpdateConnected
<1>2. WithMarks(Unmarked) = status
  BY UnmarkedStatus DEF Open
<1> QED BY <1>1, <1>2 DEF Active

\* Resolving two clauses on the pivot.
LEMMA ResolveOK ==
    ASSUME Open, Stack(extension), ElimOK, resolve_clauses, UNCHANGED frozen
    PROVE  StepOK(<<>>) /\ (~unsat' => ElimOK')
<1>1. PICK pr \in Resolvable :
         /\ Shortened(pr) # {}
         /\ elim_update((irredundant \ Shortened(pr)) \cup {Resolved(pr)}, Unmarked)
  BY DEF resolve_clauses
<1>2. /\ eliminating' = [eliminating EXCEPT !.gate = Flushed(@ \cap irredundant, root')
                                                     \cap irredundant']
      /\ UNCHANGED stackVars /\ Trying
  BY DEF resolve_clauses
<1>3. eliminating \in Tries /\ vidx(eliminating.pivot) \notin frozen
      /\ (eliminating.substitute /\ vidx(eliminating.pivot) \in Active => GateOK)
  BY <1>2 DEF ElimOK
<1> DEFINE r == Resolved(pr)
           I == (irredundant \ Shortened(pr)) \cup {r}
<1>4. ActiveClause(r) /\ \A B \in Total : Holds(irredundant, B) => Satisfied(r, B)
  BY <1>3, ResolvedFacts
<1>5. PlainOK
  <2>1. \A c \in I : ActiveClause(c)
    BY <1>4, OpenFacts
  <2>2. \A B \in All : Holds(I, B)
    <3> TAKE B \in All
    <3>1. B \in Total /\ Holds(irredundant, B)
      BY DEF All, Holds, Database
    <3> QED BY <1>4, <3>1 DEF Holds
  <2>3. \A B \in Total : Holds(I, B) => Holds(irredundant, B)
    <3> TAKE B \in Total
    <3> HAVE Holds(I, B)
    <3>1. ASSUME NEW c \in irredundant PROVE Satisfied(c, B)
      <4>1. CASE c \in Shortened(pr)
        <5>1. r \subseteq c
          BY <4>1 DEF Shortened
        <5>2. Satisfied(r, B)
          BY DEF Holds
        <5> QED BY <5>1, <5>2 DEF Satisfied
      <4>2. CASE c \notin Shortened(pr)
        BY <4>2 DEF Holds
      <4> QED BY <4>1, <4>2
    <3> QED BY <3>1 DEF Holds
  <2>4. elim_update(I, Unmarked)
    BY <1>1
  <2>5. eliminating'.round
    BY <1>2, <1>3 DEF Tries
  <2> HIDE DEF I
  <2> QED BY <2>1, <2>2, <2>3, <2>4, <2>5, ElimPlain
<1>6. ASSUME ~unsat' PROVE ElimOK'
  <2>1. eliminating' \in Tries
    <3>1. Flushed(eliminating.gate \cap irredundant, root') \in SUBSET SUBSET Lits
      <4>1. irredundant \in SUBSET SUBSET Lits
        BY OpenFacts
      <4> QED BY <4>1, FlushedMember
    <3> QED BY <1>2, <1>3, <3>1 DEF Tries
  <2>2. eliminating'.pivot = eliminating.pivot /\ eliminating'.substitute = eliminating.substitute
    BY <1>2, <1>3 DEF Tries
  <2>3. vidx(eliminating'.pivot) \notin frozen'
    BY <1>3, <2>2
  <2>4. ASSUME eliminating'.substitute, vidx(eliminating'.pivot) \in Active' PROVE GateOK'
    <3>1. vidx(eliminating.pivot) \in Active' /\ vidx(eliminating.pivot) \in Active
      BY <1>1, <1>6, <2>2, <2>4, UnmarkedActive
    <3>2. GateOK
      BY <1>3, <2>2, <2>4, <3>1
    <3> QED BY <1>1, <1>2, <1>3, <1>6, <3>1, <3>2, GateKept
  <2> QED BY <2>1, <2>3, <2>4 DEF ElimOK
<1> QED BY <1>2, <1>5, <1>6, PlainStep

\* The entries of two sequences of entries.
LEMMA ConcatMember ==
    ASSUME NEW s \in Seq(Entries), NEW t \in Seq(Entries)
    PROVE  /\ s \o t \in Seq(Entries)
           /\ \A i \in 1..Len(s \o t) :
                 (\E j \in 1..Len(s) : (s \o t)[i] = s[j]) \/ (\E j \in 1..Len(t) : (s \o t)[i] = t[j])
OBVIOUS

\* Two sequences of entries, one after the other.
LEMMA FreeConcat ==
    ASSUME NEW s, Stack(s), NEW t, Stack(t), EntriesFree(s), EntriesFree(t)
    PROVE  EntriesFree(s \o t) /\ \A B : EntriesHold(s, B) /\ EntriesHold(t, B) => EntriesHold(s \o t, B)
<1>1. s \in Seq(Entries) /\ t \in Seq(Entries)
  BY DEF Stack
<1>2. \A i \in 1..Len(s \o t) :
         (\E j \in 1..Len(s) : (s \o t)[i] = s[j]) \/ (\E j \in 1..Len(t) : (s \o t)[i] = t[j])
  BY <1>1, ConcatMember
<1> QED BY <1>2 DEF EntriesFree, EntriesHold

\* What elimination needs to know of the clauses it removes on both sides.
LEMMA EliminateSides ==
    ASSUME Open, ElimOK, Trying, vidx(eliminating.pivot) \in Active,
           NEW B \in Total, root \subseteq B,
           \A pr \in Resolvable : Satisfied(Resolved(pr), B),
           NEW c \in Occs(eliminating.pivot), NEW d \in Occs(-eliminating.pivot),
           \/ ~eliminating.substitute
           \/ c \in eliminating.gate /\ d \in eliminating.gate
           \/ (c \in eliminating.gate) # (d \in eliminating.gate)
    PROVE  Satisfied(c \ {eliminating.pivot}, B) \/ Satisfied(d \ {-eliminating.pivot}, B)
<1> DEFINE p == eliminating.pivot
<1>0. eliminating \in Tries /\ (eliminating.substitute => GateOK)
  BY DEF ElimOK
<1>1. c \in irredundant /\ d \in irredundant /\ p \in c /\ -p \in d
      /\ c \in SUBSET Lits /\ d \in SUBSET Lits
  BY OpenFacts DEF Occs, Occurring
<1>2. CASE eliminating.substitute /\ c \in eliminating.gate /\ d \in eliminating.gate
  <2>1. Apart(c, d, p, B)
    BY <1>0, <1>1, <1>2 DEF GateOK
  <2> QED BY <1>1, <2>1 DEF Apart
<1>3. CASE ~eliminating.substitute \/ ((c \in eliminating.gate) # (d \in eliminating.gate))
  <2> DEFINE r == (c \ {p}) \cup (d \ {-p})
  <2>0. r = Resolvent(c, d, p)
    BY DEF Resolvent
  <2>1. Satisfied(r, B)
    <3>1. CASE Tautological(r)
      <4>1. PICK k \in r : -k \in r
        BY <3>1 DEF Tautological
      <4>2. k \in Lits
        BY <1>1, <4>1
      <4>3. k \in B \/ -k \in B
        BY <4>2, TotalFacts
      <4> QED BY <4>1, <4>3 DEF Satisfied
    <3>2. CASE ~Tautological(r)
      <4>1. <<c, d>> \in Resolvable
        BY <1>3, <2>0, <3>2 DEF Resolvable
      <4>2. Resolved(<<c, d>>) = r
        BY <2>0 DEF Resolved
      <4> QED BY <4>1, <4>2
    <3> QED BY <3>1, <3>2
  <2> QED BY <2>1 DEF Satisfied
<1> QED BY <1>2, <1>3

\* The pivot is eliminated: its clauses, or those of its gate, are pushed with
\* its literal in them as witness (elim.cpp).
LEMMA EliminateOK ==
    ASSUME Open, ElimOK, eliminate
    PROVE  (\E es : StepOK(es)) /\ ~Trying'
<1> DEFINE p == eliminating.pivot
           old == Occs(p) \cup Occs(-p)
           I == (irredundant \ old) \cup {Resolved(pr) : pr \in Resolvable}
           marked == Marked({vidx(p)}, "eliminated")
           Side(lit) == IF eliminating.substitute THEN Occs(lit) \cap eliminating.gate ELSE Occs(lit)
           Fp == Side(p)
           Fn == Side(-p)
           es == Pushed(p) \o Pushed(-p)
<1>1. /\ Trying /\ vidx(p) \in Active
      /\ elim_update(I, marked) /\ push_on_extension_stack(es) /\ eliminating' = BetweenTries
  <2>1. \A pr \in Resolvable : Shortened(pr) = {}
    BY DEF eliminate
  <2>2. {pr \in Resolvable : Shortened(pr) = {}} = Resolvable
    BY <2>1
  <2> QED BY <2>2 DEF eliminate
<1>2. eliminating \in Tries /\ vidx(p) \notin frozen /\ (eliminating.substitute => GateOK)
  BY <1>1 DEF ElimOK
<1>3. /\ p \in Lits /\ -p \in Lits /\ -(-p) = p /\ p # -p /\ vidx(-p) = vidx(p)
      /\ p \in ActiveLiterals /\ -p \in ActiveLiterals
      /\ p \notin root /\ -p \notin root
  <2>1. p \in Lits /\ -p \in Lits /\ -(-p) = p /\ p # -p /\ vidx(-p) = vidx(p)
    BY <1>2, LitFacts DEF Tries
  <2>2. p \in ActiveLiterals
    BY <1>1, <2>1, ActiveLits DEF Active
  <2> QED BY <2>1, <2>2, ActiveNegated, RootApart
<1> HIDE DEF p
<1>4. ASSUME NEW c \in irredundant
      PROVE  /\ ActiveClause(c) /\ c \in SUBSET Lits
             /\ c \notin old => p \notin c /\ -p \notin c
  BY OpenFacts DEF Occs, Occurring, Database, ActiveClause, Clause
<1>5. ASSUME NEW pr \in Resolvable
      PROVE  /\ ActiveClause(Resolved(pr)) /\ p \notin Resolved(pr) /\ -p \notin Resolved(pr)
             /\ \A B \in Total : Holds(irredundant, B) => Satisfied(Resolved(pr), B)
  BY <1>2, ResolvedFacts DEF p
<1>6. \A c \in I : ActiveClause(c) /\ p \notin c /\ -p \notin c
  BY <1>4, <1>5
<1>7. \A B \in All : Holds(I, B)
  <2> TAKE B \in All
  <2>1. B \in Total /\ Holds(irredundant, B)
    BY DEF All, Holds, Database
  <2> QED BY <1>5, <2>1 DEF Holds
<1>8. /\ \A v \in DOMAIN marked : marked[v] \in {"active", "eliminated"} /\ v \notin frozen
      /\ DOMAIN marked = {vidx(p)}
  BY <1>2 DEF Marked, p
<1>9. \A c \in I : Clause(c) /\ \A lit \in c : WithMarks(marked)[vidx(lit)] = "active"
  <2> TAKE c \in I
  <2>1. ActiveClause(c) /\ p \notin c /\ -p \notin c
    BY <1>6
  <2>2. ASSUME NEW lit \in c PROVE WithMarks(marked)[vidx(lit)] = "active"
    <3>1. lit \in Lits /\ status[vidx(lit)] = "active" /\ lit # p /\ lit # -p
      BY <2>1 DEF ActiveClause, Clause
    <3>2. vidx(lit) \in Vars /\ (lit = vidx(lit) \/ lit = -vidx(lit)) /\ (p = vidx(p) \/ p = -vidx(p))
      BY <1>3, <3>1, LitFacts
    <3>3. vidx(lit) # vidx(p)
      <4> SUFFICES ASSUME vidx(lit) = vidx(p) PROVE FALSE
        OBVIOUS
      <4> DEFINE v == vidx(p)
      <4>1. -(-v) = v
        BY <1>3, LitFacts
      <4>2. (lit = v \/ lit = -v) /\ (p = v \/ p = -v)
        BY <3>2
      <4> HIDE DEF v
      <4> QED BY <3>1, <4>1, <4>2
    <3>4. DOMAIN status = Vars
      BY DEF Open, DatabaseOK
    <3> HIDE DEF marked
    <3> QED BY <1>8, <3>1, <3>2, <3>3, <3>4, MergedAt
  <2> QED BY <2>1, <2>2 DEF ActiveClause
<1> HIDE DEF I, marked
<1>e. eliminating'.round /\ ~Trying'
  BY <1>1, BetweenFacts
<1>10. Preserved /\ Follows /\ (~unsat' => Mod' \subseteq ModelsOf(I))
  BY <1>1, <1>7, <1>8, <1>9, <1>e, ElimUpdate
<1>11. /\ Pushed(p) = WeakenedOn(p, Fp) /\ Pushed(-p) = WeakenedOn(-p, Fn)
       /\ Fp \in SUBSET SUBSET Lits /\ Fp \subseteq Occs(p) /\ \A c \in Fp : p \in c /\ c \in irredundant
       /\ Fn \in SUBSET SUBSET Lits /\ Fn \subseteq Occs(-p) /\ \A c \in Fn : -p \in c /\ c \in irredundant
  <2>1. Occs(p) \in SUBSET irredundant /\ \A c \in Occs(p) : p \in c
    BY DEF Occs, Occurring
  <2>2. Occs(-p) \in SUBSET irredundant /\ \A c \in Occs(-p) : -p \in c
    BY DEF Occs, Occurring
  <2>3. irredundant \in SUBSET SUBSET Lits
    BY OpenFacts
  <2> QED BY <2>1, <2>2, <2>3 DEF Pushed
<1>12. /\ \A c \in Fp, d \in Fn : ~eliminating.substitute \/ (c \in eliminating.gate /\ d \in eliminating.gate)
       /\ \A c \in Occs(p) \ Fp : eliminating.substitute /\ c \notin eliminating.gate
       /\ \A c \in Occs(-p) \ Fn : eliminating.substitute /\ c \notin eliminating.gate
       /\ eliminating.substitute =>
             /\ \A c \in irredundant \cap eliminating.gate : p \in c => c \in Fp
             /\ \A c \in irredundant \cap eliminating.gate : -p \in c => c \in Fn
  <2>1. \A c \in irredundant : (p \in c => c \in Occs(p)) /\ (-p \in c => c \in Occs(-p))
    BY DEF Occs, Occurring
  <2> QED BY <2>1
<1> HIDE DEF Fp, Fn, Side
\* No clause that is left has the pivot: its value does not matter to them.
<1>13. ASSUME NEW q \in {p, -p}, NEW B \in ModelsOf(I), NEW c \in SUBSET Lits, q \in c, ~Satisfied(c, B)
       PROVE  LET D == Flipped(Weakened({q}, c), B) IN
              /\ D \in ModelsOf(I) /\ q \in D /\ \A k \in B : k # -q => k \in D
  <2> DEFINE D == Flipped(Weakened({q}, c), B)
  <2>0. q \in Lits /\ -q \in {p, -p}
    BY <1>3
  <2>1. B \in Total /\ Holds(I, B) /\ root \subseteq B
    BY DEF ModelsOf
  <2>2. D \in Total /\ q \in D /\ \A k \in B : k # -q => k \in D
    BY <1>13, <2>0, <2>1, FlipOne
  <2> HIDE DEF D
  <2>3. ASSUME NEW e \in I PROVE Satisfied(e, D)
    <3>1. -q \notin e
      BY <1>6, <2>0
    <3> QED BY <2>1, <2>2, <3>1 DEF Holds, Satisfied
  <2>4. root \subseteq D
    BY <1>3, <2>0, <2>1, <2>2
  <2> QED BY <2>2, <2>3, <2>4 DEF ModelsOf, Holds, D
<1>14. ASSUME NEW B \in ModelsOf(I)
       PROVE  B \in Total /\ root \subseteq B /\ \A pr \in Resolvable : Satisfied(Resolved(pr), B)
  BY DEF ModelsOf, Holds, I
<1> DEFINE X1 == {B \in ModelsOf(I) : Holds(Fn, B)}
<1>15. Reconstructs(Pushed(-p), ModelsOf(I), X1)
  <2>1. \A B \in ModelsOf(I) \cap Total, c \in Fn :
           ~Satisfied(c, B) => Flipped(Weakened({-p}, c), B) \in ModelsOf(I)
    BY <1>11, <1>13
  <2>2. \A B \in ModelsOf(I) \cap Total : Holds(Fn, B) => B \in X1
    OBVIOUS
  <2> DEFINE X == ModelsOf(I)
  <2> HIDE DEF X, X1
  <2>3. Reconstructs(WeakenedOn(-p, Fn), X, X1)
    BY <1>3, <1>11, <2>1, <2>2, WeakenedOnBatch DEF X
  <2> QED BY <1>11, <2>3 DEF X
<1>16. ASSUME NEW B \in X1 \cap Total, NEW c \in Fp, ~Satisfied(c, B)
       PROVE  Flipped(Weakened({p}, c), B) \in X1
  <2> DEFINE D == Flipped(Weakened({p}, c), B)
  <2>1. D \in ModelsOf(I) /\ p \in D /\ \A k \in B : k # -p => k \in D
    <3>1. B \in ModelsOf(I) /\ c \in SUBSET Lits /\ p \in c
      BY <1>11
    <3> QED BY <1>13, <1>16, <3>1
  <2> HIDE DEF D
  <2>2. ASSUME NEW d \in Fn PROVE Satisfied(d, D)
    <3>1. Satisfied(c \ {p}, B) \/ Satisfied(d \ {-p}, B)
      <4>1. c \in Occs(p) /\ d \in Occs(-p)
        BY <1>11
      <4>2. \/ ~eliminating.substitute
            \/ c \in eliminating.gate /\ d \in eliminating.gate
            \/ (c \in eliminating.gate) # (d \in eliminating.gate)
        BY <1>12
      <4> QED BY <1>1, <1>14, <4>1, <4>2, EliminateSides DEF p
    <3> QED BY <1>16, <2>1, <3>1 DEF Satisfied
  <2> QED BY <2>1, <2>2 DEF Holds, D
<1>17. ASSUME NEW B \in X1 \cap Total, Holds(Fp, B)
       PROVE  B \in Mod
  <2>0. B \in Total /\ root \subseteq B /\ Holds(I, B) /\ Holds(Fn, B)
    BY DEF ModelsOf
  <2>1. ASSUME NEW e \in irredundant, p \notin e, -p \notin e PROVE Satisfied(e, B)
    <3>1. e \notin old
      BY <2>1 DEF Occs, Occurring
    <3> QED BY <2>0, <3>1 DEF Holds, I
  <2>2. ASSUME eliminating.substitute
        PROVE  \E g \in irredundant \cap eliminating.gate :
                  \/ p \in g /\ g \in Fp /\ ~Satisfied(g \ {p}, B)
                  \/ -p \in g /\ g \in Fn /\ ~Satisfied(g \ {-p}, B)
    <3>1. Holds(Without(p), B)
      BY <2>1 DEF Holds, Without
    <3>2. \E g \in eliminating.gate \cap irredundant : Forces(g, p, B) \/ Forces(g, -p, B)
      BY <1>2, <2>0, <2>2, <3>1 DEF GateOK, p
    <3> QED BY <1>12, <2>2, <3>2 DEF Forces
  <2>3. ASSUME NEW e \in Occs(p) PROVE Satisfied(e, B)
    <3>1. CASE e \in Fp
      BY <1>17, <3>1 DEF Holds
    <3>2. CASE e \notin Fp
      <4>1. eliminating.substitute /\ e \notin eliminating.gate
        BY <1>12, <3>2
      <4>2. PICK g \in irredundant \cap eliminating.gate :
                  \/ p \in g /\ g \in Fp /\ ~Satisfied(g \ {p}, B)
                  \/ -p \in g /\ g \in Fn /\ ~Satisfied(g \ {-p}, B)
        BY <2>2, <4>1
      <4>3. p \in e
        BY DEF Occs, Occurring
      <4>4. CASE p \in g /\ g \in Fp /\ ~Satisfied(g \ {p}, B)
        <5>1. p \in B
          BY <1>17, <4>4 DEF Holds, Satisfied
        <5> QED BY <4>3, <5>1 DEF Satisfied
      <4>5. CASE -p \in g /\ g \in Fn /\ ~Satisfied(g \ {-p}, B)
        <5>1. g \in Occs(-p) /\ g \in eliminating.gate
          BY <1>11, <4>5
        <5>2. Satisfied(e \ {p}, B) \/ Satisfied(g \ {-p}, B)
          <6>1. (e \in eliminating.gate) # (g \in eliminating.gate)
            BY <4>1, <5>1
          <6> QED BY <1>1, <1>14, <5>1, <6>1, EliminateSides DEF p
        <5> QED BY <4>5, <5>2 DEF Satisfied
      <4> QED BY <4>2, <4>4, <4>5
    <3> QED BY <3>1, <3>2
  <2>4. ASSUME NEW e \in Occs(-p) PROVE Satisfied(e, B)
    <3>1. CASE e \in Fn
      BY <2>0, <3>1 DEF Holds
    <3>2. CASE e \notin Fn
      <4>1. eliminating.substitute /\ e \notin eliminating.gate
        BY <1>12, <3>2
      <4>2. PICK g \in irredundant \cap eliminating.gate :
                  \/ p \in g /\ g \in Fp /\ ~Satisfied(g \ {p}, B)
                  \/ -p \in g /\ g \in Fn /\ ~Satisfied(g \ {-p}, B)
        BY <2>2, <4>1
      <4>3. -p \in e
        BY DEF Occs, Occurring
      <4>4. CASE -p \in g /\ g \in Fn /\ ~Satisfied(g \ {-p}, B)
        <5>1. -p \in B
          BY <2>0, <4>4 DEF Holds, Satisfied
        <5> QED BY <4>3, <5>1 DEF Satisfied
      <4>5. CASE p \in g /\ g \in Fp /\ ~Satisfied(g \ {p}, B)
        <5>1. g \in Occs(p) /\ g \in eliminating.gate
          BY <1>11, <4>5
        <5>2. Satisfied(g \ {p}, B) \/ Satisfied(e \ {-p}, B)
          <6>1. (g \in eliminating.gate) # (e \in eliminating.gate)
            BY <4>1, <5>1
          <6> QED BY <1>1, <1>14, <5>1, <6>1, EliminateSides DEF p
        <5> QED BY <4>5, <5>2 DEF Satisfied
      <4> QED BY <4>2, <4>4, <4>5
    <3> QED BY <3>1, <3>2
  <2>5. \A e \in irredundant : Satisfied(e, B)
    BY <2>1, <2>3, <2>4 DEF Occs, Occurring
  <2> QED BY <2>0, <2>5 DEF Mod, Holds
<1> HIDE DEF X1
<1>18. Reconstructs(Pushed(p), X1, Mod)
  <2>1. \A B \in X1 \cap Total, c \in Fp : ~Satisfied(c, B) => Flipped(Weakened({p}, c), B) \in X1
    BY <1>16
  <2>2. \A B \in X1 \cap Total : Holds(Fp, B) => B \in Mod
    BY <1>17
  <2>3. Reconstructs(WeakenedOn(p, Fp), X1, Mod)
    BY <1>3, <1>11, <2>1, <2>2, WeakenedOnBatch
  <2> QED BY <1>11, <2>3
<1>19. /\ Stack(Pushed(p)) /\ EntriesFree(Pushed(p)) /\ \A B : Holds(Fp, B) => EntriesHold(Pushed(p), B)
       /\ Stack(Pushed(-p)) /\ EntriesFree(Pushed(-p)) /\ \A B : Holds(Fn, B) => EntriesHold(Pushed(-p), B)
  <2>1. vidx(p) \notin frozen /\ vidx(-p) \notin frozen
    BY <1>2, <1>3 DEF p
  <2>2. LET ets == WeakenedOn(p, Fp) IN
        Stack(ets) /\ EntriesFree(ets) /\ \A B : Holds(Fp, B) => EntriesHold(ets, B)
    BY <1>3, <1>11, <2>1, WeakenedOnFacts, WeakenedOnMore
  <2>3. LET ets == WeakenedOn(-p, Fn) IN
        Stack(ets) /\ EntriesFree(ets) /\ \A B : Holds(Fn, B) => EntriesHold(ets, B)
    BY <1>3, <1>11, <2>1, WeakenedOnFacts, WeakenedOnMore
  <2> QED BY <1>11, <2>2, <2>3
<1>20. Stack(es) /\ Reconstructs(es, ModelsOf(I), Mod)
  <2> DEFINE s == Pushed(p)
             t == Pushed(-p)
             X == ModelsOf(I)
             Y == Mod
  <2>1. Stack(s) /\ Stack(t) /\ Reconstructs(s, X1, Y) /\ Reconstructs(t, X, X1)
    BY <1>15, <1>18, <1>19
  <2> HIDE DEF s, t, X, Y
  <2>2. Stack(s \o t) /\ Reconstructs(s \o t, X, Y)
    BY <2>1, PushAll
  <2> QED BY <2>2 DEF s, t, X, Y
<1>21. EntriesFree(es) /\ \A B \in All : EntriesHold(es, B)
  <2> DEFINE s == Pushed(p)
             t == Pushed(-p)
  <2>1. \A B \in All : EntriesHold(s, B) /\ EntriesHold(t, B)
    <3> TAKE B \in All
    <3>1. Holds(Fp, B) /\ Holds(Fn, B)
      BY <1>11 DEF All, Holds, Database
    <3> QED BY <1>19, <3>1
  <2>2. Stack(s) /\ Stack(t) /\ EntriesFree(s) /\ EntriesFree(t)
    BY <1>19
  <2>3. EntriesFree(s \o t) /\ \A B \in All : EntriesHold(s \o t, B)
    <3> HIDE DEF s, t
    <3> QED BY <2>1, <2>2, FreeConcat
  <2> QED BY <2>3
<1> HIDE DEF es
<1>22. StepOK(es)
  BY <1>1, <1>10, <1>20, <1>21, PushStep
<1> QED BY <1>e, <1>22

\* Every step of variable elimination.
LEMMA EliminationOK ==
    ASSUME Open, Stack(extension), ElimOK, Eliminate, UNCHANGED frozen
    PROVE  (\E es : StepOK(es)) /\ (~unsat' => ElimOK')
<1>1. CASE find_gate_clauses
  BY <1>1, FindGateOK
<1>2. CASE resolve_clauses
  BY <1>2, ResolveOK
<1>3. CASE eliminate
  BY <1>3, EliminateOK DEF ElimOK
<1>4. CASE give_up
  <2>1. UNCHANGED clauseVars /\ UNCHANGED stackVars /\ eliminating'.round /\ ~Trying'
    BY <1>4, BetweenFacts DEF give_up
  <2> QED BY <2>1, QuietPlain, PlainStep DEF ElimOK
<1>5. CASE elim_backward_clause
  <2>1. UNCHANGED stackVars /\ ~Trying'
    BY <1>5, BetweenFacts DEF elim_backward_clause, stackVars
  <2>2. PlainOK
    BY <1>5, ElimBackwardOK
  <2> QED BY <2>1, <2>2, PlainStep DEF ElimOK
<1> QED BY <1>1, <1>2, <1>3, <1>4, <1>5 DEF Eliminate

\* The round ends: the redundant clauses without an eliminated variable are
\* connected again.
LEMMA EndRoundOK ==
    ASSUME Open, Stack(extension), end_elim_round
    PROVE  StepOK(<<>>) /\ ElimOK'
<1> DEFINE R == redundant \ mark_redundant_clauses_with_eliminated_variables_as_garbage
           I == irredundant
           K == {}
           m == Unmarked
<1>1. UpdateConnected(I, R, K, m) /\ UNCHANGED stackVars /\ ~Trying'
  BY BetweenFacts DEF end_elim_round, Update
<1>2. WithMarks(m) = status /\ DOMAIN m = {}
  BY UnmarkedStatus DEF Open
<1>3. ASSUME NEW c \in I \cup R
      PROVE  Clause(c) /\ \A lit \in c : WithMarks(m)[vidx(lit)] \in {"active", "fixed"}
  <2>1. Clause(c)
    BY OpenFacts
  <2>2. CASE c \in I
    BY <1>2, <2>1, <2>2, OpenFacts DEF ActiveClause
  <2>3. CASE c \in R
    <3>1. \A lit \in c : status[vidx(lit)] \in {"active", "fixed", "eliminated"}
      BY <2>3 DEF Open, FixedRight, Unconnected
    <3>2. \A lit \in c : status[vidx(lit)] # "eliminated"
      BY <2>3 DEF mark_redundant_clauses_with_eliminated_variables_as_garbage
    <3> QED BY <1>2, <2>1, <3>1, <3>2
  <2> QED BY <2>1, <2>2, <2>3
<1>4. \A B \in All : Holds(I, B) /\ Holds(R, B) /\ Holds(K, B)
  BY DEF All, Holds, Database
<1>5. /\ \A c \in K : Clause(c) /\ Cardinality(c) > 1
      /\ K # {} => eliminating'.round
      /\ \A c \in K : \A lit \in c : WithMarks(m)[vidx(lit)] \in {"active", "fixed", "eliminated"}
      /\ \A v \in DOMAIN m : m[v] \in {"active"} \cup Gone /\ v \notin frozen
  BY <1>2
<1> HIDE DEF R, K, m
<1>6. /\ Preserved /\ Follows
      /\ ~unsat' => \A B \in Total : Holds(irredundant', B) /\ root' \subseteq B
                       => Holds(I, B) /\ root \subseteq B
  <2> HIDE DEF I
  <2> QED BY <1>1, <1>3, <1>4, <1>5, ConnectedUpdate
<1>7. PlainOK
  BY <1>6 DEF PlainOK, Mod
<1> QED BY <1>1, <1>7, PlainStep DEF ElimOK

\* Idle, the solver neither tries a variable nor is in a round.
LEMMA IdleFacts ==
    /\ Idle => ~Trying /\ ~eliminating.round
    /\ Idle' => ~Trying' /\ ~eliminating'.round
BY BetweenFacts DEF Idle, Trying

\* Every technique keeps the database in order, and what it removes can be
\* reconstructed.
LEMMA InprocessOK ==
    ASSUME Open, Stack(extension), ElimOK, Inprocess
    PROVE  (\E es : StepOK(es)) /\ (~unsat' => ElimOK')
<1>1. UNCHANGED frozen
  BY DEF Inprocess
<1>2. CASE Idle /\ Plain /\ UNCHANGED <<stackVars, eliminating>>
  <2>1. UNCHANGED stackVars /\ ~Trying' /\ Ready
    BY <1>2, IdleFacts DEF Idle, Ready
  <2>2. PlainOK
    BY <1>2, <2>1, PlainTechniques
  <2> QED BY <2>1, <2>2, PlainStep DEF ElimOK
<1>3. CASE Idle /\ Pushing /\ UNCHANGED eliminating
  <2>1. ~Trying' /\ Ready
    BY <1>3, IdleFacts DEF Idle, Ready
  <2>2. \E es : StepOK(es)
    BY <1>3, <2>1, BlockOK, CoverOK, ConditionOK, DecomposeOK DEF Pushing
  <2> QED BY <2>1, <2>2 DEF ElimOK
<1>4. CASE Eliminate
  BY <1>1, <1>4, EliminationOK
<1>5. CASE instantiate_candidate
  <2>1. UNCHANGED stackVars /\ ~Trying' /\ Ready
    BY <1>5, IdleFacts DEF instantiate_candidate, Idle, Ready, stackVars
  <2>2. PlainOK
    BY <1>5, <2>1, InstantiateOK
  <2> QED BY <2>1, <2>2, PlainStep DEF ElimOK
<1> QED BY <1>2, <1>3, <1>4, <1>5 DEF Inprocess

\* A step of the search.
LEMMA LearnStepOK ==
    ASSUME Open, Stack(extension), Learn
    PROVE  (\E es : StepOK(es)) /\ ElimOK'
<1>1. UNCHANGED stackVars /\ ~Trying' /\ Ready
  BY IdleFacts DEF Learn, Idle, Ready
<1>2. PlainOK
  BY <1>1, LearnOK
<1> QED BY <1>1, <1>2, PlainStep DEF ElimOK

------------------------------------------------------------------------------
(***************************************************************************)
(* The invariant of the clauses, and what comes in through the interface.  *)
(***************************************************************************)
\* The database, between any two steps.
DatabaseInv ==
    /\ DatabaseOK /\ frozen \in SUBSET Vars
    /\ ~unsat => FixedRight /\ \A v \in frozen : status[v] \notin Gone

\* Internalizing activates the variables that are not fixed.
LEMMA InternalizedFacts ==
    ASSUME NEW lits
    PROVE  /\ DOMAIN Internalized(lits) = {v \in Vars : {v, -v} \cap lits # {} /\ status[v] # "fixed"}
           /\ \A v \in DOMAIN Internalized(lits) : Internalized(lits)[v] = "active" /\ v \in Vars
           /\ DatabaseOK => \A v \in Vars :
                 WithMarks(Internalized(lits))[v] =
                    IF {v, -v} \cap lits # {} /\ status[v] # "fixed" THEN "active" ELSE status[v]
<1> DEFINE M == {v \in Vars : {v, -v} \cap lits # {} /\ status[v] # "fixed"}
<1>1. DOMAIN Internalized(lits) = M /\ \A v \in M : Internalized(lits)[v] = "active" /\ v \in Vars
  BY DEF Internalized, Marked
<1>2. ASSUME DatabaseOK, NEW v \in Vars
      PROVE  WithMarks(Internalized(lits))[v] = IF v \in M THEN "active" ELSE status[v]
  <2>1. DOMAIN status = Vars
    BY <1>2 DEF DatabaseOK
  <2> HIDE DEF M
  <2> QED BY <1>1, <2>1, MergedAt
<1> QED BY <1>1, <1>2

\* The clause that is added says the same as the original one, given the
\* root level.
LEMMA OriginalClauses ==
    ASSUME DatabaseOK, NEW c \in SUBSET Lits
    PROVE  LET kept == IF Tautological(c) THEN {} ELSE Flushed({c}, root) IN
           /\ \A d \in kept : Clause(d) /\ d \subseteq c /\ \A lit \in d : lit \notin root /\ -lit \notin root
           /\ \A B \in Total : root \subseteq B => (Holds(kept, B) <=> Satisfied(c, B))
<1> DEFINE kept == IF Tautological(c) THEN {} ELSE Flushed({c}, root)
<1>0. root \in SUBSET Lits
  BY DEF DatabaseOK, Lits
<1>1. CASE Tautological(c)
  <2>1. PICK k \in c : -k \in c
    BY <1>1 DEF Tautological
  <2>2. \A B \in Total : Satisfied(c, B)
    <3> TAKE B \in Total
    <3>1. k \in B \/ -k \in B
      BY <2>1, TotalFacts
    <3> QED BY <2>1, <3>1 DEF Satisfied
  <2> QED BY <1>1, <2>2 DEF Holds
<1>2. CASE ~Tautological(c)
  <2>1. kept = Flushed({c}, root)
    BY <1>2
  <2>2. ASSUME NEW d \in kept
        PROVE  Clause(d) /\ d \subseteq c /\ \A lit \in d : lit \notin root /\ -lit \notin root
    <3>1. ~Satisfied(c, root) /\ d = c \ Negated(root)
      BY <2>1, FlushedMember
    <3>2. \A lit \in d : lit \notin root /\ -lit \notin root
      BY <1>0, <3>1, NegatedLits DEF Satisfied
    <3> QED BY <1>2, <3>1, <3>2 DEF Clause, Tautological
  <2>3. ASSUME NEW B \in Total, root \subseteq B PROVE Holds(kept, B) <=> Satisfied(c, B)
    <3> DEFINE F == {c}
    <3>1. F \in SUBSET SUBSET Lits /\ kept = Flushed(F, root) /\ (Holds(F, B) <=> Satisfied(c, B))
      BY <2>1 DEF Holds
    <3> HIDE DEF F, kept
    <3> QED BY <1>0, <2>3, <3>1, FlushedHolds
  <2> QED BY <2>2, <2>3
<1> QED BY <1>1, <1>2

\* A clause that is added or restored: its variables are active again.
LEMMA AddOriginalOK ==
    ASSUME DatabaseInv, ~eliminating.round,
           NEW c \in SUBSET Lits, add_original_clause(c), UNCHANGED frozen
    PROVE  /\ DatabaseInv'
           /\ ~unsat => \A B \in All : Satisfied(c, B) => ~unsat' /\ B \in All'
           /\ ~unsat' => ~unsat /\ \A B \in Mod' : B \in Mod /\ Satisfied(c, B)
<1> DEFINE kept == IF Tautological(c) THEN {} ELSE Flushed({c}, root)
           I == irredundant \cup kept
           R == redundant \ kept
           marked == Internalized(c)
<1>1. Update(I, R, marked)
  BY DEF add_original_clause
<1>2. /\ \A d \in kept : Clause(d) /\ d \subseteq c /\ \A lit \in d : lit \notin root /\ -lit \notin root
      /\ \A B \in Total : root \subseteq B => (Holds(kept, B) <=> Satisfied(c, B))
  BY OriginalClauses DEF DatabaseInv
<1> HIDE DEF kept
<1>3. \A d \in Database : Clause(d)
  BY DEF DatabaseInv, DatabaseOK, Clause, Lits
<1>4. \A d \in I \cup R : Clause(d)
  BY <1>2, <1>3 DEF Database
<1>5. /\ \A v \in DOMAIN marked : marked[v] \in {"active"} \cup Gone
      /\ \A v \in Vars : WithMarks(marked)[v] =
            IF {v, -v} \cap c # {} /\ status[v] # "fixed" THEN "active" ELSE status[v]
  BY InternalizedFacts DEF DatabaseInv
<1>6. ~unsat => \A d \in I \cup R : \A lit \in d : WithMarks(marked)[vidx(lit)] = "active"
  <2> HAVE ~unsat
  <2> TAKE d \in I \cup R
  <2> TAKE lit \in d
  <2>1. lit \in Lits /\ vidx(lit) \in Vars /\ (lit = vidx(lit) \/ lit = -vidx(lit)) /\ -(-lit) = lit
    BY <1>4, LitFacts DEF Clause
  <2>2. CASE d \in kept
    <3>1. lit \in c /\ lit \notin root /\ -lit \notin root
      BY <1>2, <2>2
    <3>2. {vidx(lit), -vidx(lit)} \cap root = {}
      <4>1. -vidx(lit) = IF lit = vidx(lit) THEN -lit ELSE lit
        BY <2>1
      <4>2. vidx(lit) = lit \/ vidx(lit) = -lit
        <5>1. -(-vidx(lit)) = vidx(lit)
          BY <2>1, LitFacts
        <5> QED BY <2>1, <5>1
      <4> QED BY <3>1, <4>1, <4>2
    <3>3. status[vidx(lit)] # "fixed"
      BY <2>1, <3>2 DEF DatabaseInv, FixedRight
    <3>4. {vidx(lit), -vidx(lit)} \cap c # {}
      BY <2>1, <3>1
    <3> QED BY <1>5, <2>1, <3>3, <3>4
  <2>3. CASE d \notin kept
    <3>1. d \in Database
      BY <2>3 DEF Database
    <3>2. status[vidx(lit)] = "active"
      BY <3>1 DEF Database, DatabaseInv, FixedRight, Unconnected
    <3> QED BY <1>5, <2>1, <3>2
  <2> QED BY <2>2, <2>3
<1>7. I \in SUBSET SUBSET Lits /\ R \in SUBSET SUBSET Lits /\ root \in SUBSET Lits
  BY <1>4 DEF Clause, DatabaseInv, DatabaseOK, Lits
<1> HIDE DEF I, R, marked
<1>9. DatabaseOK' /\ (~unsat' => FixedRight')
  BY <1>1, <1>4, <1>5, <1>6, UpdateKeeps DEF DatabaseInv
<1>10. ASSUME ~unsat' PROVE ~unsat /\ \A B \in Mod' : B \in Mod /\ Satisfied(c, B)
  <2>1. /\ ~unsat
        /\ \A B \in Total : Holds(irredundant', B) /\ root' \subseteq B
              => Holds(I, B) /\ root \subseteq B
    BY <1>1, <1>7, <1>10, UpdateBack
  <2>2. ASSUME NEW B \in Mod' PROVE B \in Mod /\ Satisfied(c, B)
    <3>1. B \in Total /\ Holds(irredundant', B) /\ root' \subseteq B
      BY DEF Mod
    <3>2. Holds(I, B) /\ root \subseteq B
      BY <2>1, <3>1
    <3>3. Holds(irredundant, B) /\ Holds(kept, B)
      BY <3>2 DEF Holds, I
    <3> QED BY <1>2, <3>1, <3>2, <3>3 DEF Mod
  <2> QED BY <2>1, <2>2
<1>11. ASSUME ~unsat, NEW B \in All, Satisfied(c, B) PROVE ~unsat' /\ B \in All'
  <2>1. B \in Total /\ Holds(irredundant, B) /\ Holds(redundant, B) /\ root \subseteq B
    BY DEF All, Holds, Database
  <2>2. Holds(kept, B)
    BY <1>2, <1>11, <2>1
  <2>3. Holds(I, B) /\ Holds(R, B)
    BY <2>1, <2>2 DEF Holds, I, R
  <2>4. Holds(irredundant', B) /\ Holds(redundant', B) /\ root' \subseteq B /\ unsat' = unsat
    BY <1>1, <1>7, <2>1, <2>3, UpdateForth
  <2> QED BY <1>11, <2>1, <2>4 DEF All, Holds, Database
<1>12. ASSUME ~unsat' PROVE \A v \in frozen' : status'[v] \notin Gone
  <2>1. ~unsat
    BY <1>10, <1>12
  <2>2. status' = [v \in Vars |-> IF {v, -v} \cap root' # {} THEN "fixed" ELSE WithMarks(marked)[v]]
    BY <1>1, <1>12, UpdateCases
  <2> TAKE v \in frozen'
  <2>3. v \in frozen /\ v \in Vars /\ status[v] \notin Gone
    BY <2>1 DEF DatabaseInv
  <2> QED BY <1>5, <2>2, <2>3 DEF Gone
<1>13. frozen' \in SUBSET Vars
  BY DEF DatabaseInv
<1> QED BY <1>9, <1>10, <1>11, <1>12, <1>13 DEF DatabaseInv

\* The variables of a call become active, which disturbs no clause.
LEMMA BeginCallDatabase ==
    ASSUME DatabaseInv, NEW lits, status' = WithMarks(Internalized(lits)),
           UNCHANGED <<irredundant, redundant, root, unsat>>, ~eliminating.round,
           frozen' \in SUBSET Vars, \A v \in frozen' : {v, -v} \cap lits # {}
    PROVE  DatabaseInv' /\ Mod' = Mod /\ All' = All
<1>1. \A v \in Vars : WithMarks(Internalized(lits))[v] =
         IF {v, -v} \cap lits # {} /\ status[v] # "fixed" THEN "active" ELSE status[v]
  BY InternalizedFacts DEF DatabaseInv
<1>2. \A v \in Vars : status'[v] = IF {v, -v} \cap lits # {} /\ status[v] # "fixed" THEN "active" ELSE status[v]
  BY <1>1
<1>3. status' \in [Vars -> {"unused", "active", "fixed"} \cup Gone]
  <2>1. \A v \in Vars : status'[v] \in {"unused", "active", "fixed"} \cup Gone
    BY <1>2 DEF DatabaseInv, DatabaseOK
  <2>2. status' = [v \in Vars |-> status'[v]]
    BY DEF WithMarks
  <2> QED BY <2>1, <2>2
<1>4. DatabaseOK'
  BY <1>3 DEF DatabaseInv, DatabaseOK, Database, Gone
<1>5. ASSUME ~unsat PROVE FixedRight' /\ \A v \in frozen' : status'[v] \notin Gone
  <2>1. \A c \in Database : \A lit \in c : status[vidx(lit)] = "active" /\ vidx(lit) \in Vars
    <3> TAKE c \in Database
    <3> TAKE lit \in c
    <3>1. lit \in Lits
      BY DEF DatabaseInv, DatabaseOK, Lits
    <3>2. status[vidx(lit)] = "active"
      BY <1>5 DEF Database, DatabaseInv, FixedRight, Unconnected
    <3> QED BY <3>1, <3>2, LitFacts
  <2>2. \A c \in Database' : \A lit \in c : status'[vidx(lit)] = "active"
    BY <1>2, <2>1 DEF Database
  <2>3. \A v \in Vars : status'[v] = "fixed" <=> {v, -v} \cap root' # {}
    BY <1>2, <1>5 DEF DatabaseInv, FixedRight
  <2>4. \A v \in frozen' : status'[v] \notin Gone
    <3> TAKE v \in frozen'
    <3>1. status'[v] = "active" \/ status'[v] = "fixed"
      BY <1>2
    <3> QED BY <3>1 DEF Gone
  <2> QED BY <2>2, <2>3, <2>4 DEF FixedRight, Database
<1>6. Mod' = Mod /\ All' = All
  BY DEF Mod, All, Database
<1> QED BY <1>4, <1>5, <1>6 DEF DatabaseInv

------------------------------------------------------------------------------
(***************************************************************************)
(* The invariant of the extension stack, and what restoring does to it.    *)
(***************************************************************************)
\* The models of all clauses ever added.
FormulaModels == {B \in Total : Holds(formula, B)}

\* Witnesses satisfy their clauses, and their bits are set.
StackInv ==
    /\ Stack(extension) /\ witness \in SUBSET Lits /\ tainted \in SUBSET Lits
    /\ \A i \in 1..Len(extension) : extension[i].witness \subseteq witness

\* Models are reconstructed, from any part of the stack that is closed.
ExtensionInv ==
    ~unsat => ReconstructsUntainted(extension, Mod, FormulaModels, cursor, tainted)

\* An entry that spares the literals tainted by a clause spares the clause.
LEMMA TaintsSpare ==
    ASSUME NEW e, Entry(e), witness \in SUBSET Lits, e.witness \subseteq witness,
           NEW c \in SUBSET Lits, NEW taints, Taints(c) \subseteq taints, Spares(e, taints)
    PROVE  Spares(e, c)
<1>1. ASSUME NEW k \in Negated(e.witness), k \in c PROVE FALSE
  <2>1. e.witness \in SUBSET Lits
    BY DEF Entry, Entries
  <2>2. k \in Lits /\ -k \in e.witness
    BY <1>1, <2>1, NegatedLits
  <2>3. k \in Taints(c)
    BY <1>1, <2>2 DEF Taints
  <2> QED BY <2>3 DEF Spares
<1> QED BY <1>1 DEF Spares

\* More tainted literals, or a smaller cursor, exclude more runs.
LEMMA UntaintedMonotonic ==
    ASSUME NEW ext, NEW X, NEW Y, NEW from, NEW taints, ReconstructsUntainted(ext, X, Y, from, taints),
           NEW X2 \in SUBSET X, NEW from2, NEW taints2, taints \subseteq taints2,
           \A j \in 1..Len(ext) : j >= from => j >= from2
    PROVE  ReconstructsUntainted(ext, X2, Y, from2, taints2)
<1> SUFFICES ASSUME NEW K, NEW C, Runs(ext, K, C), Closed(ext, K), C[Len(ext)] \in X2,
                    Kept(ext, K, C[Len(ext)]), Untainted(ext, K, from2, taints2)
             PROVE  C[0] \in Y
  BY DEF ReconstructsUntainted
<1>1. Untainted(ext, K, from, taints)
  <2>1. K \in SUBSET (1..Len(ext))
    BY DEF Closed
  <2> QED BY <2>1 DEF Untainted, Spares
<1> QED BY <1>1 DEF ReconstructsUntainted

\* Without tainted literals every run counts.
LEMMA UntaintedAll ==
    ASSUME NEW ext, NEW X, NEW Y, NEW from
    PROVE  ReconstructsUntainted(ext, X, Y, from, {}) <=> Reconstructs(ext, X, Y)
<1>1. \A K : Untainted(ext, K, from, {})
  BY DEF Untainted, Spares
<1> QED BY <1>1 DEF ReconstructsUntainted, Reconstructs

\* A new clause taints the literals that an entry could falsify in it.
LEMMA AddUntainted ==
    ASSUME StackInv, NEW X, NEW Y, NEW from, \A j \in 1..Len(extension) : j >= from,
           ReconstructsUntainted(extension, X, Y, from, tainted),
           NEW c \in SUBSET Lits, NEW X2, \A B \in X2 : B \in X /\ Satisfied(c, B)
    PROVE  ReconstructsUntainted(extension, X2, {B \in Y : Satisfied(c, B)}, from, tainted \cup Taints(c))
<1> DEFINE taints == tainted \cup Taints(c)
<1> SUFFICES ASSUME NEW K, NEW C, Runs(extension, K, C), Closed(extension, K), C[Len(extension)] \in X2,
                    Kept(extension, K, C[Len(extension)]), Untainted(extension, K, from, taints)
             PROVE  C[0] \in Y /\ Satisfied(c, C[0])
  BY DEF ReconstructsUntainted
<1>1. K \in SUBSET (1..Len(extension))
  BY DEF Closed
<1>2. Untainted(extension, K, from, tainted)
  BY DEF Untainted, Spares
<1>3. C[0] \in Y
  BY <1>2 DEF ReconstructsUntainted
<1>4. ASSUME NEW j \in K PROVE Spares(extension[j], c)
  <2>1. Entry(extension[j]) /\ extension[j].witness \subseteq witness /\ witness \in SUBSET Lits
    BY <1>1 DEF StackInv, Stack
  <2>2. Spares(extension[j], taints)
    BY <1>1 DEF Untainted
  <2> QED BY <2>1, <2>2, TaintsSpare
<1>5. Stack(extension) /\ Len(extension) \in Nat
  BY DEF StackInv, Stack
<1>6. Satisfied(c, C[Len(extension)])
  OBVIOUS
<1>7. \A i \in 0..Len(extension) : Satisfied(c, C[i])
  BY <1>4, <1>5, <1>6, RunSpares
<1> QED BY <1>3, <1>5, <1>7

\* An entry that spares the tainted literals is passed.
LEMMA AdvanceUntainted ==
    ASSUME NEW ext, NEW X, NEW Y, NEW from \in Nat, NEW taints,
           ReconstructsUntainted(ext, X, Y, from, taints), Spares(ext[from], taints)
    PROVE  ReconstructsUntainted(ext, X, Y, from + 1, taints)
<1> SUFFICES ASSUME NEW K, NEW C, Runs(ext, K, C), Closed(ext, K), C[Len(ext)] \in X,
                    Kept(ext, K, C[Len(ext)]), Untainted(ext, K, from + 1, taints)
             PROVE  C[0] \in Y
  BY DEF ReconstructsUntainted
<1>1. Untainted(ext, K, from, taints)
  <2>1. ASSUME NEW j \in K, j >= from PROVE Spares(ext[j], taints)
    <3>1. j \in Int
      BY DEF Closed
    <3>2. CASE j = from
      BY <3>2
    <3>3. CASE j # from
      BY <2>1, <3>1, <3>3 DEF Untainted
    <3> QED BY <3>2, <3>3
  <2> QED BY <2>1 DEF Untainted
<1> QED BY <1>1 DEF ReconstructsUntainted

\* The stack without one entry.
LEMMA RemoveAtFacts ==
    ASSUME NEW ext \in Seq(Entries), NEW at \in 1..Len(ext)
    PROVE  LET rest == RemoveAt(ext, at) IN
           /\ rest \in Seq(Entries) /\ Len(rest) = Len(ext) - 1
           /\ \A i \in 1..(Len(ext) - 1) : rest[i] = IF i < at THEN ext[i] ELSE ext[i + 1]
<1> DEFINE n == Len(ext)
           s == SubSeq(ext, 1, at - 1)
           t == SubSeq(ext, at + 1, n)
<1>1. n \in Nat /\ at \in 1..n
  OBVIOUS
<1>2. /\ s \in Seq(Entries) /\ Len(s) = at - 1 /\ \A i \in 1..(at - 1) : s[i] = ext[i]
  OBVIOUS
<1>3. /\ t \in Seq(Entries) /\ Len(t) = n - at /\ \A i \in 1..(n - at) : t[i] = ext[i + at]
  OBVIOUS
<1>4. RemoveAt(ext, at) = s \o t
  BY DEF RemoveAt
<1> HIDE DEF s, t
<1>5. s \o t \in Seq(Entries) /\ Len(s \o t) = n - 1
  <2>1. s \in Seq(Entries) /\ t \in Seq(Entries)
    BY <1>2, <1>3
  <2>2. s \o t \in Seq(Entries)
    BY <2>1, ConcatProperties
  <2>3. Len(s \o t) = Len(s) + Len(t)
    BY <2>1, ConcatProperties
  <2> QED BY <1>1, <1>2, <1>3, <2>2, <2>3
<1>6. ASSUME NEW i \in 1..(n - 1) PROVE (s \o t)[i] = IF i < at THEN ext[i] ELSE ext[i + 1]
  <2>1. CASE i < at
    <3>1. (s \o t)[i] = s[i]
      BY <1>1, <1>2, <1>3, <2>1
    <3> QED BY <1>2, <2>1, <3>1
  <2>2. CASE ~(i < at)
    <3>1. (s \o t)[i] = t[i - (at - 1)]
      BY <1>1, <1>2, <1>3, <2>2
    <3>2. i - (at - 1) \in 1..(n - at) /\ (i - (at - 1)) + at = i + 1
      BY <1>1, <2>2
    <3> QED BY <1>3, <2>2, <3>1, <3>2
  <2> QED BY <2>1, <2>2
<1> QED BY <1>4, <1>5, <1>6

\* A clause is restored: a run over the remaining entries is a run over all
\* that leaves its entry out.
LEMMA RestoreUntainted ==
    ASSUME StackInv, NEW X, NEW Y, NEW from \in 1..Len(extension),
           ReconstructsUntainted(extension, X, Y, from, tainted),
           NEW X2, \A B \in X2 : B \in X /\ Satisfied(extension[from].clause, B)
    PROVE  ReconstructsUntainted(RemoveAt(extension, from), X2, Y, from,
                                 tainted \cup Taints(extension[from].clause))
<1> DEFINE ext == extension
           n == Len(extension)
           rest == RemoveAt(extension, from)
           c == extension[from].clause
           taints == tainted \cup Taints(c)
<1> SUFFICES ASSUME NEW K, NEW C, Runs(rest, K, C), Closed(rest, K), C[Len(rest)] \in X2,
                    Kept(rest, K, C[Len(rest)]), Untainted(rest, K, from, taints)
             PROVE  C[0] \in Y
  BY DEF ReconstructsUntainted
<1>1. /\ n \in Nat /\ from \in 1..n /\ ext \in Seq(Entries) /\ \A i \in 1..n : Entry(ext[i])
      /\ Len(rest) = n - 1 /\ rest \in Seq(Entries)
      /\ \A i \in 1..(n - 1) : rest[i] = IF i < from THEN ext[i] ELSE ext[i + 1]
  <2>1. n \in Nat /\ from \in 1..n /\ ext \in Seq(Entries) /\ \A i \in 1..n : Entry(ext[i])
    BY DEF StackInv, Stack
  <2> QED BY <2>1, RemoveAtFacts
<1> DEFINE skip(i) == IF i < from THEN i ELSE i - 1
           L == {i \in 1..n : i # from /\ skip(i) \in K}
           D == [i \in 0..n |-> C[IF i < from THEN i ELSE i - 1]]
<1> HIDE DEF rest, n, ext, taints
<1>2. /\ C \in [0..(n - 1) -> Total]
      /\ \A i \in 1..(n - 1) : C[i - 1] = IF i \in K THEN Flipped(rest[i], C[i]) ELSE C[i]
  BY <1>1 DEF Runs
<1>3. \A i \in 1..n : i # from => skip(i) \in 1..(n - 1) /\ rest[skip(i)] = ext[i]
  <2> TAKE i \in 1..n
  <2> HAVE i # from
  <2>1. CASE i < from
    BY <1>1, <2>1
  <2>2. CASE i > from
    <3>1. i - 1 \in 1..(n - 1) /\ ~(i - 1 < from) /\ (i - 1) + 1 = i
      BY <1>1, <2>2
    <3> QED BY <1>1, <2>2, <3>1
  <2> QED BY <1>1, <2>1, <2>2
<1>4. Runs(ext, L, D)
  <2>1. D \in [0..n -> Total]
    <3>1. \A i \in 0..n : (IF i < from THEN i ELSE i - 1) \in 0..(n - 1)
      BY <1>1
    <3> QED BY <1>2, <3>1
  <2>2. ASSUME NEW i \in 1..n PROVE D[i - 1] = IF i \in L THEN Flipped(ext[i], D[i]) ELSE D[i]
    <3>0. i \in 0..n /\ i - 1 \in 0..n
      BY <1>1
    <3>1. CASE i < from
      <4>1. D[i - 1] = C[i - 1] /\ D[i] = C[i] /\ i \in 1..(n - 1) /\ (i \in L <=> i \in K) /\ rest[i] = ext[i]
        BY <1>1, <3>0, <3>1
      <4> QED BY <1>2, <4>1
    <3>2. CASE i = from
      <4>1. D[i - 1] = C[i - 1] /\ D[i] = C[i - 1] /\ i \notin L
        BY <1>1, <3>0, <3>2
      <4> QED BY <4>1
    <3>3. CASE i > from
      <4>1. D[i - 1] = C[i - 1 - 1] /\ D[i] = C[i - 1]
        BY <1>1, <3>0, <3>3
      <4>2. i - 1 \in 1..(n - 1) /\ rest[i - 1] = ext[i] /\ (i \in L <=> i - 1 \in K)
        BY <1>1, <1>3, <3>3
      <4>3. C[(i - 1) - 1] = IF i - 1 \in K THEN Flipped(rest[i - 1], C[i - 1]) ELSE C[i - 1]
        BY <1>2, <4>2
      <4> HIDE DEF L, D
      <4> QED BY <4>1, <4>2, <4>3
    <3> QED BY <1>1, <3>1, <3>2, <3>3
  <2> HIDE DEF L, D
  <2> QED BY <2>1, <2>2 DEF Runs, n, ext
<1>5. D[n] = C[n - 1] /\ D[0] = C[0]
  BY <1>1
<1>6. C[n - 1] \in X2 /\ Kept(rest, K, C[n - 1])
  BY <1>1
<1>7. ASSUME NEW j \in L, NEW i \in 1..n, i \notin L, i < j PROVE Spares(ext[j], ext[i].clause)
  <2>0. j \in 1..n /\ j # from /\ skip(j) \in K /\ skip(j) \in 1..(n - 1) /\ rest[skip(j)] = ext[j]
    BY <1>3
  <2>1. CASE i # from
    <3>1. skip(i) \in 1..(n - 1) /\ rest[skip(i)] = ext[i] /\ skip(i) \notin K
      BY <1>3, <1>7, <2>1
    <3>2. skip(i) < skip(j)
      BY <1>1, <1>7, <2>0, <2>1
    <3>3. \A k \in K, m \in 1..(n - 1) : m \notin K /\ m < k => Spares(rest[k], rest[m].clause)
      BY <1>1 DEF Closed
    <3> HIDE DEF skip
    <3> QED BY <2>0, <3>1, <3>2, <3>3
  <2>2. CASE i = from
    <3>1. skip(j) >= from
      BY <1>1, <1>7, <2>0, <2>2
    <3>2. Spares(rest[skip(j)], taints)
      <4> HIDE DEF skip
      <4> QED BY <2>0, <3>1 DEF Untainted
    <3>3. Entry(ext[j]) /\ ext[j].witness \subseteq witness /\ witness \in SUBSET Lits
      BY <1>1, <2>0 DEF StackInv, ext, n
    <3>4. c \in SUBSET Lits
      BY <1>1 DEF Entry, Entries, ext
    <3>5. Taints(c) \subseteq taints /\ Spares(ext[j], taints)
      <4> HIDE DEF skip
      <4> QED BY <2>0, <3>2 DEF taints
    <3>6. Spares(ext[j], c)
      <4> HIDE DEF c
      <4> QED BY <3>3, <3>4, <3>5, TaintsSpare
    <3> QED BY <2>2, <3>6 DEF ext
  <2> QED BY <2>1, <2>2
<1>8. Closed(ext, L)
  <2>1. L \in SUBSET (1..n)
    OBVIOUS
  <2> HIDE DEF L
  <2> QED BY <1>7, <2>1 DEF Closed, n, ext
<1>9. D[n] \in X /\ Satisfied(c, D[n])
  BY <1>5, <1>6
<1>10. Kept(ext, L, D[n])
  <2>1. ASSUME NEW i \in 1..n, i \notin L PROVE Satisfied(ext[i].clause, D[n])
    <3>1. CASE i = from
      BY <1>9, <3>1 DEF ext
    <3>2. CASE i # from
      <4>1. skip(i) \in 1..(n - 1) /\ rest[skip(i)] = ext[i] /\ skip(i) \notin K
        BY <1>3, <2>1, <3>2
      <4>2. \A k \in 1..(n - 1) : k \notin K => Satisfied(rest[k].clause, C[n - 1])
        BY <1>1, <1>6 DEF Kept
      <4> HIDE DEF skip
      <4> QED BY <1>5, <4>1, <4>2
    <3> QED BY <3>1, <3>2
  <2> HIDE DEF L, D
  <2> QED BY <2>1 DEF Kept, n, ext
<1>11. Untainted(ext, L, from, tainted)
  <2>1. ASSUME NEW j \in L, j >= from PROVE Spares(ext[j], tainted)
    <3>0. j \in 1..n /\ j # from /\ skip(j) \in K /\ rest[skip(j)] = ext[j]
      BY <1>3
    <3>1. skip(j) >= from
      BY <1>1, <2>1, <3>0
    <3>2. Spares(rest[skip(j)], taints)
      <4> HIDE DEF skip
      <4> QED BY <3>0, <3>1 DEF Untainted
    <3> HIDE DEF skip
    <3> QED BY <3>0, <3>2 DEF Spares, taints
  <2> HIDE DEF L
  <2> QED BY <2>1 DEF Untainted
<1> HIDE DEF L, D
<1>12. D[0] \in Y
  BY <1>4, <1>8, <1>9, <1>10, <1>11 DEF ReconstructsUntainted, n, ext
<1> QED BY <1>5, <1>12

\* extend runs over all entries.
Backward(ext) ==
    [s \in (0..Len(ext)) \X Total |->
        IF s[1] = 0 THEN s ELSE <<s[1] - 1, Flipped(ext[s[1]], s[2])>>]

\* From every assignment there is a run down the stack.
LEMMA RunsExist ==
    ASSUME NEW ext, Stack(ext), NEW A \in Total
    PROVE  \E C : Runs(ext, 1..Len(ext), C) /\ C[Len(ext)] = A
<1> DEFINE n == Len(ext)
           T == (0..n) \X Total
           step == Backward(ext)
<1>1. n \in Nat /\ \A i \in 1..n : Entry(ext[i])
  BY DEF Stack
<1>2. step \in [T -> T]
  <2>1. ASSUME NEW s \in T PROVE (IF s[1] = 0 THEN s ELSE <<s[1] - 1, Flipped(ext[s[1]], s[2])>>) \in T
    <3>1. CASE s[1] = 0
      BY <3>1
    <3>2. CASE s[1] # 0
      <4>1. s[1] \in 1..n /\ s[1] - 1 \in 0..n /\ s[2] \in Total
        BY <1>1, <3>2
      <4>2. Flipped(ext[s[1]], s[2]) \in Total
        BY <1>1, <4>1, FlippedFacts
      <4> QED BY <3>2, <4>1, <4>2
    <3> QED BY <3>1, <3>2
  <2> QED BY <2>1 DEF Backward
<1>3. <<n, A>> \in T
  BY <1>1
<1>4. PICK D \in [0..n -> T] : Iterates(step, <<n, A>>, n, D)
  <2> HIDE DEF T, step
  <2> QED BY <1>1, <1>2, <1>3, IteratesExist
<1>5. D[0] = <<n, A>> /\ \A i \in 1..n : D[i] = step[D[i - 1]]
  BY <1>4 DEF Iterates
<1>6. \A i \in 0..n : D[i][1] = n - i
  <2> DEFINE P == {i \in 0..n : D[i][1] = n - i}
  <2>1. 0 \in P
    BY <1>1, <1>5
  <2>2. ASSUME NEW i \in 0..(n - 1), i \in P PROVE i + 1 \in P
    <3>1. i + 1 \in 1..n /\ i + 1 \in 0..n /\ (i + 1) - 1 = i
      BY <1>1
    <3>2. D[i + 1] = step[D[i]] /\ D[i] \in T /\ D[i][1] = n - i /\ n - i # 0
      BY <1>1, <1>5, <2>2, <3>1, SMTT(30)
    <3>3. D[i + 1][1] = n - i - 1
      BY <3>2 DEF Backward
    <3> QED BY <1>1, <3>1, <3>3
  <2> HIDE DEF P
  <2>3. \A i \in 0..n : i \in P
    BY <1>1, <2>1, <2>2, UpTo
  <2> QED BY <2>3 DEF P
<1> DEFINE C == [i \in 0..n |-> D[n - i][2]]
<1>7. C \in [0..n -> Total]
  <2>1. \A i \in 0..n : n - i \in 0..n
    BY <1>1
  <2> QED BY <2>1
<1>8. ASSUME NEW i \in 1..n PROVE C[i - 1] = Flipped(ext[i], C[i])
  <2>1. i - 1 \in 0..n /\ i \in 0..n /\ n - (i - 1) \in 1..n /\ (n - (i - 1)) - 1 = n - i
        /\ n - i \in 0..n /\ n - (n - i) = i /\ i # 0
    BY <1>1
  <2>2. D[n - (i - 1)] = step[D[n - i]] /\ D[n - i] \in T /\ D[n - i][1] = i
    BY <1>5, <1>6, <2>1
  <2>3. D[n - (i - 1)] = <<i - 1, Flipped(ext[i], D[n - i][2])>>
    BY <2>1, <2>2 DEF Backward
  <2> QED BY <2>1, <2>3
<1>9. C[n] = A
  BY <1>1, <1>5
<1> HIDE DEF C
<1>10. Runs(ext, 1..n, C)
  BY <1>7, <1>8 DEF Runs
<1> QED BY <1>9, <1>10

\* It ends in the extended assignment.
LEMMA ExtendRuns ==
    ASSUME Stack(extension), NEW A \in Total
    PROVE  \E C : /\ Runs(extension, 1..Len(extension), C)
                  /\ C[Len(extension)] = A /\ extend(A) = C[0]
<1> DEFINE n == Len(extension)
           F(B) == [i \in 0..n |-> IF i = n THEN A ELSE Flipped(extension[i + 1], B[i + 1])]
           D == CHOOSE B : B = F(B)
<1>1. n \in Nat /\ \A i \in 1..n : Entry(extension[i])
  BY DEF Stack
<1>2. PICK C : Runs(extension, 1..n, C) /\ C[n] = A
  BY RunsExist
<1>3. /\ C \in [0..n -> Total]
      /\ \A i \in 1..n : C[i - 1] = Flipped(extension[i], C[i])
  BY <1>2 DEF Runs
<1>4. C = F(C)
  <2>1. ASSUME NEW i \in 0..n PROVE C[i] = IF i = n THEN A ELSE Flipped(extension[i + 1], C[i + 1])
    <3>1. CASE i = n
      BY <1>2, <3>1
    <3>2. CASE i # n
      <4>1. i + 1 \in 1..n /\ (i + 1) - 1 = i
        BY <1>1, <3>2
      <4>2. C[(i + 1) - 1] = Flipped(extension[i + 1], C[i + 1])
        BY <1>3, <4>1
      <4> QED BY <3>2, <4>1, <4>2
    <3> QED BY <3>1, <3>2
  <2>2. C = [i \in 0..n |-> C[i]]
    BY <1>3
  <2> QED BY <2>1, <2>2
<1>5. D = F(D)
  <2> HIDE DEF F
  <2> QED BY <1>4
<1>6. extend(A) = D[0]
  BY DEF extend
<1>7. \A i \in 0..n : D[i] = IF i = n THEN A ELSE Flipped(extension[i + 1], D[i + 1])
  <2> HIDE DEF D
  <2> QED BY <1>5
<1> HIDE DEF D, F
<1>8. \A i \in 0..n : D[i] = C[i]
  <2> DEFINE P == {i \in 0..n : D[i] = C[i]}
  <2>1. n \in P
    BY <1>1, <1>2, <1>7
  <2>2. ASSUME NEW i \in 1..n, i \in P PROVE i - 1 \in P
    <3>1. i - 1 \in 0..n /\ (i - 1) + 1 = i /\ i - 1 # n
      BY <1>1
    <3>2. D[i - 1] = Flipped(extension[i], D[i])
      BY <1>7, <3>1
    <3> QED BY <1>3, <2>2, <3>1, <3>2
  <2> HIDE DEF P
  <2>3. \A i \in 0..n : i \in P
    BY <1>1, <2>1, <2>2, DownTo
  <2> QED BY <2>3 DEF P
<1>9. 0 \in 0..n
  BY <1>1
<1> QED BY <1>2, <1>6, <1>8, <1>9

------------------------------------------------------------------------------
(***************************************************************************)
(* The inductive invariant.                                                *)
(***************************************************************************)
Calls == [add : Seq(Seq(Literals(Vars))), assume : Seq(Literals(Vars)),
          freeze : SUBSET Vars, steps : Nat]

\* Where a call stands.
CallInv ==
    /\ pc \in {"idle", "add", "restore", "run"} /\ cursor \in Nat /\ steps \in Nat
    /\ plan \in Seq(Calls) /\ input \in Seq(Seq(Lits))
    /\ \A lit \in ToSet(assumptions) : lit \in Lits /\ vidx(lit) \in frozen
    /\ pc \in {"restore", "run"} => input = <<>>
    /\ pc = "idle" <=> result # Oracle!Running
    /\ pc # "idle" => failed = {}
    /\ IF pc = "restore" THEN cursor >= 1 ELSE cursor <= 1
    /\ pc = "run" => tainted = {}
    /\ pc # "run" => Idle

\* An entry that could falsify an assumption is still to be restored.
AssumptionsInv ==
    \A lit \in ToSet(assumptions), i \in 1..Len(extension) :
       -lit \in extension[i].witness =>
          pc = "idle" \/ (pc \in {"add", "restore"} /\ lit \in tainted /\ i >= cursor)

\* Models of the clauses added satisfy all clauses that there are or were.
SoundInv == \A B \in FormulaModels : ~unsat /\ B \in All /\ EntriesHold(extension, B)

\* The elimination under way can still be completed.
ElimInv == ~unsat => ElimOK

Inv ==
    /\ DatabaseInv /\ StackInv /\ ExtensionInv /\ SoundInv
    /\ CallInv /\ AssumptionsInv /\ ElimInv

\* Nothing changes for the clauses.
LEMMA QuietDatabase ==
    ASSUME DatabaseInv, UNCHANGED clauseVars, UNCHANGED frozen,
           ~unsat => eliminating' = eliminating
    PROVE  DatabaseInv' /\ Mod' = Mod /\ All' = All /\ unsat' = unsat
<1>1. irredundant' = irredundant /\ redundant' = redundant /\ root' = root /\ unsat' = unsat
      /\ status' = status /\ frozen' = frozen
  BY DEF clauseVars
<1>2. DatabaseInv'
  <2>1. DatabaseOK' /\ frozen' \in SUBSET Vars
    BY <1>1 DEF DatabaseInv, DatabaseOK, Database
  <2>2. ASSUME ~unsat' PROVE FixedRight' /\ \A v \in frozen' : status'[v] \notin Gone
    <3>1. Unconnected' = Unconnected /\ FixedRight
      BY <1>1, <2>2 DEF Unconnected, DatabaseInv
    <3> QED BY <1>1, <2>2, <3>1 DEF FixedRight, DatabaseInv
  <2> QED BY <2>1, <2>2 DEF DatabaseInv
<1>3. Mod' = Mod /\ All' = All
  BY <1>1 DEF Mod, All, Database
<1> QED BY <1>1, <1>2, <1>3

\* The invariant holds initially.
LEMMA InitInv == Init => Inv
<1> HAVE Init
<1>1. /\ irredundant = {} /\ redundant = {} /\ root = {} /\ unsat = FALSE
      /\ status = [v \in Vars |-> "unused"]
      /\ extension = <<>> /\ witness = {} /\ frozen = {} /\ Idle
      /\ pc = "idle" /\ tainted = {} /\ cursor = 0 /\ steps = 0
  BY DEF Init, Idle
<1>2. plan \in {scenario.calls : scenario \in Scenarios} /\ input = <<>> /\ formula = {}
      /\ assumptions = <<>> /\ result = Oracle!Unasked /\ model = {} /\ failed = {}
  BY DEF Init, Oracle!Init
<1>3. DatabaseInv
  BY <1>1 DEF DatabaseInv, DatabaseOK, FixedRight, Database, Gone, Tautological
<1>4. StackInv
  BY <1>1 DEF StackInv, Stack
<1>5. \A B \in Total : B \in All /\ EntriesHold(extension, B) /\ B \in FormulaModels
  BY <1>1, <1>2 DEF All, Holds, Database, EntriesHold, FormulaModels
<1>6. ExtensionInv
  <2>1. ReconstructsUntainted(<<>>, Mod, FormulaModels, cursor, {})
    <3>1. Mod \subseteq FormulaModels
      BY <1>5 DEF Mod
    <3>2. Reconstructs(<<>>, Mod, FormulaModels)
      BY <3>1, PushNothing
    <3> QED BY <3>2, UntaintedAll
  <2> QED BY <1>1, <2>1 DEF ExtensionInv
<1>7. SoundInv
  BY <1>1, <1>5 DEF SoundInv, FormulaModels
<1>8. CallInv
  <2>1. plan \in Seq(Calls)
    <3>1. PICK scenario \in Scenarios : plan = scenario.calls
      BY <1>2
    <3> QED BY <3>1, ScenariosTyped DEF Calls
  <2>2. input \in Seq(Seq(Lits)) /\ ToSet(assumptions) = {}
    BY <1>2 DEF ToSet
  <2>3. result # Oracle!Running
    BY <1>2 DEF Oracle!Running, Oracle!Unasked
  <2> QED BY <1>1, <1>2, <2>1, <2>2, <2>3 DEF CallInv
<1>9. AssumptionsInv
  BY <1>1 DEF AssumptionsInv
<1>10. ElimInv
  BY <1>1, IdleFacts DEF ElimInv, ElimOK
<1> QED BY <1>3, <1>4, <1>6, <1>7, <1>8, <1>9, <1>10 DEF Inv

\* The assumptions of a call are among the literals it assumes.
LEMMA AssumedLiterals ==
    ASSUME NEW lits \in Seq(Lits)
    PROVE  ToSet(Oracle!assume(lits)) \subseteq ToSet(lits)
<1> DEFINE P == FirstOccurrences(lits)
           s == Subsequence(lits, P)
<1>1. P \in SUBSET (1..Len(lits)) /\ DOMAIN lits = 1..Len(lits) /\ Len(lits) \in Nat
  BY DEF FirstOccurrences
<1>2. P \in SUBSET Nat /\ IsFiniteSet(P)
  <2>1. IsFiniteSet(1..Len(lits))
    BY <1>1, FS_Interval
  <2> HIDE DEF P
  <2>2. IsFiniteSet(P)
    BY <1>1, <2>1, FS_Subset
  <2>3. P \in SUBSET Nat
    BY <1>1
  <2> QED BY <2>2, <2>3
<1> HIDE DEF P
<1>3. \A i \in 1..Cardinality(P) : Nth(P, i) \in P
  BY <1>2, NthFacts
<1>4. DOMAIN s = 1..Cardinality(P) /\ \A i \in 1..Cardinality(P) : s[i] = lits[Nth(P, i)]
  BY DEF Subsequence
<1>5. Oracle!assume(lits) = s
  <2>1. Oracle!assume(lits) = Oracle!Subsequence(lits, Oracle!FirstOccurrences(lits))
    BY DEF Oracle!assume
  <2>2. Oracle!FirstOccurrences(lits) = P
    BY DEF Oracle!FirstOccurrences, FirstOccurrences, P
  <2>0. \A S : Oracle!Cardinality(S) = Cardinality(S)
    BY DEF Oracle!Cardinality, Cardinality
  <2>3. \A i : Oracle!Nth(P, i) = Nth(P, i)
    BY <2>0 DEF Oracle!Nth, Nth
  <2>4. Oracle!Subsequence(lits, P) = s
    BY <2>0, <2>3 DEF Oracle!Subsequence, Subsequence
  <2> QED BY <2>1, <2>2, <2>4
<1> HIDE DEF s
<1>6. ASSUME NEW i \in DOMAIN s PROVE s[i] \in ToSet(lits)
  <2>1. Nth(P, i) \in DOMAIN lits /\ s[i] = lits[Nth(P, i)]
    BY <1>1, <1>3, <1>4
  <2> QED BY <2>1 DEF ToSet
<1> QED BY <1>5, <1>6 DEF ToSet

\* A call begins: its assumptions taint the literals that witnesses
\* contradict.
LEMMA BeginCallInv ==
    ASSUME Inv, BeginCall
    PROVE  Inv'
<1> DEFINE call == Head(plan)
           assumed == ToSet(call.assume)
           lits == assumed \cup call.freeze \cup frozen
<1>1. /\ pc = "idle" /\ plan # <<>>
      /\ plan' = Tail(plan) /\ input' = call.add
      /\ assumptions' = Oracle!assume(call.assume)
      /\ frozen' = call.freeze \cup {vidx(lit) : lit \in assumed}
      /\ status' = WithMarks(Internalized(lits))
      /\ tainted' = tainted \cup Taints(lits)
      /\ result' = Oracle!Running /\ model' = {} /\ failed' = {}
      /\ steps' = call.steps
      /\ pc' = "add"
      /\ UNCHANGED <<irredundant, redundant, root, unsat, stackVars, eliminating, formula,
                     options, cursor>>
  BY DEF BeginCall
<1>2. extension' = extension /\ witness' = witness /\ formula' = formula /\ cursor' = cursor /\ unsat' = unsat
      /\ eliminating' = eliminating
  BY <1>1 DEF stackVars
<1>3. /\ DatabaseInv /\ StackInv /\ ExtensionInv /\ SoundInv /\ CallInv /\ AssumptionsInv /\ ElimInv
      /\ cursor \in Nat /\ cursor <= 1 /\ Idle
  BY <1>1 DEF Inv, CallInv
<1>4. call \in Calls /\ plan' \in Seq(Calls)
  <2>1. plan \in Seq(Calls)
    BY <1>3 DEF CallInv
  <2> QED BY <1>1, <2>1
<1>5. call.add \in Seq(Seq(Lits)) /\ call.assume \in Seq(Lits) /\ call.freeze \in SUBSET Vars
      /\ call.steps \in Nat
  BY <1>4 DEF Calls, Lits
<1> HIDE DEF call
<1>6. assumed \in SUBSET Lits /\ ToSet(assumptions') \subseteq assumed
  <2>1. assumed \in SUBSET Lits
    BY <1>5 DEF ToSet
  <2> QED BY <1>1, <1>5, <2>1, AssumedLiterals
<1> HIDE DEF assumed
<1>7. frozen' \in SUBSET Vars /\ \A v \in frozen' : {v, -v} \cap lits # {}
  <2>1. ASSUME NEW v \in frozen' PROVE v \in Vars /\ {v, -v} \cap lits # {}
    <3>1. CASE v \in call.freeze
      BY <1>5, <3>1
    <3>2. CASE v \notin call.freeze
      <4>1. PICK lit \in assumed : v = vidx(lit)
        BY <1>1, <3>2
      <4>2. lit \in Lits
        BY <1>6
      <4>3. vidx(lit) \in Vars /\ (lit = vidx(lit) \/ lit = -vidx(lit))
        BY <4>2, LitFacts
      <4> QED BY <4>1, <4>3
    <3> QED BY <3>1, <3>2
  <2> QED BY <2>1
<1>8. lits \in SUBSET Lits
  BY <1>3, <1>5, <1>6, LitFacts DEF DatabaseInv
<1> HIDE DEF lits
<1>9. DatabaseInv' /\ Mod' = Mod /\ All' = All
  BY <1>1, <1>3, <1>7, IdleFacts, BeginCallDatabase
<1>10. StackInv'
  BY <1>1, <1>2, <1>3, <1>8 DEF StackInv, Taints
<1>11. FormulaModels' = FormulaModels
  BY <1>2 DEF FormulaModels
<1>12. ExtensionInv'
  <2> SUFFICES ASSUME ~unsat
               PROVE  ReconstructsUntainted(extension, Mod, FormulaModels, cursor, tainted')
    BY <1>2, <1>9, <1>11 DEF ExtensionInv
  <2>1. ReconstructsUntainted(extension, Mod, FormulaModels, cursor, tainted)
    BY <1>3 DEF ExtensionInv
  <2>2. tainted \subseteq tainted'
    BY <1>1
  <2> QED BY <2>1, <2>2, UntaintedMonotonic
<1>13. SoundInv'
  BY <1>2, <1>3, <1>9, <1>11 DEF SoundInv, EntriesHold
<1>14. CallInv'
  <2>1. \A lit \in ToSet(assumptions') : lit \in Lits /\ vidx(lit) \in frozen'
    BY <1>1, <1>6
  <2>2. Idle'
    BY <1>2, <1>3 DEF Idle
  <2>3. ToSet(assumptions)' = ToSet(assumptions')
    OBVIOUS
  <2> QED BY <1>1, <1>2, <1>3, <1>4, <1>5, <2>1, <2>2 DEF CallInv
<1>15. AssumptionsInv'
  <2> SUFFICES ASSUME NEW lit \in ToSet(assumptions'), NEW i \in 1..Len(extension),
                      -lit \in extension[i].witness
               PROVE  lit \in tainted' /\ i >= cursor
    BY <1>1, <1>2 DEF AssumptionsInv
  <2>1. lit \in lits
    BY <1>6 DEF lits
  <2>2. -lit \in witness
    BY <1>3 DEF StackInv
  <2> QED BY <1>1, <1>3, <2>1, <2>2 DEF Taints
<1>16. ElimInv'
  BY <1>2, <1>3, IdleFacts DEF ElimInv, ElimOK, Idle
<1> QED BY <1>9, <1>10, <1>12, <1>13, <1>14, <1>15, <1>16 DEF Inv

\* A clause is added.
LEMMA AddClauseInv ==
    ASSUME Inv, AddClause
    PROVE  Inv'
<1> DEFINE c == ToSet(Head(input))
<1>1. /\ pc = "add" /\ input # <<>>
      /\ add_original_clause(c)
      /\ tainted' = tainted \cup Taints(c)
      /\ formula' = formula \cup {c}
      /\ input' = Tail(input)
      /\ UNCHANGED <<stackVars, frozen, eliminating, pc, plan, assumptions, options, answerVars,
                     cursor, steps>>
  BY DEF AddClause
<1>2. /\ DatabaseInv /\ StackInv /\ ExtensionInv /\ SoundInv /\ CallInv /\ AssumptionsInv /\ ElimInv
      /\ cursor \in Nat /\ cursor <= 1 /\ Idle
  BY <1>1 DEF Inv, CallInv
<1>3. extension' = extension /\ witness' = witness /\ cursor' = cursor /\ frozen' = frozen /\ pc' = pc
      /\ plan' = plan /\ assumptions' = assumptions /\ result' = result /\ failed' = failed
      /\ steps' = steps /\ eliminating' = eliminating
  BY <1>1 DEF stackVars, answerVars
<1>4. input' \in Seq(Seq(Lits)) /\ c \in SUBSET Lits
  <2>1. input \in Seq(Seq(Lits)) /\ input # <<>>
    BY <1>1, <1>2 DEF CallInv
  <2>2. Head(input) \in Seq(Lits) /\ Tail(input) \in Seq(Seq(Lits))
    BY <2>1
  <2> QED BY <1>1, <2>2 DEF ToSet
<1> HIDE DEF c
<1>5. /\ DatabaseInv'
      /\ ~unsat => \A B \in All : Satisfied(c, B) => ~unsat' /\ B \in All'
      /\ ~unsat' => ~unsat /\ \A B \in Mod' : B \in Mod /\ Satisfied(c, B)
  BY <1>1, <1>2, <1>3, <1>4, IdleFacts, AddOriginalOK
<1>6. FormulaModels' = {B \in FormulaModels : Satisfied(c, B)}
  BY <1>1 DEF FormulaModels, Holds
<1>7. StackInv'
  BY <1>1, <1>2, <1>3, <1>4 DEF StackInv, Taints
<1>8. ExtensionInv'
  <2> SUFFICES ASSUME ~unsat'
               PROVE  ReconstructsUntainted(extension, Mod', FormulaModels', cursor, tainted')
    BY <1>3 DEF ExtensionInv
  <2>1. ~unsat /\ \A B \in Mod' : B \in Mod /\ Satisfied(c, B)
    BY <1>5
  <2>2. ReconstructsUntainted(extension, Mod, FormulaModels, cursor, tainted)
    BY <1>2, <2>1 DEF ExtensionInv
  <2>3. \A j \in 1..Len(extension) : j >= cursor
    BY <1>2
  <2> DEFINE X == Mod
             X2 == Mod'
             Y == FormulaModels
  <2>4. StackInv /\ ReconstructsUntainted(extension, X, Y, cursor, tainted)
        /\ \A B \in X2 : B \in X /\ Satisfied(c, B)
    BY <1>2, <2>1, <2>2
  <2> HIDE DEF X, X2, Y
  <2>5. ReconstructsUntainted(extension, X2, {B \in Y : Satisfied(c, B)}, cursor, tainted \cup Taints(c))
    BY <1>4, <2>3, <2>4, AddUntainted
  <2> QED BY <1>1, <1>6, <2>5 DEF X2, Y
<1>9. SoundInv'
  BY <1>2, <1>3, <1>5, <1>6 DEF SoundInv, EntriesHold
<1>10. CallInv'
  <2>1. Idle'
    BY <1>2, <1>3 DEF Idle
  <2> QED BY <1>1, <1>2, <1>3, <1>4, <2>1 DEF CallInv
<1>11. AssumptionsInv'
  BY <1>1, <1>2, <1>3 DEF AssumptionsInv
<1>12. ElimInv'
  BY <1>2, <1>3, IdleFacts DEF ElimInv, ElimOK, Idle
<1> QED BY <1>5, <1>7, <1>8, <1>9, <1>10, <1>11, <1>12 DEF Inv

\* solve() starts.
LEMMA StartSolveInv ==
    ASSUME Inv, StartSolve
    PROVE  Inv'
<1>1. /\ pc = "add" /\ input = <<>>
      /\ IF unsat THEN result' = 20 /\ pc' = "idle"
         ELSE pc' = (IF tainted = {} THEN "run" ELSE "restore") /\ UNCHANGED result
      /\ cursor' = 1
      /\ UNCHANGED <<clauseVars, stackVars, frozen, eliminating, userVars, model, failed,
                     tainted, steps>>
  BY DEF StartSolve, Answer
<1>2. /\ DatabaseInv /\ StackInv /\ ExtensionInv /\ SoundInv /\ CallInv /\ AssumptionsInv /\ ElimInv
      /\ cursor \in Nat /\ cursor <= 1 /\ Idle
  BY <1>1 DEF Inv, CallInv
<1>3. extension' = extension /\ witness' = witness /\ frozen' = frozen /\ tainted' = tainted
      /\ plan' = plan /\ input' = input /\ formula' = formula /\ assumptions' = assumptions
      /\ failed' = failed /\ steps' = steps /\ eliminating' = eliminating /\ UNCHANGED clauseVars
  BY <1>1 DEF stackVars, userVars
<1>4. DatabaseInv' /\ Mod' = Mod /\ All' = All /\ unsat' = unsat
  BY <1>2, <1>3, QuietDatabase
<1>5. FormulaModels' = FormulaModels
  BY <1>3 DEF FormulaModels
<1>6. StackInv'
  BY <1>2, <1>3 DEF StackInv
<1>7. ExtensionInv'
  <2> SUFFICES ASSUME ~unsat
               PROVE  ReconstructsUntainted(extension, Mod, FormulaModels, 1, tainted)
    BY <1>1, <1>3, <1>4, <1>5 DEF ExtensionInv
  <2>1. ReconstructsUntainted(extension, Mod, FormulaModels, cursor, tainted)
    BY <1>2 DEF ExtensionInv
  <2> QED BY <2>1, UntaintedMonotonic
<1>8. SoundInv'
  BY <1>2, <1>3, <1>4, <1>5 DEF SoundInv, EntriesHold
<1>9. CallInv'
  <2>1. Idle'
    BY <1>2, <1>3 DEF Idle
  <2>2. Oracle!Running = -1
    BY DEF Oracle!Running
  <2>3. pc' \in {"idle", "restore", "run"} /\ (pc' = "run" => tainted' = {})
        /\ (pc' = "idle" <=> result' # Oracle!Running)
    BY <1>1, <1>2, <1>3, <2>2 DEF CallInv
  <2> QED BY <1>1, <1>2, <1>3, <2>1, <2>3 DEF CallInv
<1>10. AssumptionsInv'
  <2> SUFFICES ASSUME NEW lit \in ToSet(assumptions), NEW i \in 1..Len(extension),
                      -lit \in extension[i].witness, pc' # "idle"
               PROVE  pc' = "restore" /\ lit \in tainted /\ i >= 1
    BY <1>1, <1>3 DEF AssumptionsInv
  <2>1. lit \in tainted
    BY <1>1, <1>2 DEF AssumptionsInv
  <2> QED BY <1>1, <2>1
<1>11. ElimInv'
  BY <1>2, <1>3, IdleFacts DEF ElimInv, ElimOK, Idle
<1> QED BY <1>4, <1>6, <1>7, <1>8, <1>9, <1>10, <1>11 DEF Inv

\* All entries were visited: no literal is tainted any longer.
LEMMA EndRestoreInv ==
    ASSUME Inv, EndRestore
    PROVE  Inv'
<1>1. /\ pc = "restore" /\ cursor > Len(extension)
      /\ tainted' = {}
      /\ witness' = UNION {e.witness : e \in ToSet(extension)}
      /\ pc' = "run" /\ cursor' = 0
      /\ UNCHANGED <<clauseVars, extension, frozen, eliminating, userVars, answerVars, steps>>
  BY DEF EndRestore
<1>2. /\ DatabaseInv /\ StackInv /\ ExtensionInv /\ SoundInv /\ CallInv /\ AssumptionsInv /\ ElimInv
      /\ cursor \in Nat /\ Idle
  BY <1>1 DEF Inv, CallInv
<1>3. extension' = extension /\ frozen' = frozen
      /\ plan' = plan /\ input' = input /\ formula' = formula /\ assumptions' = assumptions
      /\ result' = result /\ failed' = failed /\ steps' = steps /\ eliminating' = eliminating
      /\ UNCHANGED clauseVars
  BY <1>1 DEF userVars, answerVars
<1>4. DatabaseInv' /\ Mod' = Mod /\ All' = All /\ unsat' = unsat
  BY <1>2, <1>3, QuietDatabase
<1>5. FormulaModels' = FormulaModels
  BY <1>3 DEF FormulaModels
<1>6. StackInv'
  <2>1. Stack(extension) /\ extension \in Seq(Entries) /\ ToSet(extension) = {extension[i] : i \in 1..Len(extension)}
    BY <1>2 DEF StackInv, Stack, ToSet
  <2>2. \A i \in 1..Len(extension) : extension[i].witness \in SUBSET Lits
    BY <2>1 DEF Stack, Entry, Entries
  <2>3. witness' \in SUBSET Lits /\ \A i \in 1..Len(extension) : extension[i].witness \subseteq witness'
    BY <1>1, <2>1, <2>2
  <2> QED BY <1>1, <1>3, <2>1, <2>3 DEF StackInv
<1>7. ExtensionInv'
  <2> SUFFICES ASSUME ~unsat
               PROVE  ReconstructsUntainted(extension, Mod, FormulaModels, 0, {})
    BY <1>1, <1>3, <1>4, <1>5 DEF ExtensionInv
  <2>1. ReconstructsUntainted(extension, Mod, FormulaModels, cursor, tainted)
    BY <1>2 DEF ExtensionInv
  <2> SUFFICES ASSUME NEW K, NEW C, Runs(extension, K, C), Closed(extension, K), C[Len(extension)] \in Mod,
                      Kept(extension, K, C[Len(extension)])
               PROVE  C[0] \in FormulaModels
    BY DEF ReconstructsUntainted
  <2>2. Len(extension) \in Nat /\ K \in SUBSET (1..Len(extension))
    BY <1>2 DEF StackInv, Stack, Closed
  <2>3. Untainted(extension, K, cursor, tainted)
    BY <1>1, <1>2, <2>2 DEF Untainted
  <2> QED BY <2>1, <2>3 DEF ReconstructsUntainted
<1>8. SoundInv'
  BY <1>2, <1>3, <1>4, <1>5 DEF SoundInv, EntriesHold
<1>9. CallInv'
  <2>1. Idle'
    BY <1>2, <1>3 DEF Idle
  <2> QED BY <1>1, <1>2, <1>3, <2>1 DEF CallInv
<1>10. AssumptionsInv'
  <2> SUFFICES ASSUME NEW lit \in ToSet(assumptions), NEW i \in 1..Len(extension),
                      -lit \in extension[i].witness
               PROVE  FALSE
    BY <1>3 DEF AssumptionsInv
  <2>1. i >= cursor
    BY <1>1, <1>2 DEF AssumptionsInv
  <2>2. Len(extension) \in Nat
    BY <1>2 DEF StackInv, Stack
  <2> QED BY <1>1, <1>2, <2>1, <2>2
<1>11. ElimInv'
  BY <1>2, <1>3, IdleFacts DEF ElimInv, ElimOK, Idle
<1> QED BY <1>4, <1>6, <1>7, <1>8, <1>9, <1>10, <1>11 DEF Inv

\* solve() ends with an answer.
LEMMA EndSolveInv ==
    ASSUME Inv, EndSolve
    PROVE  Inv'
<1>1. /\ pc = "run" /\ pc' = "idle" /\ result' \in {0, 10, 20}
      /\ eliminating' = NotEliminating
      /\ UNCHANGED <<clauseVars, stackVars, frozen, userVars, tainted, cursor, steps>>
  BY DEF EndSolve, Answer, AnswerSatisfiable, AnswerUnsatisfiable
<1>2. /\ DatabaseInv /\ StackInv /\ ExtensionInv /\ SoundInv /\ CallInv /\ AssumptionsInv /\ ElimInv
      /\ cursor \in Nat /\ cursor <= 1
  BY <1>1 DEF Inv, CallInv
<1>3. extension' = extension /\ witness' = witness /\ frozen' = frozen /\ tainted' = tainted
      /\ plan' = plan /\ input' = input /\ formula' = formula /\ assumptions' = assumptions
      /\ steps' = steps /\ cursor' = cursor /\ UNCHANGED clauseVars
  BY <1>1 DEF stackVars, userVars
<1>n. ~unsat => eliminating' = eliminating
  BY <1>1 DEF EndSolve, Idle
<1>4. DatabaseInv' /\ Mod' = Mod /\ All' = All /\ unsat' = unsat
  BY <1>2, <1>3, <1>n, QuietDatabase
<1>5. FormulaModels' = FormulaModels
  BY <1>3 DEF FormulaModels
<1>6. StackInv'
  BY <1>2, <1>3 DEF StackInv
<1>7. ExtensionInv'
  BY <1>2, <1>3, <1>4, <1>5 DEF ExtensionInv
<1>8. SoundInv'
  BY <1>2, <1>3, <1>4, <1>5 DEF SoundInv, EntriesHold
<1>9. Idle'
  BY <1>1 DEF Idle
<1>10. CallInv'
  <2>1. result' # Oracle!Running
    BY <1>1 DEF Oracle!Running
  <2> QED BY <1>1, <1>2, <1>3, <1>9, <2>1 DEF CallInv
<1>11. AssumptionsInv'
  BY <1>1 DEF AssumptionsInv
<1>12. ElimInv'
  BY <1>9, IdleFacts DEF ElimInv, ElimOK
<1> QED BY <1>4, <1>6, <1>7, <1>8, <1>10, <1>11, <1>12 DEF Inv

\* An entry is restored or passed (restore.cpp).
LEMMA RestoreClauseInv ==
    ASSUME Inv, RestoreClause
    PROVE  Inv'
<1> DEFINE e == extension[cursor]
<1>1. /\ pc = "restore" /\ cursor <= Len(extension)
      /\ IF Negated(e.witness) \cap tainted # {}
         THEN /\ extension' = RemoveAt(extension, cursor)
              /\ tainted' = tainted \cup Taints(e.clause)
              /\ add_original_clause(e.clause)
              /\ UNCHANGED cursor
         ELSE /\ cursor' = cursor + 1
              /\ UNCHANGED <<clauseVars, extension, tainted>>
      /\ UNCHANGED <<witness, frozen, eliminating, pc, userVars, answerVars, steps>>
  BY DEF RestoreClause
<1>2. /\ DatabaseInv /\ StackInv /\ ExtensionInv /\ SoundInv /\ CallInv /\ AssumptionsInv /\ ElimInv
      /\ cursor \in Nat /\ cursor >= 1 /\ Idle
  BY <1>1 DEF Inv, CallInv
<1>3. witness' = witness /\ frozen' = frozen /\ pc' = pc
      /\ plan' = plan /\ input' = input /\ formula' = formula /\ assumptions' = assumptions
      /\ result' = result /\ failed' = failed /\ steps' = steps /\ eliminating' = eliminating
  BY <1>1 DEF userVars, answerVars
<1>4. /\ Stack(extension) /\ extension \in Seq(Entries) /\ Len(extension) \in Nat
      /\ cursor \in 1..Len(extension)
  <2>1. Stack(extension) /\ extension \in Seq(Entries) /\ Len(extension) \in Nat
    BY <1>2 DEF StackInv, Stack
  <2> QED BY <1>1, <1>2, <2>1
<1>5. Entry(e) /\ e.clause \in SUBSET Lits /\ e.witness \in SUBSET Lits /\ e.witness \subseteq witness
  BY <1>2, <1>4 DEF Stack, Entry, Entries, StackInv
<1>6. FormulaModels' = FormulaModels
  BY <1>3 DEF FormulaModels
<1>7. ElimInv' /\ Idle'
  BY <1>2, <1>3, IdleFacts DEF ElimInv, ElimOK, Idle
<1> DEFINE X == Mod
           X2 == Mod'
           Y == FormulaModels
           c == e.clause
<1>8. CASE Negated(e.witness) \cap tainted # {}
  <2>1. /\ extension' = RemoveAt(extension, cursor)
        /\ tainted' = tainted \cup Taints(c)
        /\ add_original_clause(c) /\ UNCHANGED frozen
        /\ cursor' = cursor
    BY <1>1, <1>3, <1>8
  <2>2. c \in SUBSET Lits
    BY <1>5
  <2>3. /\ extension' \in Seq(Entries) /\ Len(extension') = Len(extension) - 1
        /\ \A i \in 1..(Len(extension) - 1) :
              extension'[i] = IF i < cursor THEN extension[i] ELSE extension[i + 1]
    BY <1>4, <2>1, RemoveAtFacts
  <2>4. \A i \in 1..Len(extension') : \E j \in 1..Len(extension) :
           extension'[i] = extension[j] /\ (i >= cursor <=> j >= cursor + 1) /\ (i < cursor <=> j = i)
    <3> TAKE i \in 1..Len(extension')
    <3>1. i \in Nat /\ cursor \in Nat /\ i \in 1..(Len(extension) - 1)
      BY <1>4, <2>3
    <3>2. CASE i < cursor
      BY <1>4, <2>3, <3>1, <3>2
    <3>3. CASE ~(i < cursor)
      <4>1. i + 1 \in 1..Len(extension) /\ extension'[i] = extension[i + 1]
        BY <1>4, <2>3, <3>1, <3>3
      <4>2. (i >= cursor <=> i + 1 >= cursor + 1) /\ (i < cursor <=> i + 1 = i)
        BY <3>1, <3>3
      <4> QED BY <4>1, <4>2
    <3> QED BY <3>2, <3>3
  <2>5. /\ DatabaseInv'
        /\ ~unsat => \A B \in All : Satisfied(c, B) => ~unsat' /\ B \in All'
        /\ ~unsat' => ~unsat /\ \A B \in Mod' : B \in Mod /\ Satisfied(c, B)
    <3> HIDE DEF c
    <3> QED BY <1>2, <2>1, <2>2, IdleFacts, AddOriginalOK
  <2>6. StackInv'
    <3>1. Stack(extension')
      BY <1>4, <2>3, <2>4 DEF Stack
    <3>2. \A i \in 1..Len(extension') : extension'[i].witness \subseteq witness
      BY <1>2, <2>4 DEF StackInv
    <3>3. tainted' \in SUBSET Lits /\ witness \in SUBSET Lits
      BY <1>2, <2>1, <2>2 DEF StackInv, Taints
    <3> QED BY <1>3, <3>1, <3>2, <3>3 DEF StackInv
  <2>7. ExtensionInv'
    <3> SUFFICES ASSUME ~unsat'
                 PROVE  ReconstructsUntainted(extension', X2, Y, cursor, tainted')
      BY <1>6, <2>1 DEF ExtensionInv
    <3>1. \A B \in X2 : B \in X /\ Satisfied(extension[cursor].clause, B)
      BY <2>5
    <3>2. ReconstructsUntainted(extension, X, Y, cursor, tainted)
      BY <1>2, <2>5 DEF ExtensionInv
    <3> HIDE DEF X, X2, Y
    <3>3. ReconstructsUntainted(RemoveAt(extension, cursor), X2, Y, cursor,
                                tainted \cup Taints(extension[cursor].clause))
      BY <1>2, <1>4, <3>1, <3>2, RestoreUntainted
    <3> QED BY <2>1, <3>3
  <2>8. SoundInv'
    <3> SUFFICES ASSUME NEW B \in FormulaModels
                 PROVE  ~unsat' /\ B \in All' /\ EntriesHold(extension', B)
      BY <1>6 DEF SoundInv
    <3>1. ~unsat /\ B \in All /\ EntriesHold(extension, B)
      BY <1>2 DEF SoundInv
    <3>2. Satisfied(c, B)
      BY <1>4, <3>1 DEF EntriesHold
    <3>3. EntriesHold(extension', B)
      BY <2>4, <3>1 DEF EntriesHold
    <3> QED BY <2>5, <3>1, <3>2, <3>3
  <2>9. CallInv'
    BY <1>1, <1>2, <1>3, <1>7, <2>1 DEF CallInv
  <2>10. AssumptionsInv'
    <3> SUFFICES ASSUME NEW lit \in ToSet(assumptions), NEW i \in 1..Len(extension'),
                        -lit \in extension'[i].witness
                 PROVE  lit \in tainted' /\ i >= cursor
      BY <1>1, <1>3, <2>1 DEF AssumptionsInv
    <3>1. PICK j \in 1..Len(extension) :
             extension'[i] = extension[j] /\ (i >= cursor <=> j >= cursor + 1) /\ (i < cursor <=> j = i)
      BY <2>4
    <3>2. lit \in tainted /\ j >= cursor
      BY <1>1, <1>2, <3>1 DEF AssumptionsInv
    <3>3. i \in Nat /\ cursor \in Nat
      BY <1>2, <1>4, <2>3
    <3> QED BY <2>1, <3>1, <3>2, <3>3
  <2> QED BY <1>7, <2>5, <2>6, <2>7, <2>8, <2>9, <2>10 DEF Inv
<1>9. CASE Negated(e.witness) \cap tainted = {}
  <2>1. cursor' = cursor + 1 /\ UNCHANGED clauseVars /\ extension' = extension /\ tainted' = tainted
    BY <1>1, <1>9
  <2>2. DatabaseInv' /\ Mod' = Mod /\ All' = All /\ unsat' = unsat
    BY <1>2, <1>3, <2>1, QuietDatabase
  <2>3. StackInv'
    BY <1>2, <1>3, <2>1 DEF StackInv
  <2>4. ExtensionInv'
    <3> SUFFICES ASSUME ~unsat
                 PROVE  ReconstructsUntainted(extension, X, Y, cursor + 1, tainted)
      BY <1>6, <2>1, <2>2 DEF ExtensionInv
    <3>1. ReconstructsUntainted(extension, X, Y, cursor, tainted)
      BY <1>2 DEF ExtensionInv
    <3>2. Spares(extension[cursor], tainted)
      BY <1>9 DEF Spares
    <3> HIDE DEF X, Y
    <3> QED BY <1>2, <3>1, <3>2, AdvanceUntainted
  <2>5. SoundInv'
    BY <1>2, <1>6, <2>1, <2>2 DEF SoundInv, EntriesHold
  <2>6. CallInv'
    BY <1>1, <1>2, <1>3, <1>7, <2>1 DEF CallInv
  <2>7. AssumptionsInv'
    <3> SUFFICES ASSUME NEW lit \in ToSet(assumptions), NEW i \in 1..Len(extension),
                        -lit \in extension[i].witness
                 PROVE  lit \in tainted /\ i >= cursor + 1
      BY <1>1, <1>3, <2>1 DEF AssumptionsInv
    <3>1. lit \in tainted /\ i >= cursor
      BY <1>1, <1>2 DEF AssumptionsInv
    <3>2. i # cursor
      <4> SUFFICES ASSUME i = cursor PROVE FALSE
        OBVIOUS
      <4>1. lit \in Lits
        BY <1>2 DEF CallInv
      <4>2. -lit \in e.witness /\ e.witness \in SUBSET Lits
        BY <1>5
      <4>3. lit \in Negated(e.witness)
        BY <4>1, <4>2, NegatedLits
      <4> QED BY <1>9, <3>1, <4>3
    <3> QED BY <1>2, <1>4, <3>1, <3>2
  <2> QED BY <1>7, <2>2, <2>3, <2>4, <2>5, <2>6, <2>7 DEF Inv
<1> QED BY <1>8, <1>9

\* A step of a technique, or of the search, in the middle of a call.
LEMMA TechniqueInv ==
    ASSUME Inv, pc = "run", ~unsat, NEW es, StepOK(es), steps' \in Nat,
           UNCHANGED <<frozen, pc, userVars, answerVars, tainted, cursor>>,
           ~unsat' => ElimOK'
    PROVE  Inv'
<1>2. /\ DatabaseInv /\ StackInv /\ ExtensionInv /\ SoundInv /\ CallInv /\ AssumptionsInv
      /\ cursor \in Nat /\ cursor <= 1 /\ tainted = {}
  BY DEF Inv, CallInv
<1>3. frozen' = frozen /\ pc' = pc /\ tainted' = tainted /\ cursor' = cursor
      /\ plan' = plan /\ input' = input /\ formula' = formula /\ assumptions' = assumptions
      /\ result' = result /\ failed' = failed
  BY DEF userVars, answerVars
<1>4. /\ Preserved /\ Follows
      /\ Stack(es) /\ EntriesFree(es) /\ \A B \in All : EntriesHold(es, B)
      /\ extension' = extension \o es
      /\ witness' = witness \cup UNION {e.witness : e \in ToSet(es)}
      /\ ~unsat' => Reconstructs(es, Mod', Mod)
  BY DEF StepOK
<1>5. DatabaseInv'
  BY <1>2, <1>3, <1>4 DEF DatabaseInv, Preserved
<1>6. FormulaModels' = FormulaModels
  BY <1>3 DEF FormulaModels
<1>7. extension \in Seq(Entries) /\ es \in Seq(Entries) /\ Stack(extension)
  BY <1>2, <1>4 DEF StackInv, Stack
<1>8. \A i \in 1..Len(extension') :
         (\E j \in 1..Len(extension) : extension'[i] = extension[j]) \/ (\E j \in 1..Len(es) : extension'[i] = es[j])
  BY <1>4, <1>7, ConcatMember
<1>9. StackInv'
  <2>1. \A i \in 1..Len(es) : es[i] \in ToSet(es)
    BY <1>7 DEF ToSet
  <2>2. \A i \in 1..Len(es) : es[i].witness \subseteq witness'
    BY <1>4, <2>1
  <2>3. \A i \in 1..Len(extension) : extension[i].witness \subseteq witness'
    BY <1>2, <1>4 DEF StackInv
  <2>4. \A i \in 1..Len(extension') : extension'[i].witness \subseteq witness'
    BY <1>8, <2>2, <2>3
  <2>5. Stack(extension')
    <3>1. extension' \in Seq(Entries)
      BY <1>4, <1>7, ConcatMember
    <3>2. \A i \in 1..Len(extension') : Entry(extension'[i])
      BY <1>4, <1>7, <1>8 DEF Stack
    <3> QED BY <3>1, <3>2 DEF Stack
  <2>6. witness' \in SUBSET Lits
    <3>1. \A e \in ToSet(es) : e.witness \in SUBSET Lits
      <4>1. ToSet(es) \subseteq Entries
        BY <1>7 DEF ToSet
      <4> QED BY <4>1 DEF Entries
    <3>2. witness \in SUBSET Lits
      BY <1>2 DEF StackInv
    <3> QED BY <1>4, <3>1, <3>2
  <2>7. tainted' \in SUBSET Lits
    BY <1>2, <1>3
  <2> QED BY <2>4, <2>5, <2>6, <2>7 DEF StackInv
<1>10. ExtensionInv'
  <2> DEFINE X1 == Mod
             X2 == Mod'
             Y == FormulaModels
  <2> SUFFICES ASSUME ~unsat'
               PROVE  ReconstructsUntainted(extension \o es, X2, Y, cursor, {})
    BY <1>2, <1>3, <1>4, <1>6 DEF ExtensionInv
  <2>1. ReconstructsUntainted(extension, X1, Y, cursor, {})
    BY <1>2 DEF ExtensionInv
  <2>2. Reconstructs(es, X2, X1)
    BY <1>4
  <2> HIDE DEF X1, X2, Y
  <2>3. Reconstructs(extension, X1, Y)
    BY <2>1, UntaintedAll
  <2>4. Reconstructs(extension \o es, X2, Y)
    BY <1>4, <1>7, <2>2, <2>3, PushAll
  <2> QED BY <2>4, UntaintedAll
<1>11. SoundInv'
  <2> SUFFICES ASSUME NEW B \in FormulaModels
               PROVE  ~unsat' /\ B \in All' /\ EntriesHold(extension', B)
    BY <1>6 DEF SoundInv
  <2>1. B \in All /\ EntriesHold(extension, B)
    BY <1>2 DEF SoundInv
  <2>2. EntriesHold(es, B) /\ ~unsat' /\ B \in All'
    BY <1>4, <2>1 DEF Follows
  <2>3. EntriesHold(extension', B)
    BY <1>8, <2>1, <2>2 DEF EntriesHold
  <2> QED BY <2>2, <2>3
<1>12. CallInv'
  BY <1>2, <1>3 DEF CallInv
<1>13. AssumptionsInv'
  <2> SUFFICES ASSUME NEW lit \in ToSet(assumptions), NEW i \in 1..Len(extension'),
                      -lit \in extension'[i].witness
               PROVE  FALSE
    BY <1>3 DEF AssumptionsInv
  <2>1. lit \in Lits /\ vidx(lit) \in frozen
    BY <1>2 DEF CallInv
  <2>2. vidx(-lit) = vidx(lit)
    BY <2>1, LitFacts
  <2>3. CASE \E j \in 1..Len(extension) : extension'[i] = extension[j]
    BY <1>2, <2>3 DEF AssumptionsInv
  <2>4. CASE \E j \in 1..Len(es) : extension'[i] = es[j]
    BY <1>4, <2>1, <2>2, <2>4 DEF EntriesFree
  <2> QED BY <1>8, <2>3, <2>4
<1>14. ElimInv'
  BY DEF ElimInv
<1> QED BY <1>5, <1>9, <1>10, <1>11, <1>12, <1>13, <1>14 DEF Inv

\* The invariant makes the solver ready for a technique.
LEMMA OpenInRun ==
    ASSUME Inv, ~unsat
    PROVE  Open /\ Stack(extension) /\ ElimOK
BY DEF Inv, DatabaseInv, Open, StackInv, ElimInv

\* Every step keeps the invariant.
LEMMA NextInv ==
    ASSUME Inv, [Next]_vars
    PROVE  Inv'
<1>1. CASE Inprocess
  <2>1. /\ pc = "run" /\ ~unsat
        /\ steps' = IF steps > 0 THEN steps - 1 ELSE 0
        /\ UNCHANGED <<frozen, pc, userVars, answerVars, tainted, cursor>>
    BY <1>1 DEF Inprocess
  <2>2. steps \in Nat
    BY DEF Inv, CallInv
  <2>3. PICK es : StepOK(es)
    BY <1>1, <2>1, OpenInRun, InprocessOK
  <2>4. ~unsat' => ElimOK'
    BY <1>1, <2>1, OpenInRun, InprocessOK
  <2> QED BY <2>1, <2>2, <2>3, <2>4, TechniqueInv
<1>2. CASE Learn
  <2>1. /\ pc = "run" /\ ~unsat /\ steps > 0 /\ steps' = steps - 1
        /\ UNCHANGED <<frozen, pc, userVars, answerVars, tainted, cursor>>
    BY <1>2 DEF Learn
  <2>2. steps \in Nat
    BY DEF Inv, CallInv
  <2>3. PICK es : StepOK(es)
    BY <1>2, <2>1, OpenInRun, LearnStepOK
  <2>4. ElimOK'
    BY <1>2, <2>1, OpenInRun, LearnStepOK
  <2> QED BY <2>1, <2>2, <2>3, <2>4, TechniqueInv
<1>5. CASE EndRound
  <2>1. /\ pc = "run" /\ ~unsat /\ end_elim_round /\ steps' = steps
        /\ UNCHANGED <<frozen, pc, userVars, answerVars, tainted, cursor>>
    BY <1>5 DEF EndRound
  <2>2. steps \in Nat
    BY DEF Inv, CallInv
  <2>3. StepOK(<<>>) /\ ElimOK'
    BY <2>1, OpenInRun, EndRoundOK
  <2> DEFINE es == <<>>
  <2>4. StepOK(es)
    BY <2>3
  <2> HIDE DEF es
  <2> QED BY <2>1, <2>2, <2>3, <2>4, TechniqueInv
<1>3. CASE UNCHANGED vars
  <2>1. UNCHANGED clauseVars /\ extension' = extension /\ witness' = witness /\ frozen' = frozen
        /\ eliminating' = eliminating /\ pc' = pc
        /\ plan' = plan /\ input' = input /\ formula' = formula /\ assumptions' = assumptions
        /\ result' = result /\ failed' = failed /\ tainted' = tainted /\ cursor' = cursor
        /\ steps' = steps
    BY <1>3 DEF vars, stackVars, userVars, answerVars
  <2>2. DatabaseInv' /\ Mod' = Mod /\ All' = All /\ unsat' = unsat
    BY <2>1, QuietDatabase DEF Inv
  <2>3. StackInv'
    BY <2>1 DEF Inv, StackInv
  <2>4. FormulaModels' = FormulaModels
    BY <2>1 DEF FormulaModels
  <2>5. ExtensionInv'
    BY <2>1, <2>2, <2>4 DEF Inv, ExtensionInv
  <2>6. SoundInv'
    BY <2>1, <2>2, <2>4 DEF Inv, SoundInv, EntriesHold
  <2>7. Idle' <=> Idle
    BY <2>1 DEF Idle
  <2>8. CallInv'
    BY <2>1, <2>7 DEF Inv, CallInv
  <2>9. AssumptionsInv'
    BY <2>1 DEF Inv, AssumptionsInv
  <2>10. ElimInv'
    <3>1. SUFFICES ASSUME ~unsat PROVE ElimOK'
      BY <2>2 DEF ElimInv
    <3>2. ElimOK
      BY <3>1 DEF Inv, ElimInv
    <3>3. irredundant' = irredundant /\ redundant' = redundant /\ root' = root /\ status' = status
      BY <2>1 DEF clauseVars
    <3>4. GateOK' <=> GateOK
      BY <2>1, <3>3 DEF GateOK, Without
    <3> QED BY <2>1, <3>2, <3>3, <3>4 DEF ElimOK, Active, Trying
  <2> QED BY <2>2, <2>3, <2>5, <2>6, <2>8, <2>9, <2>10 DEF Inv
<1>4. CASE Done
  BY <1>3, <1>4 DEF Done
<1> QED BY <1>1, <1>2, <1>3, <1>4, <1>5, BeginCallInv, AddClauseInv, StartSolveInv, RestoreClauseInv,
           EndRestoreInv, EndSolveInv DEF Next

------------------------------------------------------------------------------
(***************************************************************************)
(* What the invariant says of models, and the theorems.                    *)
(***************************************************************************)

\* A model of clauses and units, in terms of total assignments.
LEMMA ModelsOfUnits ==
    ASSUME NEW F, NEW L, NEW A
    PROVE  A \in Models(F \cup Units(L), Vars) <=> A \in Total /\ Holds(F, A) /\ L \subseteq A
<1>1. (\A c \in F \cup Units(L) : Satisfied(c, A)) <=> Holds(F, A) /\ \A lit \in L : Satisfied({lit}, A)
  BY DEF Holds, Units
<1>2. \A lit : Satisfied({lit}, A) <=> lit \in A
  BY DEF Satisfied
<1> QED BY <1>1, <1>2 DEF Models, Total

\* Clauses and units are satisfiable when a total assignment says so.
LEMMA SatisfiableUnits ==
    ASSUME NEW F, NEW L
    PROVE  Satisfiable(F \cup Units(L), Vars) <=> \E A \in Total : Holds(F, A) /\ L \subseteq A
<1>1. Satisfiable(F \cup Units(L), Vars) <=> \E A : A \in Models(F \cup Units(L), Vars)
  BY DEF Satisfiable, Models
<1> QED BY <1>1, ModelsOfUnits, ZenonT(60)

\* Extended, a model of the clauses that are left is one of those added, and
\* literals that no witness contradicts keep their value.
LEMMA ExtendedModel ==
    ASSUME Inv, tainted = {}, ~unsat, NEW A \in Mod
    PROVE  /\ extend(A) \in FormulaModels
           /\ \A lit \in A : (\A i \in 1..Len(extension) : -lit \notin extension[i].witness)
                                => lit \in extend(A)
<1>1. Stack(extension) /\ extension \in Seq(Entries) /\ A \in Total
  BY DEF Inv, StackInv, Stack, Mod
<1>2. PICK C : /\ Runs(extension, 1..Len(extension), C)
               /\ C[Len(extension)] = A /\ extend(A) = C[0]
  BY <1>1, ExtendRuns
<1> DEFINE K == 1..Len(extension)
<1>3. Closed(extension, K) /\ Kept(extension, K, A)
  BY DEF Closed, Kept
<1>4. extend(A) \in FormulaModels
  <2> DEFINE X == Mod
             Y == FormulaModels
  <2>1. ReconstructsUntainted(extension, X, Y, cursor, {})
    BY DEF Inv, ExtensionInv
  <2> HIDE DEF X, Y, K
  <2>2. Reconstructs(extension, X, Y)
    BY <2>1, UntaintedAll
  <2>3. A \in X
    BY DEF X
  <2>4. Runs(extension, K, C)
    BY <1>2 DEF K
  <2>5. C[0] \in Y
    BY <1>2, <1>3, <2>2, <2>3, <2>4 DEF Reconstructs
  <2> QED BY <1>2, <2>5 DEF Y
<1>5. ASSUME NEW lit \in A, \A i \in 1..Len(extension) : -lit \notin extension[i].witness
      PROVE  lit \in extend(A)
  <2>1. lit \in Lits /\ {lit} \in SUBSET Lits /\ Satisfied({lit}, C[Len(extension)])
    BY <1>1, <1>2, TotalFacts DEF Satisfied
  <2>2. \A j \in K : j \in 1..Len(extension) => Spares(extension[j], {lit})
    <3> TAKE j \in K
    <3>1. extension[j].witness \in SUBSET Lits
      BY <1>1 DEF Stack, Entry, Entries
    <3> QED BY <1>5, <2>1, <3>1, NegatedLits DEF Spares
  <2> DEFINE c == {lit}
  <2>3. c \in SUBSET Lits /\ Satisfied(c, C[Len(extension)]) /\ Runs(extension, K, C)
        /\ \A j \in K : j \in 1..Len(extension) => Spares(extension[j], c)
    BY <1>2, <2>1, <2>2
  <2>4. Len(extension) \in Nat
    BY <1>1
  <2> HIDE DEF c, K
  <2>5. \A i \in 0..Len(extension) : Satisfied(c, C[i])
    BY <1>1, <2>3, RunSpares
  <2>6. Satisfied(c, C[0])
    <3>1. 0 \in 0..Len(extension)
      BY <2>4
    <3> QED BY <2>5, <3>1
  <2>7. Satisfied({lit}, C[0])
    BY <2>6 DEF c
  <2> QED BY <1>2, <2>7 DEF Satisfied
<1> QED BY <1>4, <1>5

\* The invariant holds of every state the solver reaches.
THEOREM InprocessingInvariant == Spec => []Inv
<1>1. Init => Inv
  BY InitInv
<1>2. Inv /\ [Next]_vars => Inv'
  BY NextInv
<1> QED BY <1>1, <1>2, PTL DEF Spec

\* Whatever was eliminated, substituted, blocked, restored and reactivated, the
\* clauses that remain have active literals only, frozen variables stay, and
\* propagation at the root level is complete (Internal::check_var_stats).
THEOREM OnlyActiveLiterals == Spec => []ActiveOnly
<1>1. Inv => ActiveOnly
  BY DEF Inv, DatabaseInv, StackInv, CallInv, ActiveOnly, TypeOK, DatabaseOK, FixedRight,
         Unconnected, Lits
<1> QED BY <1>1, InprocessingInvariant, PTL

\* While no literal is tainted, the extension stack turns every model of the
\* irredundant clauses into a model of all clauses added (External::extend).
THEOREM ModelsAreReconstructed == Spec => []ExtensionReconstructs
<1>1. Inv => ExtensionReconstructs
  <2> SUFFICES ASSUME Inv, tainted = {}, ~unsat,
                      NEW A \in Models(irredundant \cup Units(root), Vars), NEW c \in formula
               PROVE  Satisfied(c, extend(A))
    BY DEF ExtensionReconstructs
  <2>1. A \in Mod
    BY ModelsOfUnits DEF Mod
  <2>2. extend(A) \in FormulaModels
    BY <2>1, ExtendedModel
  <2> QED BY <2>2 DEF FormulaModels, Holds
<1> QED BY <1>1, InprocessingInvariant, PTL

------------------------------------------------------------------------------
(***************************************************************************)
(* The steps of the solver are steps of the oracle, or change nothing the  *)
(* user sees.                                                              *)
(***************************************************************************)

\* The oracle's operators are those of the solver.
LEMMA OracleTerms ==
    /\ \A F, V : Oracle!Models(F, V) = Models(F, V) /\ (Oracle!Satisfiable(F, V) <=> Satisfiable(F, V))
    /\ \A L : Oracle!Units(L) = Units(L)
    /\ \A s : Oracle!ToSet(s) = ToSet(s)
<1>1. \A V : Oracle!Assignments(V) = Assignments(V)
  BY DEF Oracle!Assignments, Assignments, Oracle!Negated, Negated
<1>2. \A c, A : Oracle!Satisfied(c, A) <=> Satisfied(c, A)
  BY DEF Oracle!Satisfied, Satisfied
<1>3. \A F, V : Oracle!Models(F, V) = Models(F, V) /\ (Oracle!Satisfiable(F, V) <=> Satisfiable(F, V))
  BY <1>1, <1>2 DEF Oracle!Models, Models, Oracle!Satisfiable, Satisfiable
<1>4. \A L : Oracle!Units(L) = Units(L)
  BY DEF Oracle!Units, Units
<1>5. \A s : Oracle!ToSet(s) = ToSet(s)
  BY DEF Oracle!ToSet, ToSet
<1> QED BY <1>3, <1>4, <1>5

\* An answer of the solver is one of the oracle.
LEMMA EndSolveAnswers ==
    ASSUME Inv, EndSolve
    PROVE  Oracle!Solve
<1>1. /\ pc = "run" /\ UNCHANGED userVars
      /\ AnswerSatisfiable \/ AnswerUnsatisfiable \/ (Answer(0) /\ UNCHANGED <<model, failed>>)
  BY DEF EndSolve
<1>2. result = Oracle!Running /\ input = <<>> /\ tainted = {}
  BY <1>1 DEF Inv, CallInv
<1>3. UNCHANGED <<plan, input, formula, assumptions>>
  BY <1>1 DEF userVars
<1>4. CASE AnswerSatisfiable
  <2>1. PICK A \in Models(Database \cup Units(root \cup ToSet(assumptions)), Vars) : model' = extend(A)
    BY <1>4 DEF AnswerSatisfiable
  <2>2. ~unsat /\ result' = 10 /\ UNCHANGED failed
    BY <1>4 DEF AnswerSatisfiable, Answer
  <2>3. A \in Total /\ Holds(Database, A) /\ root \cup ToSet(assumptions) \subseteq A
    <3> DEFINE F == Database
               L == root \cup ToSet(assumptions)
    <3>1. A \in Models(F \cup Units(L), Vars)
      BY <2>1
    <3> HIDE DEF F, L
    <3>2. A \in Total /\ Holds(F, A) /\ L \subseteq A
      BY <3>1, ModelsOfUnits
    <3> QED BY <3>2 DEF F, L
  <2>4. A \in Mod
    BY <2>3 DEF Mod, Holds, Database
  <2>5. extend(A) \in FormulaModels
    BY <1>2, <2>2, <2>4, ExtendedModel
  <2>6. \A lit \in ToSet(assumptions) : lit \in extend(A)
    <3> TAKE lit \in ToSet(assumptions)
    <3>1. \A i \in 1..Len(extension) : -lit \notin extension[i].witness
      BY <1>1 DEF Inv, AssumptionsInv
    <3> QED BY <1>2, <2>2, <2>3, <2>4, <3>1, ExtendedModel
  <2>7. extend(A) \in Models(formula \cup Units(ToSet(assumptions)), Vars)
    BY <2>5, <2>6, ModelsOfUnits DEF FormulaModels
  <2>8. Oracle!AnswerSatisfiable
    BY <2>1, <2>2, <2>7, OracleTerms DEF Oracle!AnswerSatisfiable
  <2> QED BY <1>2, <1>3, <2>8 DEF Oracle!Solve
<1>5. CASE AnswerUnsatisfiable
  <2>1. /\ failed' \in SUBSET ToSet(assumptions)
        /\ unsat \/ ~Satisfiable(Database \cup Units(root \cup failed'), Vars)
        /\ result' = 20 /\ UNCHANGED model
    BY <1>5 DEF AnswerUnsatisfiable, Answer
  <2>2. ~Satisfiable(formula \cup Units(failed'), Vars)
    <3> SUFFICES ASSUME Satisfiable(formula \cup Units(failed'), Vars) PROVE FALSE
      OBVIOUS
    <3>1. PICK B \in Total : Holds(formula, B) /\ failed' \subseteq B
      BY SatisfiableUnits
    <3>2. B \in FormulaModels
      BY <3>1 DEF FormulaModels
    <3>3. ~unsat /\ B \in All
      BY <3>2 DEF Inv, SoundInv
    <3>4. Holds(Database, B) /\ root \cup failed' \subseteq B
      BY <3>1, <3>3 DEF All
    <3>5. Satisfiable(Database \cup Units(root \cup failed'), Vars)
      BY <3>4, SatisfiableUnits
    <3> QED BY <2>1, <3>3, <3>5
  <2>3. Oracle!AnswerUnsatisfiable
    BY <2>1, <2>2, OracleTerms DEF Oracle!AnswerUnsatisfiable
  <2> QED BY <1>2, <1>3, <2>3 DEF Oracle!Solve
<1>6. CASE Answer(0) /\ UNCHANGED <<model, failed>>
  <2>1. Oracle!AnswerUnknown
    BY <1>6 DEF Oracle!AnswerUnknown, Answer
  <2> QED BY <1>2, <1>3, <2>1 DEF Oracle!Solve
<1> QED BY <1>1, <1>4, <1>5, <1>6

\* Without a search, the solver answers 20 only when the empty clause was derived.
LEMMA StartSolveAnswers ==
    ASSUME Inv, StartSolve
    PROVE  Oracle!Solve \/ UNCHANGED Oracle!oracleVars
<1>1. /\ pc = "add" /\ input = <<>>
      /\ UNCHANGED <<plan, input, formula, assumptions, model, failed>>
      /\ IF unsat THEN result' = 20 ELSE UNCHANGED result
  BY DEF StartSolve, Answer, userVars
<1>2. result = Oracle!Running /\ failed = {}
  BY <1>1 DEF Inv, CallInv
<1>3. CASE unsat
  <2>1. ~Satisfiable(formula \cup Units({}), Vars)
    <3> SUFFICES ASSUME NEW B \in Total, Holds(formula, B) PROVE FALSE
      BY SatisfiableUnits
    <3> QED BY <1>3 DEF Inv, SoundInv, FormulaModels
  <2>2. Oracle!AnswerUnsatisfiable
    BY <1>1, <1>2, <1>3, <2>1, OracleTerms DEF Oracle!AnswerUnsatisfiable
  <2> QED BY <1>1, <1>2, <2>2 DEF Oracle!Solve
<1>4. CASE ~unsat
  BY <1>1, <1>4 DEF Oracle!oracleVars
<1> QED BY <1>3, <1>4

\* Every step of the solver is one of the oracle, or none.
LEMMA OracleStep ==
    ASSUME Inv, [Next]_vars
    PROVE  [Oracle!Next]_(Oracle!oracleVars)
<1>1. CASE BeginCall
  <2>1. /\ pc = "idle" /\ plan # <<>> /\ plan' = Tail(plan) /\ input' = Head(plan).add
        /\ assumptions' = Oracle!assume(Head(plan).assume)
        /\ result' = Oracle!Running /\ model' = {} /\ failed' = {} /\ UNCHANGED formula
    BY <1>1 DEF BeginCall
  <2>2. result # Oracle!Running
    BY <2>1 DEF Inv, CallInv
  <2>3. Oracle!Begin
    BY <2>1, <2>2 DEF Oracle!Begin
  <2> QED BY <2>3 DEF Oracle!Next
<1>2. CASE AddClause
  <2>1. /\ pc = "add" /\ input # <<>> /\ formula' = formula \cup {ToSet(Head(input))}
        /\ input' = Tail(input) /\ UNCHANGED <<plan, assumptions, result, model, failed>>
    BY <1>2 DEF AddClause, answerVars
  <2>2. result = Oracle!Running
    BY <2>1 DEF Inv, CallInv
  <2>3. Oracle!Add
    BY <2>1, <2>2, OracleTerms DEF Oracle!Add
  <2> QED BY <2>3 DEF Oracle!Next
<1>3. CASE RestoreClause \/ EndRestore \/ Inprocess \/ EndRound \/ Learn
  <2>1. UNCHANGED userVars /\ UNCHANGED answerVars
    BY <1>3 DEF RestoreClause, EndRestore, Inprocess, EndRound, Learn
  <2> QED BY <2>1 DEF userVars, answerVars, Oracle!oracleVars
<1>4. CASE UNCHANGED vars \/ Done
  <2>1. UNCHANGED vars
    BY <1>4 DEF Done
  <2> QED BY <2>1 DEF vars, userVars, answerVars, Oracle!oracleVars
<1>5. CASE StartSolve
  BY <1>5, StartSolveAnswers DEF Oracle!Next
<1>6. CASE EndSolve
  BY <1>6, EndSolveAnswers DEF Oracle!Next
<1> QED BY <1>1, <1>2, <1>3, <1>4, <1>5, <1>6 DEF Next

\* The solver with all its techniques implements the oracle: over any number
\* of calls, a model satisfies all clauses and assumptions of the user, and
\* the failed assumptions are refuted by the clauses.
THEOREM InprocessingImplementsOracle == Spec => ImplementsOracle
<1>1. Init => Oracle!Init
  BY DEF Init
<1>2. Inv /\ [Next]_vars => [Oracle!Next]_(Oracle!oracleVars)
  BY OracleStep
<1> QED BY <1>1, <1>2, InprocessingInvariant, PTL DEF Spec, ImplementsOracle, Oracle!Spec
===============================================================================
