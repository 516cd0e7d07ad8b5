------------------------ MODULE ModularPartitionProofs ------------------------
(***************************************************************************)
(* Proofs about Graph::modular_partition, for every graph decompose calls  *)
(* it for and every vertex x: the queues stay consistent with the parts,   *)
(* no module that avoids x is taken apart, and at the end every part is a  *)
(* module.                                                                 *)
(*                                                                         *)
(* The last is the subtle one, because of a part that is split only the    *)
(* smaller half is used with all of its vertices.  The invariant behind    *)
(* it, Refining, says what is still owed between any two parts.            *)
(***************************************************************************)
EXTENDS ModularPartition, FiniteSetTheorems, SequenceTheorems,
        WellFoundedInduction, TLAPS

------------------------------------------------------------------------------
(***************************************************************************)
(* The inductive invariant.                                                *)
(***************************************************************************)

AllParts == {A \in SUBSET V : A # {}}

Holds(s, A) == \E i \in 1 .. Len(s) : s[i] = A

Distinct(s) == \A i, j \in 1 .. Len(s) : s[i] = s[j] => i = j

Shape ==
  /\ IsSimple(G) /\ x \in V
  /\ Q \in Seq(AllParts) /\ K \in Seq(AllParts) /\ L \in Seq(AllParts)
  /\ xs \in Seq(V)
  /\ q_size \in 0 .. Len(Q) /\ y_id \in 1 .. q_size + 1

Partition ==
  /\ \A v \in V : \E i \in 1 .. Len(Q) : v \in Q[i]
  /\ \A i, j \in 1 .. Len(Q) : i # j => Q[i] \cap Q[j] = {}

Queues ==
  /\ \A A \in AllParts : Holds(L, A) \/ Holds(K, A) => Holds(Q, A)
  /\ Distinct(L) /\ Distinct(K)
  /\ \A A \in AllParts : ~(Holds(L, A) /\ Holds(K, A))

\* v does not tell the members of B apart, or will be used to split B.
Uniform(v, B) == B \subseteq neighborhood(G, v) \/ B \cap neighborhood(G, v) = {}

Pending(v, B) ==
  \/ \E i \in 2 .. Len(xs) : xs[i] = v
  \/ xs # <<>> /\ v = Head(xs) /\ \E k \in y_id .. q_size : B = Q[k]

Served(v, B) == Uniform(v, B) \/ Pending(v, B)

\* Every vertex of A serves B, or will once A is taken from L; some vertex of
\* B serves A, or will once B is taken from L or from K.
EachServes(A, B) == Holds(L, A) \/ \A a \in A : Served(a, B)
OneServes(B, A)  == Holds(L, B) \/ Holds(K, B) \/ \E b \in B : Served(b, A)
Settled(A, B)    == EachServes(A, B) /\ OneServes(B, A)

\* What is still owed between two parts: nothing if they are homogeneous,
\* and if not, all vertices of one and one of the other.
Refining ==
  \A A, B \in AllParts :
    Holds(Q, A) /\ Holds(Q, B) /\ A # B =>
      Homogeneous(G, A, B) \/ Settled(A, B) \/ Settled(B, A)

Intact ==
  \A M \in SUBSET (V \ {x}) :
    M # {} /\ IsModule(M) => \E i \in 1 .. Len(Q) : M \subseteq Q[i]

IInv == Shape /\ Partition /\ Queues /\ Refining /\ Intact

------------------------------------------------------------------------------
(***************************************************************************)
(* Sequences of parts.                                                     *)
(***************************************************************************)

\* A non-empty set of naturals has a least element, and Min denotes it.
LEMMA MinOfNats ==
  ASSUME NEW S, S \subseteq Nat, S # {}
  PROVE  Min(S) \in S
<1> DEFINE R == OpToRel(<, Nat)
<1>1. PICK m \in S : \A y \in S : <<y, m>> \notin R
  BY NatLessThanWellFounded, WFMin
<1>2. ASSUME NEW y \in S
      PROVE  m <= y
  <2>1. ~(y < m)
    BY <1>1 DEF OpToRel
  <2> QED BY <2>1
<1>3. \E z \in S : \A y \in S : z <= y
  BY <1>2
<1> QED BY <1>3 DEF Min

\* Disjoint parts are told apart by their first elements.
LEMMA FirstSeparates ==
  ASSUME NEW A \in AllParts, NEW B \in AllParts, A \cap B = {}
  PROVE  First(A) # First(B)
BY VNaturals, MinOfNats DEF AllParts, First

\* Comparing first elements finds the part looked for.
LEMMA PositionFinds ==
  ASSUME NEW s \in Seq(AllParts), Distinct(s), NEW Y \in AllParts,
         \A i \in 1 .. Len(s) : s[i] = Y \/ s[i] \cap Y = {}
  PROVE  /\ Position(s, Y) = {} <=> ~Holds(s, Y)
         /\ Position(s, Y) # {} =>
              Max(Position(s, Y)) \in 1 .. Len(s) /\ s[Max(Position(s, Y))] = Y
<1>1. DOMAIN s = 1 .. Len(s) /\ (\A i \in 1 .. Len(s) : s[i] \in AllParts)
  BY LenProperties, ElementOfSeq
<1>2. Position(s, Y) = {i \in 1 .. Len(s) : s[i] = Y}
  BY <1>1, FirstSeparates DEF Position
<1>3. \A i, j \in Position(s, Y) : i = j /\ i \in Int
  BY <1>2 DEF Distinct
<1>4. Position(s, Y) # {} => Max(Position(s, Y)) \in Position(s, Y)
  BY <1>3 DEF Max
<1> QED BY <1>2, <1>4 DEF Holds

\* What push_back does to a queue.
LEMMA AppendHolds ==
  ASSUME NEW s \in Seq(AllParts), NEW e \in AllParts
  PROVE  /\ Append(s, e) \in Seq(AllParts)
         /\ \A A : Holds(Append(s, e), A) <=> Holds(s, A) \/ A = e
         /\ Distinct(s) /\ ~Holds(s, e) => Distinct(Append(s, e))
<1> DEFINE t == Append(s, e)
<1>1. /\ t \in Seq(AllParts) /\ Len(t) = Len(s) + 1 /\ Len(s) \in Nat
      /\ \A i \in 1 .. Len(s) : t[i] = s[i]
      /\ t[Len(s) + 1] = e
  BY AppendProperties, LenProperties
<1> HIDE DEF t
<1>2. \A A : Holds(t, A) <=> Holds(s, A) \/ A = e
  <2> SUFFICES ASSUME NEW A
               PROVE  Holds(t, A) <=> Holds(s, A) \/ A = e
    OBVIOUS
  <2>1. \A i \in 1 .. Len(t) : i \in 1 .. Len(s) \/ i = Len(s) + 1
    BY <1>1
  <2>2. Len(s) + 1 \in 1 .. Len(t) /\ \A i \in 1 .. Len(s) : i \in 1 .. Len(t)
    BY <1>1
  <2> QED BY <1>1, <2>1, <2>2 DEF Holds
<1>3. Distinct(s) /\ ~Holds(s, e) => Distinct(t)
  BY <1>1 DEF Holds, Distinct
<1> QED BY <1>1, <1>2, <1>3 DEF t

\* What an assignment to an element does to a queue without repetitions.
LEMMA ReplaceHolds ==
  ASSUME NEW s \in Seq(AllParts), Distinct(s), NEW k \in 1 .. Len(s),
         NEW e \in AllParts
  PROVE  /\ [s EXCEPT ![k] = e] \in Seq(AllParts)
         /\ \A A : Holds([s EXCEPT ![k] = e], A) <=>
                     (Holds(s, A) /\ A # s[k]) \/ A = e
         /\ ~Holds(s, e) => Distinct([s EXCEPT ![k] = e])
<1> DEFINE t == [s EXCEPT ![k] = e]
<1>1. /\ t \in Seq(AllParts) /\ Len(t) = Len(s) /\ Len(s) \in Nat
      /\ \A i \in 1 .. Len(s) : t[i] = IF i = k THEN e ELSE s[i]
  BY ExceptSeq, LenProperties
<1> HIDE DEF t
<1>2. \A A : Holds(t, A) <=> (Holds(s, A) /\ A # s[k]) \/ A = e
  BY <1>1 DEF Holds, Distinct
<1>3. ~Holds(s, e) => Distinct(t)
  BY <1>1 DEF Holds, Distinct
<1> QED BY <1>1, <1>2, <1>3 DEF t

------------------------------------------------------------------------------
(***************************************************************************)
(* What a split does to the parts and to the queues.                       *)
(***************************************************************************)

\* Parts of Q that share a vertex are the same part.
LEMMA PartsDisjoint ==
  ASSUME Shape, Partition,
         NEW A \in AllParts, NEW B \in AllParts, Holds(Q, A), Holds(Q, B)
  PROVE  A = B \/ A \cap B = {}
BY DEF Holds, Partition

\* The halves A and B of the part Y that is split, and where they go: A, the
\* smaller, to the end of Q and to L, B to the place of Y in Q and in the queue
\* Y was waiting in, or to K.
Halves(A, B) ==
  LET Y == Q[y_id] IN
  /\ A \union B = Y /\ A \cap B = {} /\ A # Y /\ B # Y
  /\ Uniform(Head(xs), A) /\ Uniform(Head(xs), B) /\ Head(xs) \notin Y
  /\ \A M \in SUBSET Y : Uniform(Head(xs), M) => M \subseteq A \/ M \subseteq B
  /\ ~Holds(Q, A) /\ ~Holds(Q, B)
  /\ Q' = Append([Q EXCEPT ![y_id] = B], A)
  /\ \/ /\ Holds(L, Y) /\ K' = K
        /\ \E k \in 1 .. Len(L) : L[k] = Y /\ L' = Append([L EXCEPT ![k] = A], B)
     \/ /\ ~Holds(L, Y) /\ L' = Append(L, A)
        /\ \/ ~Holds(K, Y) /\ K' = Append(K, B)
           \/ \E k \in 1 .. Len(K) : K[k] = Y /\ K' = [K EXCEPT ![k] = B]

\* The action Split, with the first elements it compares resolved.
LEMMA SplitHalves ==
  ASSUME Shape, Partition, Queues, Split
  PROVE  /\ Q[y_id] \in AllParts /\ y_id \in 1 .. Len(Q)
         /\ \E A, B \in AllParts : Halves(A, B)
<1> DEFINE Y == Q[y_id]
           small == Cardinality(inside(Y)) <= Cardinality(outside(Y))
           A == IF small THEN inside(Y) ELSE outside(Y)
           B == IF small THEN outside(Y) ELSE inside(Y)
<1>1. y_id \in 1 .. Len(Q) /\ Y \in AllParts
  BY LenProperties, ElementOfSeq DEF Shape, Split
<1>2. Head(xs) \notin Y /\ inside(Y) # {} /\ outside(Y) # {}
  BY DEF Split, Splits
<1>3. /\ inside(Y) \in AllParts /\ outside(Y) \in AllParts
      /\ inside(Y) \union outside(Y) = Y /\ inside(Y) \cap outside(Y) = {}
      /\ Uniform(Head(xs), inside(Y)) /\ Uniform(Head(xs), outside(Y))
  BY <1>1, <1>2 DEF inside, outside, AllParts, Uniform
<1>4. /\ A \in AllParts /\ B \in AllParts
      /\ A \union B = Y /\ A \cap B = {} /\ A # Y /\ B # Y
      /\ Uniform(Head(xs), A) /\ Uniform(Head(xs), B)
  BY <1>2, <1>3
<1>12. \A M \in SUBSET Y : Uniform(Head(xs), M) => M \subseteq A \/ M \subseteq B
  BY DEF Uniform, inside, outside
<1>5. Holds(Q, Y)
  BY <1>1 DEF Holds
<1>6. ~Holds(Q, A) /\ ~Holds(Q, B)
  <2> HIDE DEF A, B, Y
  <2> QED BY <1>1, <1>4, <1>5, PartsDisjoint DEF AllParts
<1>7. /\ Q' = Append([Q EXCEPT ![y_id] = B], A)
      /\ IF Position(L, Y) # {}
         THEN L' = Append([L EXCEPT ![Max(Position(L, Y))] = A], B) /\ K' = K
         ELSE /\ L' = Append(L, A)
              /\ K' = IF Position(K, Y) # {} THEN [K EXCEPT ![Max(Position(K, Y))] = B]
                      ELSE Append(K, B)
  BY DEF Split
<1> HIDE DEF A, B, small, Y
<1>8. ASSUME NEW s \in Seq(AllParts), Distinct(s),
             \A C \in AllParts : Holds(s, C) => Holds(Q, C)
      PROVE  /\ Position(s, Y) = {} <=> ~Holds(s, Y)
             /\ Position(s, Y) # {} =>
                  Max(Position(s, Y)) \in 1 .. Len(s) /\ s[Max(Position(s, Y))] = Y
  <2>1. \A k \in 1 .. Len(s) : s[k] \in AllParts /\ Holds(s, s[k])
    BY <1>8, ElementOfSeq DEF Holds
  <2>2. \A k \in 1 .. Len(s) : s[k] = Y \/ s[k] \cap Y = {}
    BY <1>1, <1>5, <1>8, <2>1, PartsDisjoint
  <2> QED BY <1>1, <1>8, <2>2, PositionFinds
<1>9. /\ Position(L, Y) = {} <=> ~Holds(L, Y)
      /\ Position(L, Y) # {} =>
           Max(Position(L, Y)) \in 1 .. Len(L) /\ L[Max(Position(L, Y))] = Y
  BY <1>8 DEF Shape, Queues
<1>10. /\ Position(K, Y) = {} <=> ~Holds(K, Y)
       /\ Position(K, Y) # {} =>
            Max(Position(K, Y)) \in 1 .. Len(K) /\ K[Max(Position(K, Y))] = Y
  BY <1>8 DEF Shape, Queues
<1>11. Halves(A, B)
  BY <1>2, <1>4, <1>12, <1>6, <1>7, <1>9, <1>10 DEF Halves, Y
<1> QED BY <1>1, <1>4, <1>11 DEF Y

\* The queues after a split, element by element.
LEMMA SplitQueues ==
  ASSUME Shape, Partition, Queues, NEW A \in AllParts, NEW B \in AllParts,
         y_id \in 1 .. Len(Q), Q[y_id] \in AllParts, Halves(A, B)
  PROVE  /\ L' \in Seq(AllParts) /\ K' \in Seq(AllParts)
         /\ Distinct(L') /\ Distinct(K')
         /\ \A C \in AllParts : ~(Holds(L', C) /\ Holds(K', C))
         /\ Holds(L', A) /\ (Holds(L', B) \/ Holds(K', B))
         /\ Holds(L, Q[y_id]) => Holds(L', B)
         /\ \A C \in AllParts :
              /\ Holds(L', C) \/ Holds(K', C) =>
                   C = A \/ C = B \/ (C # Q[y_id] /\ (Holds(L, C) \/ Holds(K, C)))
              /\ C # Q[y_id] => /\ Holds(L, C) => Holds(L', C)
                                /\ Holds(K, C) => Holds(K', C)
<1> DEFINE Y == Q[y_id]
<1>1. /\ ~Holds(L, A) /\ ~Holds(K, A) /\ ~Holds(L, B) /\ ~Holds(K, B)
      /\ A # B /\ A # Y /\ B # Y
      /\ L \in Seq(AllParts) /\ K \in Seq(AllParts) /\ Distinct(L) /\ Distinct(K)
      /\ \A C \in AllParts : ~(Holds(L, C) /\ Holds(K, C))
  BY DEF Halves, Queues, Shape, AllParts
<1>2. CASE /\ Holds(L, Y) /\ K' = K
           /\ \E k \in 1 .. Len(L) : L[k] = Y /\ L' = Append([L EXCEPT ![k] = A], B)
  <2>1. PICK k \in 1 .. Len(L) : L[k] = Y /\ L' = Append([L EXCEPT ![k] = A], B)
    BY <1>2
  <2> DEFINE M == [L EXCEPT ![k] = A]
  <2>2. /\ M \in Seq(AllParts) /\ Distinct(M)
        /\ \A C : Holds(M, C) <=> (Holds(L, C) /\ C # Y) \/ C = A
    BY <1>1, <2>1, ReplaceHolds
  <2> HIDE DEF M
  <2>3. /\ L' \in Seq(AllParts) /\ Distinct(L')
        /\ \A C : Holds(L', C) <=> Holds(M, C) \/ C = B
    BY <1>1, <2>1, <2>2, AppendHolds DEF M
  <2> QED BY <1>1, <1>2, <2>2, <2>3
<1>3. CASE ~Holds(L, Y) /\ L' = Append(L, A) /\ ~Holds(K, Y) /\ K' = Append(K, B)
  <2>1. /\ L' \in Seq(AllParts) /\ Distinct(L')
        /\ \A C : Holds(L', C) <=> Holds(L, C) \/ C = A
    BY <1>1, <1>3, AppendHolds
  <2>2. /\ K' \in Seq(AllParts) /\ Distinct(K')
        /\ \A C : Holds(K', C) <=> Holds(K, C) \/ C = B
    BY <1>1, <1>3, AppendHolds
  <2> QED BY <1>1, <1>3, <2>1, <2>2
<1>4. CASE /\ ~Holds(L, Y) /\ L' = Append(L, A)
           /\ \E k \in 1 .. Len(K) : K[k] = Y /\ K' = [K EXCEPT ![k] = B]
  <2>1. /\ L' \in Seq(AllParts) /\ Distinct(L')
        /\ \A C : Holds(L', C) <=> Holds(L, C) \/ C = A
    BY <1>1, <1>4, AppendHolds
  <2>2. PICK k \in 1 .. Len(K) : K[k] = Y /\ K' = [K EXCEPT ![k] = B]
    BY <1>4
  <2> DEFINE M == [K EXCEPT ![k] = B]
  <2>3. K[k] = Y /\ K' = M
    BY <2>2
  <2>4. /\ M \in Seq(AllParts) /\ Distinct(M)
        /\ \A C : Holds(M, C) <=> (Holds(K, C) /\ C # K[k]) \/ C = B
    BY <1>1, ReplaceHolds
  <2> HIDE DEF M
  <2>5. /\ K' \in Seq(AllParts) /\ Distinct(K')
        /\ \A C : Holds(K', C) <=> (Holds(K, C) /\ C # Y) \/ C = B
    BY <2>3, <2>4
  <2> QED BY <1>1, <1>4, <2>1, <2>5
<1> QED BY <1>2, <1>3, <1>4 DEF Halves

\* The parts after a split, element by element.
LEMMA SplitPartition ==
  ASSUME Shape, Partition, NEW A \in AllParts, NEW B \in AllParts,
         y_id \in 1 .. Len(Q), Q[y_id] \in AllParts, Halves(A, B)
  PROVE  /\ Q' \in Seq(AllParts) /\ Len(Q') = Len(Q) + 1 /\ Len(Q) \in Nat
         /\ Q'[y_id] = B /\ Q'[Len(Q) + 1] = A
         /\ \A i \in 1 .. Len(Q) : i # y_id => Q'[i] = Q[i]
         /\ \A C \in AllParts :
              Holds(Q', C) <=> C = A \/ C = B \/ (C # Q[y_id] /\ Holds(Q, C))
<1> DEFINE R == [Q EXCEPT ![y_id] = B]
<1>1. Distinct(Q)
  <2>1. \A i \in 1 .. Len(Q) : Q[i] # {}
    BY ElementOfSeq DEF Shape, AllParts
  <2> QED BY <2>1 DEF Distinct, Partition
<1>2. /\ R \in Seq(AllParts) /\ Len(R) = Len(Q) /\ Len(Q) \in Nat
      /\ \A i \in 1 .. Len(Q) : R[i] = IF i = y_id THEN B ELSE Q[i]
  BY ExceptSeq, LenProperties DEF Shape
<1>3. \A C : Holds(R, C) <=> (Holds(Q, C) /\ C # Q[y_id]) \/ C = B
  BY <1>1, ReplaceHolds DEF Shape
<1>4. Q' = Append(R, A)
  BY DEF Halves
<1> HIDE DEF R
<1>5. /\ Q' \in Seq(AllParts) /\ Len(Q') = Len(R) + 1
      /\ \A i \in 1 .. Len(R) : Q'[i] = R[i]
      /\ Q'[Len(R) + 1] = A
  BY <1>2, <1>4, AppendProperties
<1>6. \A C : Holds(Q', C) <=> Holds(R, C) \/ C = A
  BY <1>2, <1>4, AppendHolds
<1> QED BY <1>2, <1>3, <1>5, <1>6

------------------------------------------------------------------------------
(***************************************************************************)
(* The vertices of a part taken from L.                                    *)
(***************************************************************************)

\* A part is met from its least to its greatest vertex, each of them once.
LEMMA AscendingElements ==
  ASSUME NEW S \in AllParts
  PROVE  /\ Ascending(S) \in Seq(V)
         /\ Ascending(S) # <<>>
         /\ \A v \in S : \E i \in 1 .. Len(Ascending(S)) : Ascending(S)[i] = v
<1> DEFINE n == Cardinality(S)
           below(v) == {w \in S : w < v}
           rank == [v \in S |-> Cardinality(below(v)) + 1]
<1>1. IsFiniteSet(S) /\ n \in Nat /\ n # 0 /\ S \subseteq Nat /\ S \subseteq V
  BY VFinite, VNaturals, FS_Subset, FS_CardinalityType, FS_EmptySet DEF AllParts
<1>2. ASSUME NEW v \in S
      PROVE  IsFiniteSet(below(v)) /\ Cardinality(below(v)) \in 0 .. n - 1
  <2>1. IsFiniteSet(S \ {v}) /\ Cardinality(S \ {v}) = n - 1
    BY <1>1, FS_RemoveElement
  <2>2. below(v) \subseteq S \ {v}
    BY <1>1
  <2>3. IsFiniteSet(below(v)) /\ Cardinality(below(v)) <= n - 1
    BY <2>1, <2>2, FS_Subset
  <2> QED BY <1>1, <2>3, FS_CardinalityType
<1>3. ASSUME NEW v \in S, NEW u \in S, v < u
      PROVE  Cardinality(below(v)) < Cardinality(below(u))
  <2>1. \A w \in S : w \in Nat
    BY <1>1
  <2>2. \A w \in S : w < v => w < u
    BY <1>3, <2>1
  <2>3. below(v) \subseteq below(u) /\ v \in below(u) /\ v \notin below(v)
    BY <1>3, <2>1, <2>2
  <2>4. IsFiniteSet(below(u)) /\ below(v) \in SUBSET below(u) /\ below(v) # below(u)
    BY <1>2, <2>3
  <2>5. Cardinality(below(v)) \in Nat /\ Cardinality(below(u)) \in Nat
    BY <1>2, <1>1
  <2> HIDE DEF below
  <2> QED BY <2>4, <2>5, FS_Subset
<1>4. \A v, u \in S : Cardinality(below(v)) = Cardinality(below(u)) => v = u
  <2> SUFFICES ASSUME NEW v \in S, NEW u \in S, v # u
               PROVE  Cardinality(below(v)) # Cardinality(below(u))
    OBVIOUS
  <2>1. v < u \/ u < v
    BY <1>1
  <2>2. Cardinality(below(v)) \in Nat /\ Cardinality(below(u)) \in Nat
    BY <1>1, <1>2
  <2> HIDE DEF below
  <2> QED BY <1>3, <2>1, <2>2
<1>5. rank \in Injection(S, 1 .. n)
  <2>1. rank \in [S -> 1 .. n]
    BY <1>1, <1>2
  <2>2. \A v, u \in S : rank[v] = rank[u] => v = u
    <3> HIDE DEF below
    <3> QED BY <1>2, <1>4
  <2> HIDE DEF rank
  <2> QED BY <2>1, <2>2 DEF Injection, IsInjective
<1>6. rank \in Surjection(S, 1 .. n)
  <2>1. IsFiniteSet(1 .. n) /\ Cardinality(1 .. n) = n
    BY <1>1, FS_Interval
  <2> QED BY <1>5, <2>1, FS_Injection
<1>7. \A i \in 1 .. n : \E v \in S : rank[v] = i
  BY <1>6 DEF Surjection
<1>8. ASSUME NEW i \in 1 .. n
      PROVE  /\ Ascending(S)[i] \in S
             /\ \A v \in S : rank[v] = i => Ascending(S)[i] = v
  <2>1. Ascending(S)[i] = CHOOSE v \in S : Cardinality(below(v)) = i - 1
    BY DEF Ascending
  <2>2. \E v \in S : Cardinality(below(v)) = i - 1
    <3>1. PICK v \in S : rank[v] = i
      BY <1>7
    <3>2. Cardinality(below(v)) \in Nat /\ rank[v] = Cardinality(below(v)) + 1
      BY <1>1, <1>2
    <3> HIDE DEF below, rank
    <3>3. Cardinality(below(v)) = i - 1
      BY <3>1, <3>2
    <3> QED BY <3>3
  <2> HIDE DEF below
  <2>3. Ascending(S)[i] \in S /\ Cardinality(below(Ascending(S)[i])) = i - 1
    BY <2>1, <2>2
  <2>4. \A v \in S : rank[v] = i => Cardinality(below(v)) = i - 1
    BY <1>2
  <2> QED BY <1>4, <2>3, <2>4
<1>9. Ascending(S) \in [1 .. n -> V] /\ Len(Ascending(S)) = n
  <2>1. Ascending(S) = [i \in 1 .. n |-> CHOOSE v \in S : Cardinality(below(v)) = i - 1]
    BY DEF Ascending
  <2>2. Ascending(S) \in [1 .. n -> V]
    BY <1>1, <1>8, <2>1
  <2> QED BY <1>1, <2>2
<1>10. Ascending(S) \in Seq(V)
  BY <1>1, <1>9, SeqDef
<1>11. \A v \in S : rank[v] \in 1 .. n
  BY <1>1, <1>2
<1> QED BY <1>1, <1>8, <1>9, <1>10, <1>11

------------------------------------------------------------------------------
(***************************************************************************)
(* The initial state.                                                      *)
(***************************************************************************)

\* Of three parts one waits in K, the other two wait in L.
LEMMA WaitingThree ==
  ASSUME NEW P \in Seq(AllParts), Len(P) = 3
  PROVE  \E k, i, j \in 1 .. 3 :
           /\ k # i /\ k # j /\ i # j
           /\ WaitingK(P) = <<P[k]>> /\ WaitingL(P) = <<P[i], P[j]>>
<1> DEFINE Best(i, j) == \A k \in 1 .. i :
                           /\ Cardinality(P[k]) <= Cardinality(P[j])
                           /\ k < j => Cardinality(P[k]) < Cardinality(P[j])
<1>1. \A k \in 1 .. 3 : Cardinality(P[k]) \in Nat
  <2> SUFFICES ASSUME NEW k \in 1 .. 3
               PROVE  Cardinality(P[k]) \in Nat
    OBVIOUS
  <2>1. P[k] \in AllParts
    BY ElementOfSeq
  <2> QED BY <2>1, VFinite, FS_Subset, FS_CardinalityType DEF AllParts
<1>2. \A i \in 1 .. 3 : Largest(P, i) = CHOOSE j \in 1 .. i : Best(i, j)
  BY DEF Largest
<1>3. /\ \E j \in 1 .. 1 : Best(1, j)
      /\ \E j \in 1 .. 2 : Best(2, j)
      /\ \E j \in 1 .. 3 : Best(3, j)
  <2> DEFINE a == Cardinality(P[1])
             b == Cardinality(P[2])
             c == Cardinality(P[3])
  <2>1. a \in Nat /\ b \in Nat /\ c \in Nat
    BY <1>1
  <2>2. \A j \in 1 .. 3 : Cardinality(P[j]) = IF j = 1 THEN a ELSE IF j = 2 THEN b ELSE c
    OBVIOUS
  <2> HIDE DEF a, b, c
  <2>3. Best(1, 1)
    BY <2>1, <2>2
  <2>4. Best(2, IF a < b THEN 2 ELSE 1)
    BY <2>1, <2>2
  <2>5. Best(3, IF a < b THEN (IF b < c THEN 3 ELSE 2) ELSE (IF a < c THEN 3 ELSE 1))
    BY <2>1, <2>2
  <2> HIDE DEF Best
  <2> QED BY <2>3, <2>4, <2>5
<1>4. ASSUME NEW i \in 1 .. 3, NEW j \in 1 .. i, NEW l \in 1 .. i,
             Best(i, j), Best(i, l)
      PROVE  j = l
  <2>1. Cardinality(P[j]) \in Nat /\ Cardinality(P[l]) \in Nat
    BY <1>1
  <2>2. j < l => Cardinality(P[j]) < Cardinality(P[l]) /\ Cardinality(P[l]) <= Cardinality(P[j])
    BY <1>4
  <2>3. l < j => Cardinality(P[l]) < Cardinality(P[j]) /\ Cardinality(P[j]) <= Cardinality(P[l])
    BY <1>4
  <2> QED BY <2>1, <2>2, <2>3
<1>5. Best(3, 1) => Best(2, 1)
  OBVIOUS
<1>6. Best(3, 2) => Best(2, 2)
  OBVIOUS
<1> HIDE DEF Best
<1>7. /\ Largest(P, 1) \in 1 .. 1
      /\ Largest(P, 2) \in 1 .. 2 /\ Best(2, Largest(P, 2))
      /\ Largest(P, 3) \in 1 .. 3 /\ Best(3, Largest(P, 3))
  BY <1>2, <1>3
<1>8. Largest(P, 1) = 1 /\ (Largest(P, 3) = 3 \/ Largest(P, 3) = Largest(P, 2))
  BY <1>4, <1>5, <1>6, <1>7
<1>9. /\ WaitingK(P) = <<P[Largest(P, 3)]>>
      /\ WaitingL(P) = <<IF Largest(P, 2) = 2 THEN P[1] ELSE P[2],
                         IF Largest(P, 3) = 3 THEN P[Largest(P, 2)] ELSE P[3]>>
  <2>1. WaitingK(P) = <<P[Largest(P, 3)]>>
    BY DEF WaitingK
  <2>2. WaitingL(P) = [m \in 1 .. 2 |-> IF Largest(P, m + 1) = m + 1 THEN P[Largest(P, m)]
                                        ELSE P[m + 1]]
    BY DEF WaitingL
  <2>3. \A m \in 1 .. 2 : m = 1 \/ m = 2
    OBVIOUS
  <2> QED BY <1>8, <2>1, <2>2, <2>3
<1>10. CASE Largest(P, 2) = 1 /\ Largest(P, 3) = 1
  <2>1. WaitingK(P) = <<P[1]>> /\ WaitingL(P) = <<P[2], P[3]>>
    BY <1>9, <1>10
  <2> QED BY <2>1
<1>11. CASE Largest(P, 2) = 1 /\ Largest(P, 3) = 3
  <2>1. WaitingK(P) = <<P[3]>> /\ WaitingL(P) = <<P[2], P[1]>>
    BY <1>9, <1>11
  <2> QED BY <2>1
<1>12. CASE Largest(P, 2) = 2 /\ Largest(P, 3) = 2
  <2>1. WaitingK(P) = <<P[2]>> /\ WaitingL(P) = <<P[1], P[3]>>
    BY <1>9, <1>12
  <2> QED BY <2>1
<1>13. CASE Largest(P, 2) = 2 /\ Largest(P, 3) = 3
  <2>1. WaitingK(P) = <<P[3]>> /\ WaitingL(P) = <<P[1], P[2]>>
    BY <1>9, <1>13
  <2> QED BY <2>1
<1> QED BY <1>7, <1>8, <1>10, <1>11, <1>12, <1>13

\* The graph and its complement being connected, x has a neighbour and another
\* vertex that is not one: prime_decomposition starts from three parts.
LEMMA ThreeParts ==
  ASSUME NEW g \in Inputs, NEW v \in V
  PROVE  /\ {v} \in AllParts
         /\ neighborhood(g, v) \in AllParts
         /\ V \ (neighborhood(g, v) \union {v}) \in AllParts
<1>1. V # {v}
  <2>1. Cardinality({v}) = 1
    BY FS_Singleton
  <2> QED BY <2>1, VNaturals
<1>2. {v} \in (SUBSET V) \ {{}, V}
  BY <1>1
<1>3. is_connected(g) /\ is_connected(Complement(g))
  BY InputsPrime
<1>4. (UNION {neighborhood(g, u) : u \in {v}}) \ {v} # {}
  BY <1>2, <1>3 DEF is_connected
<1>5. (UNION {neighborhood(Complement(g), u) : u \in {v}}) \ {v} # {}
  BY <1>2, <1>3 DEF is_connected
<1>6. neighborhood(g, v) # {}
  BY <1>4
<1>7. PICK w \in V : w # v /\ w \notin neighborhood(g, v)
  BY <1>5 DEF neighborhood, Complement
<1> QED BY <1>6, <1>7 DEF AllParts, neighborhood

\* When some part is in no queue but K's single one, each other part is to
\* serve it with all vertices, and it is to serve each other one with one.
LEMMA InitInv == Init => IInv
<1> SUFFICES ASSUME Init
             PROVE  IInv
  OBVIOUS
<1> DEFINE A1 == {x}
           A2 == neighborhood(G, x)
           A3 == V \ (neighborhood(G, x) \union {x})
<1>1. /\ G \in Inputs /\ x \in V
      /\ Q = <<A1, A2, A3>> /\ K = WaitingK(Q) /\ L = WaitingL(Q)
      /\ xs = <<>> /\ y_id = 1 /\ q_size = 0
  BY DEF Init
<1>2. IsSimple(G)
  BY <1>1, InputsSimple
<1>3. A1 \in AllParts /\ A2 \in AllParts /\ A3 \in AllParts
  BY <1>1, ThreeParts
<1>4. /\ A1 \union A2 \union A3 = V
      /\ A1 \cap A2 = {} /\ A1 \cap A3 = {} /\ A2 \cap A3 = {}
  BY <1>1, <1>2 DEF neighborhood, IsSimple
<1>5. Q \in Seq(AllParts) /\ Len(Q) = 3 /\ Q[1] = A1 /\ Q[2] = A2 /\ Q[3] = A3
  <2> HIDE DEF A1, A2, A3
  <2> QED BY <1>1, <1>3
<1>6. PICK k, i, j \in 1 .. 3 :
        /\ k # i /\ k # j /\ i # j
        /\ WaitingK(Q) = <<Q[k]>> /\ WaitingL(Q) = <<Q[i], Q[j]>>
  BY <1>5, WaitingThree
<1>7. \A m \in 1 .. 3 : Q[m] \in AllParts
  BY <1>5, ElementOfSeq
<1>8. \A m, l \in 1 .. 3 : m # l => Q[m] \cap Q[l] = {} /\ Q[m] # Q[l]
  <2> HIDE DEF A1, A2, A3
  <2> QED BY <1>3, <1>4, <1>5 DEF AllParts
<1>9. /\ K \in Seq(AllParts) /\ L \in Seq(AllParts)
      /\ Len(K) = 1 /\ K[1] = Q[k]
      /\ Len(L) = 2 /\ L[1] = Q[i] /\ L[2] = Q[j]
  <2>1. K = <<Q[k]>> /\ L = <<Q[i], Q[j]>>
    BY <1>1, <1>6
  <2>2. Q[k] \in AllParts /\ Q[i] \in AllParts /\ Q[j] \in AllParts
    BY <1>7
  <2> QED BY <2>1, <2>2
<1>10. Shape
  BY <1>1, <1>2, <1>5, <1>9 DEF Shape
<1>11. Partition
  <2>1. \A v \in V : \E m \in 1 .. 3 : v \in Q[m]
    <3> HIDE DEF A1, A2, A3
    <3> QED BY <1>4, <1>5
  <2> QED BY <1>5, <1>8, <2>1 DEF Partition
<1>12. /\ \A A : Holds(K, A) <=> A = Q[k]
       /\ \A A : Holds(L, A) <=> A = Q[i] \/ A = Q[j]
       /\ \A A : Holds(Q, A) <=> \E m \in 1 .. 3 : A = Q[m]
  BY <1>5, <1>9 DEF Holds
<1>13. Queues
  <2>1. Distinct(L) /\ Distinct(K)
    BY <1>6, <1>8, <1>9 DEF Distinct
  <2> QED BY <1>6, <1>8, <1>12, <2>1 DEF Queues
<1>14. Refining
  <2> SUFFICES ASSUME NEW A \in AllParts, NEW B \in AllParts,
                      Holds(Q, A), Holds(Q, B), A # B
               PROVE  Settled(A, B) \/ Settled(B, A)
    BY DEF Refining
  <2>1. PICK m \in 1 .. 3, l \in 1 .. 3 : A = Q[m] /\ B = Q[l] /\ m # l
    BY <1>12
  <2>2. m \in {i, j, k} /\ l \in {i, j, k}
    BY <1>6
  <2>3. /\ Holds(L, A) \/ Holds(K, A)
        /\ Holds(L, B) \/ Holds(K, B)
        /\ Holds(L, A) \/ Holds(L, B)
    BY <1>12, <2>1, <2>2
  <2> QED BY <2>3 DEF Settled, EachServes, OneServes
<1>15. Intact
  <2> SUFFICES ASSUME NEW M \in SUBSET (V \ {x}), M # {}, IsModule(M)
               PROVE  \E m \in 1 .. Len(Q) : M \subseteq Q[m]
    BY DEF Intact
  <2>1. M \subseteq A2 \/ M \subseteq A3
    BY <1>1 DEF IsModule
  <2> QED BY <1>5, <2>1
<1> QED BY <1>10, <1>11, <1>13, <1>14, <1>15 DEF IInv

------------------------------------------------------------------------------
(***************************************************************************)
(* The steps that leave the parts alone.                                   *)
(***************************************************************************)

\* What is owed stays settled if every vertex outside B that served B still
\* does, unless its part has just been taken from a queue.
LEMMA RefiningKept ==
  ASSUME Shape, Partition, Refining, UNCHANGED <<G, Q>>,
         \A B \in AllParts : \A v \in V \ B :
           Holds(Q, B) /\ Served(v, B) => Served(v, B)',
         \A A \in AllParts : Holds(L, A) =>
           Holds(L, A)' \/ \A B \in AllParts : Holds(Q, B) => \A a \in A : Served(a, B)',
         \A A \in AllParts : Holds(K, A) =>
           Holds(K, A)' \/ \A B \in AllParts : Holds(Q, B) => \E a \in A : Served(a, B)'
  PROVE  Refining'
<1>1. ASSUME NEW A \in AllParts, NEW B \in AllParts, Holds(Q, A), Holds(Q, B), A # B
      PROVE  /\ EachServes(A, B) => EachServes(A, B)'
             /\ OneServes(A, B) => OneServes(A, B)'
  <2>1. \A a \in A : a \in V \ B
    BY <1>1, PartsDisjoint DEF AllParts
  <2>2. \A a \in A : Served(a, B) => Served(a, B)'
    BY <1>1, <2>1
  <2>3. \E a \in A : TRUE
    BY DEF AllParts
  <2> QED BY <1>1, <2>2, <2>3 DEF EachServes, OneServes
<1>2. \A A : Holds(Q, A)' <=> Holds(Q, A)
  BY DEF Holds
<1>3. \A A, B : Homogeneous(G, A, B)' <=> Homogeneous(G, A, B)
  BY DEF Homogeneous
<1>4. ASSUME NEW A \in AllParts, NEW B \in AllParts, Holds(Q, A)', Holds(Q, B)', A # B
      PROVE  (Homogeneous(G, A, B) \/ Settled(A, B) \/ Settled(B, A))'
  <2>1. Holds(Q, A) /\ Holds(Q, B)
    BY <1>2, <1>4
  <2>2. Homogeneous(G, A, B) \/ Settled(A, B) \/ Settled(B, A)
    BY <1>4, <2>1 DEF Refining
  <2>3. Settled(A, B) => Settled(A, B)'
    BY <1>1, <1>4, <2>1 DEF Settled
  <2>4. Settled(B, A) => Settled(B, A)'
    BY <1>1, <1>4, <2>1 DEF Settled
  <2> QED BY <1>3, <2>2, <2>3, <2>4
<1> QED BY <1>4 DEF Refining

\* What else a step that leaves the parts alone preserves.
LEMMA PartsKept ==
  ASSUME Partition, Intact, UNCHANGED <<G, x, Q>>
  PROVE  Partition' /\ Intact'
BY DEF Partition, Intact, IsModule

\* A part that is left alone is uniform to the vertex, or contains it.
LEMMA KeepInv ==
  ASSUME IInv, Keep
  PROVE  IInv'
<1>1. /\ Shape /\ Partition /\ Queues /\ Refining /\ Intact
      /\ UNCHANGED <<G, x, Q, K, L, xs, q_size>> /\ y_id' = y_id + 1
      /\ xs # <<>> /\ y_id <= q_size /\ ~Splits(Q[y_id])
  BY DEF IInv, Keep
<1>2. Shape'
  BY <1>1, LenProperties DEF Shape
<1>3. Partition' /\ Intact' /\ Queues'
  BY <1>1, PartsKept DEF Queues, Holds, Distinct
<1>4. ASSUME NEW B \in AllParts, NEW v \in V \ B, Holds(Q, B), Served(v, B)
      PROVE  Served(v, B)'
  <2>1. Uniform(v, B) => Uniform(v, B)'
    BY <1>1 DEF Uniform
  <2>2. ASSUME Pending(v, B), ~(\E i \in 2 .. Len(xs) : xs[i] = v),
               ~(\E k \in y_id + 1 .. q_size : B = Q[k])
        PROVE  Uniform(v, B)
    <3>1. v = Head(xs) /\ \E k \in y_id .. q_size : B = Q[k]
      BY <2>2 DEF Pending
    <3>2. B = Q[y_id]
      BY <1>1, <2>2, <3>1 DEF Shape
    <3>3. inside(B) = {} \/ outside(B) = {}
      BY <1>1, <3>1, <3>2 DEF Splits
    <3> QED BY <3>1, <3>3 DEF Uniform, inside, outside
  <2>3. (\E i \in 2 .. Len(xs) : xs[i] = v) => Pending(v, B)'
    BY <1>1 DEF Pending
  <2>4. Pending(v, B) /\ (\E k \in y_id + 1 .. q_size : B = Q[k]) => Pending(v, B)'
    BY <1>1 DEF Pending
  <2> QED BY <1>4, <2>1, <2>2, <2>3, <2>4 DEF Served
<1>5. \A A : /\ Holds(L, A)' <=> Holds(L, A)
             /\ Holds(K, A)' <=> Holds(K, A)
  BY <1>1 DEF Holds
<1>6. Refining'
  BY <1>1, <1>4, <1>5, RefiningKept
<1> QED BY <1>2, <1>3, <1>6 DEF IInv

\* When a loop over Q starts, all of xs is pending for every part.
LEMMA AllPending ==
  ASSUME xs' \in Seq(V), xs' # <<>>, y_id' = 1, q_size' = Len(Q), Q' = Q,
         NEW B, Holds(Q, B), NEW v, NEW i \in 1 .. Len(xs'), xs'[i] = v
  PROVE  Pending(v, B)'
<1>1. CASE i = 1
  <2>1. v = Head(xs')
    BY <1>1
  <2>2. \E k \in y_id' .. q_size' : B = Q'[k]
    BY DEF Holds
  <2> QED BY <2>1, <2>2 DEF Pending
<1>2. CASE i # 1
  <2>1. i \in 2 .. Len(xs')
    BY <1>2
  <2> QED BY <2>1 DEF Pending
<1> QED BY <1>1, <1>2

\* The vertex that is dropped serves every part: all of Q was looked at.
LEMMA NextVertexInv ==
  ASSUME IInv, NextVertex
  PROVE  IInv'
<1>1. /\ Shape /\ Partition /\ Queues /\ Refining /\ Intact
      /\ UNCHANGED <<G, x, Q, K, L>> /\ xs' = Tail(xs) /\ y_id' = 1 /\ q_size' = Len(Q)
      /\ xs # <<>> /\ y_id > q_size
  BY DEF IInv, NextVertex
<1>2. /\ xs' \in Seq(V) /\ Len(xs') = Len(xs) - 1 /\ Len(xs) \in Nat
      /\ \A i \in 1 .. Len(xs') : xs'[i] = xs[i + 1]
  BY <1>1, HeadTailProperties, LenProperties DEF Shape
<1>3. Shape'
  BY <1>1, <1>2, LenProperties DEF Shape
<1>4. Partition' /\ Intact' /\ Queues'
  BY <1>1, PartsKept DEF Queues, Holds, Distinct
<1>5. ASSUME NEW B \in AllParts, NEW v \in V \ B, Holds(Q, B), Served(v, B)
      PROVE  Served(v, B)'
  <2>1. Uniform(v, B) => Uniform(v, B)'
    BY <1>1 DEF Uniform
  <2>2. ASSUME Pending(v, B)
        PROVE  Pending(v, B)'
    <3>1. ~(\E k \in y_id .. q_size : B = Q[k])
      BY <1>1 DEF Shape
    <3>2. PICK i \in 2 .. Len(xs) : xs[i] = v
      BY <2>2, <3>1 DEF Pending
    <3>3. i - 1 \in 1 .. Len(xs') /\ xs'[i - 1] = v
      BY <1>2, <3>2
    <3>4. xs' # <<>>
      BY <3>3
    <3> QED BY <1>1, <1>2, <1>5, <3>3, <3>4, AllPending
  <2> QED BY <1>5, <2>1, <2>2 DEF Served
<1>6. \A A : /\ Holds(L, A)' <=> Holds(L, A)
             /\ Holds(K, A)' <=> Holds(K, A)
  BY <1>1 DEF Holds
<1>7. Refining'
  BY <1>1, <1>5, <1>6, RefiningKept
<1> QED BY <1>3, <1>4, <1>7 DEF IInv

\* A part taken from L serves with all its vertices, which are now pending.
LEMMA TakeFromLInv ==
  ASSUME IInv, TakeFromL
  PROVE  IInv'
<1> DEFINE S == Last(L)
<1>1. /\ Shape /\ Partition /\ Queues /\ Refining /\ Intact
      /\ UNCHANGED <<G, x, Q, K>> /\ y_id' = 1 /\ q_size' = Len(Q)
      /\ xs' = Ascending(S) /\ L' = Front(L) /\ xs = <<>> /\ L # <<>>
  BY DEF IInv, TakeFromL
<1>2. Len(L) \in Nat /\ Len(L) # 0 /\ S \in AllParts /\ S = L[Len(L)]
  <2>1. L \in Seq(AllParts)
    BY <1>1 DEF Shape
  <2>2. Len(L) \in Nat /\ Len(L) # 0
    BY <1>1, <2>1, EmptySeq
  <2> QED BY <2>1, <2>2, ElementOfSeq DEF Last
<1>3. /\ L' \in Seq(AllParts) /\ Len(L') = Len(L) - 1
      /\ \A i \in 1 .. Len(L) - 1 : L'[i] = L[i]
  <2>1. \A i \in 1 .. Len(L) - 1 : L[i] \in AllParts
    BY <1>1, <1>2, ElementOfSeq DEF Shape
  <2>2. L' = SubSeq(L, 1, Len(L) - 1)
    BY <1>1 DEF Front
  <2>3. PICK n \in Nat : n # 0 /\ n = Len(L)
    BY <1>2
  <2>4. /\ SubSeq(L, 1, n - 1) \in Seq(AllParts)
        /\ Len(SubSeq(L, 1, n - 1)) = IF 1 <= n - 1 THEN n - 1 - 1 + 1 ELSE 0
        /\ \A i \in 1 .. n - 1 - 1 + 1 : SubSeq(L, 1, n - 1)[i] = L[1 + i - 1]
    BY <2>1, <2>3, SubSeqProperties
  <2>5. \A i \in 1 .. n - 1 : i \in 1 .. n - 1 - 1 + 1 /\ 1 + i - 1 = i
    OBVIOUS
  <2>6. Len(SubSeq(L, 1, n - 1)) = n - 1
    BY <2>3, <2>4
  <2> QED BY <2>2, <2>3, <2>4, <2>5, <2>6
<1>4. /\ xs' \in Seq(V) /\ xs' # <<>>
      /\ \A v \in S : \E i \in 1 .. Len(xs') : xs'[i] = v
  BY <1>1, <1>2, AscendingElements
<1> HIDE DEF S
<1>5. \A A : /\ Holds(L', A) => Holds(L, A)
             /\ Holds(L, A) => Holds(L', A) \/ A = S
             /\ Holds(K', A) <=> Holds(K, A)
             /\ Holds(Q', A) <=> Holds(Q, A)
  BY <1>1, <1>2, <1>3 DEF Holds
<1>6. Shape'
  BY <1>1, <1>3, <1>4, LenProperties DEF Shape
<1>7. Distinct(L') /\ Distinct(K')
  BY <1>1, <1>2, <1>3 DEF Distinct, Queues
<1>8. Partition' /\ Intact' /\ Queues'
  BY <1>1, <1>5, <1>7, PartsKept DEF Queues
<1>9. ASSUME NEW B \in AllParts, NEW v \in V \ B, Holds(Q, B), Served(v, B)
      PROVE  Served(v, B)'
  <2>1. Uniform(v, B)
    BY <1>1, <1>9 DEF Served, Pending
  <2> QED BY <1>1, <2>1 DEF Served, Uniform
<1>10. ASSUME NEW B \in AllParts, Holds(Q, B), NEW a \in S
       PROVE  Served(a, B)'
  <2>1. PICK i \in 1 .. Len(xs') : xs'[i] = a
    BY <1>4
  <2>2. Pending(a, B)'
    BY <1>1, <1>4, <1>10, <2>1, AllPending
  <2> QED BY <2>2 DEF Served
<1>11. Refining'
  BY <1>1, <1>5, <1>9, <1>10, RefiningKept
<1> QED BY <1>6, <1>8, <1>11 DEF IInv

\* A part taken from K serves with one of its vertices, which is now pending.
LEMMA TakeFromKInv ==
  ASSUME IInv, TakeFromK
  PROVE  IInv'
<1> DEFINE S == K[1]
<1>1. /\ Shape /\ Partition /\ Queues /\ Refining /\ Intact
      /\ UNCHANGED <<G, x, Q, L>> /\ y_id' = 1 /\ q_size' = Len(Q)
      /\ xs' = <<First(S)>> /\ K' = Tail(K) /\ xs = <<>> /\ K # <<>>
  BY DEF IInv, TakeFromK
<1>2. /\ K' \in Seq(AllParts) /\ Len(K') = Len(K) - 1 /\ Len(K) \in Nat /\ Len(K) # 0
      /\ \A i \in 1 .. Len(K') : K'[i] = K[i + 1]
  BY <1>1, HeadTailProperties, LenProperties, EmptySeq DEF Shape
<1>3. S \in AllParts
  BY <1>1, <1>2, ElementOfSeq DEF Shape
<1>4. First(S) \in S /\ First(S) \in V
  BY <1>3, MinOfNats, VNaturals DEF AllParts, First
<1>5. PICK s \in S : xs' \in Seq(V) /\ xs' # <<>> /\ Len(xs') = 1 /\ xs'[1] = s
  BY <1>1, <1>4
<1>6. \A A : /\ Holds(K', A) => Holds(K, A)
             /\ Holds(K, A) => Holds(K', A) \/ A = S
             /\ Holds(L', A) <=> Holds(L, A)
             /\ Holds(Q', A) <=> Holds(Q, A)
  <2> SUFFICES ASSUME NEW A
               PROVE  /\ Holds(K', A) => Holds(K, A)
                      /\ Holds(K, A) => Holds(K', A) \/ A = S
    BY <1>1 DEF Holds
  <2>1. Holds(K', A) => Holds(K, A)
    BY <1>2 DEF Holds
  <2>2. ASSUME NEW i \in 1 .. Len(K), K[i] = A, A # S
        PROVE  Holds(K', A)
    <3>1. i - 1 \in 1 .. Len(K') /\ K'[i - 1] = A
      BY <1>2, <2>2
    <3> QED BY <3>1 DEF Holds
  <2> QED BY <2>1, <2>2 DEF Holds
<1> HIDE DEF S
<1>7. Shape'
  BY <1>1, <1>2, <1>5, LenProperties DEF Shape
<1>8. Distinct(L') /\ Distinct(K')
  BY <1>1, <1>2 DEF Distinct, Queues
<1>9. Partition' /\ Intact' /\ Queues'
  BY <1>1, <1>6, <1>8, PartsKept DEF Queues
<1>10. ASSUME NEW B \in AllParts, NEW v \in V \ B, Holds(Q, B), Served(v, B)
       PROVE  Served(v, B)'
  <2>1. Uniform(v, B)
    BY <1>1, <1>10 DEF Served, Pending
  <2> QED BY <1>1, <2>1 DEF Served, Uniform
<1>11. ASSUME NEW B \in AllParts, Holds(Q, B)
       PROVE  \E a \in S : Served(a, B)'
  <2>1. Pending(s, B)'
    BY <1>1, <1>5, <1>11, AllPending
  <2> QED BY <2>1 DEF Served
<1>12. Refining'
  BY <1>1, <1>6, <1>10, <1>11, RefiningKept
<1> QED BY <1>7, <1>9, <1>12 DEF IInv

------------------------------------------------------------------------------
(***************************************************************************)
(* The step that splits a part.                                            *)
(***************************************************************************)

\* A split keeps what waits in step with Q; the halves owe what their part
\* owed, and one of them waits in L, so that they owe each other nothing more.
LEMMA SplitInv ==
  ASSUME IInv, Split
  PROVE  IInv'
<1>1. /\ Shape /\ Partition /\ Queues /\ Refining /\ Intact
      /\ UNCHANGED <<G, x, xs, q_size>> /\ y_id' = y_id + 1
      /\ xs # <<>> /\ y_id <= q_size
  BY DEF IInv, Split
<1>2. PICK A \in AllParts, B \in AllParts :
        Q[y_id] \in AllParts /\ y_id \in 1 .. Len(Q) /\ Halves(A, B)
  BY <1>1, SplitHalves
<1>3. PICK Y \in AllParts : Y = Q[y_id]
  BY <1>2
<1>4. /\ A \union B = Y /\ A \cap B = {} /\ A # Y /\ B # Y
      /\ Uniform(Head(xs), A) /\ Uniform(Head(xs), B) /\ Head(xs) \notin Y
      /\ \A M \in SUBSET Y : Uniform(Head(xs), M) => M \subseteq A \/ M \subseteq B
      /\ ~Holds(Q, A) /\ ~Holds(Q, B)
  BY <1>2, <1>3 DEF Halves
<1>5. /\ Q' \in Seq(AllParts) /\ Len(Q') = Len(Q) + 1 /\ Len(Q) \in Nat
      /\ Q'[y_id] = B /\ Q'[Len(Q) + 1] = A
      /\ \A i \in 1 .. Len(Q) : i # y_id => Q'[i] = Q[i]
      /\ \A C \in AllParts :
           Holds(Q', C) <=> C = A \/ C = B \/ (C # Y /\ Holds(Q, C))
  BY <1>1, <1>2, <1>3, SplitPartition
<1>6. /\ L' \in Seq(AllParts) /\ K' \in Seq(AllParts)
      /\ Distinct(L') /\ Distinct(K')
      /\ \A C \in AllParts : ~(Holds(L', C) /\ Holds(K', C))
      /\ Holds(L', A) /\ (Holds(L', B) \/ Holds(K', B))
      /\ Holds(L, Y) => Holds(L', B)
      /\ \A C \in AllParts :
           /\ Holds(L', C) \/ Holds(K', C) =>
                C = A \/ C = B \/ (C # Y /\ (Holds(L, C) \/ Holds(K, C)))
           /\ C # Y => /\ Holds(L, C) => Holds(L', C)
                       /\ Holds(K, C) => Holds(K', C)
  BY <1>1, <1>2, <1>3, SplitQueues
<1>7. Shape'
  BY <1>1, <1>5, <1>6 DEF Shape
<1>8. Partition'
  <2>1. ASSUME NEW v \in V
        PROVE  \E i \in 1 .. Len(Q') : v \in Q'[i]
    <3>1. PICK i \in 1 .. Len(Q) : v \in Q[i]
      BY <1>1 DEF Partition
    <3>2. i \in 1 .. Len(Q') /\ Len(Q) + 1 \in 1 .. Len(Q') /\ y_id \in 1 .. Len(Q')
      BY <1>2, <1>5
    <3>3. CASE i = y_id
      BY <1>3, <1>4, <1>5, <3>1, <3>2, <3>3
    <3>4. CASE i # y_id
      BY <1>5, <3>1, <3>2, <3>4
    <3> QED BY <3>3, <3>4
  <2>2. ASSUME NEW i \in 1 .. Len(Q'), NEW j \in 1 .. Len(Q'), i # j
        PROVE  Q'[i] \cap Q'[j] = {}
    <3>1. ASSUME NEW m \in 1 .. Len(Q), m # y_id
          PROVE  Q'[m] \cap A = {} /\ Q'[m] \cap B = {}
      <4>1. Q'[m] = Q[m] /\ Q[m] \cap Y = {}
        BY <1>1, <1>2, <1>3, <1>5, <3>1 DEF Partition
      <4> QED BY <1>4, <4>1
    <3>2. ASSUME NEW m \in 1 .. Len(Q), NEW l \in 1 .. Len(Q), m # l, m # y_id, l # y_id
          PROVE  Q'[m] \cap Q'[l] = {}
      BY <1>1, <1>5, <3>2 DEF Partition
    <3>3. /\ i \in 1 .. Len(Q) \/ i = Len(Q) + 1
          /\ j \in 1 .. Len(Q) \/ j = Len(Q) + 1
      BY <1>5
    <3> QED BY <1>4, <1>5, <2>2, <3>1, <3>2, <3>3
  <2> QED BY <2>1, <2>2 DEF Partition
<1>9. Queues'
  <2>1. \A C \in AllParts : Holds(L', C) \/ Holds(K', C) => Holds(Q', C)
    BY <1>1, <1>5, <1>6 DEF Queues
  <2> QED BY <1>6, <2>1 DEF Queues
<1>10. Intact'
  <2> SUFFICES ASSUME NEW M \in SUBSET (V \ {x}), M # {}, IsModule(M)
               PROVE  \E i \in 1 .. Len(Q') : M \subseteq Q'[i]
    BY <1>1 DEF Intact, IsModule
  <2>1. PICK i \in 1 .. Len(Q) : M \subseteq Q[i]
    BY <1>1 DEF Intact
  <2>2. i \in 1 .. Len(Q') /\ Len(Q) + 1 \in 1 .. Len(Q') /\ y_id \in 1 .. Len(Q')
    BY <1>2, <1>5
  <2>3. CASE i = y_id
    <3>1. Head(xs) \in V
      BY <1>1, HeadTailProperties DEF Shape
    <3>2. M \in SUBSET Y /\ Head(xs) \notin M
      BY <1>3, <1>4, <2>1, <2>3
    <3>3. Uniform(Head(xs), M)
      BY <3>1, <3>2 DEF Uniform, IsModule
    <3>4. M \subseteq A \/ M \subseteq B
      BY <1>4, <3>2, <3>3
    <3> QED BY <1>5, <2>2, <3>4
  <2>4. CASE i # y_id
    BY <1>5, <2>1, <2>2, <2>4
  <2> QED BY <2>3, <2>4
<1>11. Refining'
  \* A vertex that served another part still does; one that served Y serves
  \* both halves.
  <2>1. ASSUME NEW D \in AllParts, Holds(Q, D), D # Y, NEW v, Served(v, D)
        PROVE  Served(v, D)'
    <3>1. Uniform(v, D) => Uniform(v, D)'
      BY <1>1 DEF Uniform
    <3>2. ASSUME NEW k \in y_id .. q_size, D = Q[k]
          PROVE  k \in y_id' .. q_size' /\ D = Q'[k]
      <4>1. k # y_id
        BY <1>3, <2>1, <3>2
      <4>2. k \in 1 .. Len(Q)
        BY <1>1 DEF Shape
      <4>3. D = Q'[k]
        BY <1>5, <3>2, <4>1, <4>2
      <4>4. k \in y_id' .. q_size'
        BY <1>1, <4>1 DEF Shape
      <4> QED BY <4>3, <4>4
    <3>3. Pending(v, D) => Pending(v, D)'
      BY <1>1, <3>2 DEF Pending
    <3> QED BY <2>1, <3>1, <3>3 DEF Served
  <2>2. ASSUME NEW Z \in {A, B}, NEW v, Served(v, Y)
        PROVE  Served(v, Z)'
    <3>1. Z \subseteq Y
      BY <1>4
    <3>2. Uniform(v, Y) => Uniform(v, Z)'
      BY <1>1, <3>1 DEF Uniform
    <3>3. CASE \E i \in 2 .. Len(xs) : xs[i] = v
      BY <1>1, <3>3 DEF Served, Pending
    <3>4. CASE v = Head(xs)
      <4>1. Uniform(v, Z)
        BY <1>4, <3>4
      <4> QED BY <1>1, <4>1 DEF Served, Uniform
    <3> QED BY <2>2, <3>2, <3>3, <3>4 DEF Served, Pending
  <2>3. ASSUME NEW D \in AllParts, Holds(Q, D), D # Y, NEW Z \in {A, B}
        PROVE  /\ EachServes(Y, D) => EachServes(Z, D)'
               /\ OneServes(Z, D)'
               /\ EachServes(D, Y) => EachServes(D, Z)'
               /\ OneServes(D, Y) => OneServes(D, Z)'
    <3>1. Z \subseteq Y
      BY <1>4
    <3>2. OneServes(Z, D)'
      BY <1>6 DEF OneServes
    <3>3. EachServes(Y, D) => EachServes(Z, D)'
      <4>1. Holds(L, Y) => Holds(L', Z)
        BY <1>6
      <4>2. \A a \in Z : Served(a, D) => Served(a, D)'
        BY <2>1, <2>3
      <4> QED BY <3>1, <4>1, <4>2 DEF EachServes
    <3>4. \A a \in D : Served(a, Y) => Served(a, Z)'
      BY <2>2
    <3>5. EachServes(D, Y) => EachServes(D, Z)'
      BY <1>6, <2>3, <3>4 DEF EachServes
    <3>6. OneServes(D, Y) => OneServes(D, Z)'
      BY <1>6, <2>3, <3>4 DEF OneServes
    <3> QED BY <3>2, <3>3, <3>5, <3>6
  <2>4. ASSUME NEW C \in AllParts, NEW D \in AllParts, Holds(Q, C), Holds(Q, D),
               C # Y, D # Y
        PROVE  /\ EachServes(C, D) => EachServes(C, D)'
               /\ OneServes(C, D) => OneServes(C, D)'
    <3>1. \A a \in C : Served(a, D) => Served(a, D)'
      BY <2>1, <2>4
    <3>2. EachServes(C, D) => EachServes(C, D)'
      BY <1>6, <2>4, <3>1 DEF EachServes
    <3>3. OneServes(C, D) => OneServes(C, D)'
      BY <1>6, <2>4, <3>1 DEF OneServes
    <3> QED BY <3>2, <3>3
  <2>5. \A C, D : Homogeneous(G, C, D)' <=> Homogeneous(G, C, D)
    BY <1>1 DEF Homogeneous
  <2>6. Settled(A, B)'
    BY <1>6 DEF Settled, EachServes, OneServes
  <2>7. ASSUME NEW D \in AllParts, Holds(Q, D), D # Y, NEW Z \in {A, B}
        PROVE  /\ (Homogeneous(G, Z, D) \/ Settled(Z, D) \/ Settled(D, Z))'
               /\ (Homogeneous(G, D, Z) \/ Settled(D, Z) \/ Settled(Z, D))'
    <3>1. Holds(Q, Y)
      BY <1>2, <1>3 DEF Holds
    <3>2. /\ Homogeneous(G, Y, D) \/ Settled(Y, D) \/ Settled(D, Y)
          /\ Homogeneous(G, D, Y) \/ Settled(Y, D) \/ Settled(D, Y)
      BY <1>1, <2>7, <3>1 DEF Refining
    <3>3. /\ Homogeneous(G, Y, D) => Homogeneous(G, Z, D)
          /\ Homogeneous(G, D, Y) => Homogeneous(G, D, Z)
      BY <1>4 DEF Homogeneous
    <3>4. Settled(Y, D) => Settled(Z, D)'
      BY <2>3, <2>7 DEF Settled
    <3>5. Settled(D, Y) => Settled(D, Z)'
      BY <2>3, <2>7 DEF Settled
    <3> QED BY <2>5, <3>2, <3>3, <3>4, <3>5
  <2>8. ASSUME NEW C \in AllParts, NEW D \in AllParts, Holds(Q', C), Holds(Q', D), C # D
        PROVE  (Homogeneous(G, C, D) \/ Settled(C, D) \/ Settled(D, C))'
    <3>1. CASE C \in {A, B} /\ D \in {A, B}
      BY <2>6, <2>8, <3>1
    <3>2. CASE C \in {A, B} /\ D \notin {A, B}
      <4>1. Holds(Q, D) /\ D # Y
        BY <1>5, <2>8, <3>2
      <4> QED BY <2>7, <3>2, <4>1
    <3>3. CASE C \notin {A, B} /\ D \in {A, B}
      <4>1. Holds(Q, C) /\ C # Y
        BY <1>5, <2>8, <3>3
      <4> QED BY <2>7, <3>3, <4>1
    <3>4. CASE C \notin {A, B} /\ D \notin {A, B}
      <4>1. Holds(Q, C) /\ C # Y /\ Holds(Q, D) /\ D # Y
        BY <1>5, <2>8, <3>4
      <4>2. Homogeneous(G, C, D) \/ Settled(C, D) \/ Settled(D, C)
        BY <1>1, <2>8, <4>1 DEF Refining
      <4> QED BY <2>4, <2>5, <4>1, <4>2 DEF Settled
    <3> QED BY <3>1, <3>2, <3>3, <3>4
  <2> QED BY <2>8 DEF Refining
<1> QED BY <1>7, <1>8, <1>9, <1>10, <1>11 DEF IInv

------------------------------------------------------------------------------
(***************************************************************************)
(* The theorems.                                                           *)
(***************************************************************************)

\* The invariant holds in every reachable state.
LEMMA Invariance == Spec => []IInv
<1>1. IInv /\ [Next]_vars => IInv'
  <2> SUFFICES ASSUME IInv, [Next]_vars
               PROVE  IInv'
    OBVIOUS
  <2>1. CASE TakeFromL
    BY <2>1, TakeFromLInv
  <2>2. CASE TakeFromK
    BY <2>2, TakeFromKInv
  <2>3. CASE Keep
    BY <2>3, KeepInv
  <2>4. CASE Split
    BY <2>4, SplitInv
  <2>5. CASE NextVertex
    BY <2>5, NextVertexInv
  <2>6. CASE UNCHANGED vars
    <3>1. Shape' /\ Partition' /\ Queues' /\ Intact'
      BY <2>6, PartsKept DEF vars, IInv, Shape, Queues, Holds, Distinct
    <3>2. \A A, v : /\ Holds(L, A)' <=> Holds(L, A)
                    /\ Holds(K, A)' <=> Holds(K, A)
                    /\ Served(v, A)' <=> Served(v, A)
      BY <2>6 DEF vars, Holds, Served, Uniform, Pending
    <3>3. Refining'
      BY <2>6, <3>2, RefiningKept DEF vars, IInv
    <3> QED BY <3>1, <3>3 DEF IInv
  <2> QED BY <2>1, <2>2, <2>3, <2>4, <2>5, <2>6 DEF Next
<1> QED BY InitInv, <1>1, PTL DEF Spec

\* What is in a queue is a part of the current Q, once: a part is never
\* confused with another that starts with the same vertex, and no queue keeps
\* a part that has been split.
THEOREM QueuesStayCurrent == Spec => []QueuesCurrent
<1>1. IInv => QueuesCurrent
  <2> SUFFICES ASSUME Shape, Partition, Queues
               PROVE  QueuesCurrent
    BY DEF IInv
  <2>1. ASSUME NEW s \in Seq(AllParts)
        PROVE  /\ DOMAIN s = 1 .. Len(s) /\ Len(s) \in Nat
               /\ \A i \in 1 .. Len(s) : s[i] \subseteq V /\ s[i] # {} /\ s[i] \in AllParts
               /\ \A A : A \in Range(s) <=> Holds(s, A)
    <3>1. DOMAIN s = 1 .. Len(s) /\ Len(s) \in Nat
      BY LenProperties
    <3>2. \A i \in 1 .. Len(s) : s[i] \in AllParts
      BY ElementOfSeq
    <3> QED BY <3>1, <3>2 DEF AllParts, Range, Holds
  <2>2. /\ Q \in Seq(AllParts) /\ K \in Seq(AllParts) /\ L \in Seq(AllParts)
        /\ xs \in Seq(V) /\ DOMAIN xs = 1 .. Len(xs)
        /\ \A i \in 1 .. Len(xs) : xs[i] \in V
    <3>1. xs \in Seq(V)
      BY DEF Shape
    <3> QED BY <3>1, LenProperties, ElementOfSeq DEF Shape
  <2>3. \A A : /\ Holds(Q, A) \/ Holds(K, A) \/ Holds(L, A) => A \in AllParts
    BY <2>1, <2>2 DEF Holds
  <2>4. TypeOK
    <3>1. \A part \in Range(Q) \union Range(K) \union Range(L) :
            part \subseteq V /\ part # {}
      BY <2>1, <2>2, <2>3 DEF AllParts
    <3>2. Range(xs) \subseteq V
      BY <2>2 DEF Range
    <3> QED BY <3>1, <3>2 DEF TypeOK, Shape
  <2>5. UNION Range(Q) = V
    <3>1. \A v \in V : \E A \in Range(Q) : v \in A
      BY <2>1, <2>2 DEF Partition, Range
    <3>2. \A A \in Range(Q) : A \subseteq V
      BY <2>4 DEF TypeOK
    <3> QED BY <3>1, <3>2
  <2>6. \A i, j \in DOMAIN Q : i # j => Q[i] \cap Q[j] = {}
    BY <2>1, <2>2 DEF Partition
  <2>7. Range(L) \union Range(K) \subseteq Range(Q)
    BY <2>1, <2>2, <2>3 DEF Queues
  <2>8. IsInjective(L \o K)
    <3> DEFINE M == L \o K
    <3>1. /\ M \in Seq(AllParts) /\ Len(M) = Len(L) + Len(K)
          /\ \A i \in 1 .. Len(L) + Len(K) :
               M[i] = IF i <= Len(L) THEN L[i] ELSE K[i - Len(L)]
      BY <2>2, ConcatProperties
    <3>2. DOMAIN M = 1 .. Len(L) + Len(K) /\ Len(L) \in Nat /\ Len(K) \in Nat
      BY <2>1, <2>2, <3>1
    <3> HIDE DEF M
    <3>3. \A i \in 1 .. Len(L), j \in 1 .. Len(K) : L[i] # K[j]
      BY <2>3 DEF Queues, Holds
    <3>4. ASSUME NEW i \in DOMAIN M, NEW j \in DOMAIN M, M[i] = M[j]
          PROVE  i = j
      <4>1. CASE i <= Len(L) /\ j <= Len(L)
        BY <3>1, <3>2, <3>4, <4>1 DEF Queues, Distinct
      <4>2. CASE i > Len(L) /\ j > Len(L)
        <5>1. /\ i - Len(L) \in 1 .. Len(K) /\ j - Len(L) \in 1 .. Len(K)
              /\ K[i - Len(L)] = K[j - Len(L)]
          BY <3>1, <3>2, <3>4, <4>2
        <5>2. i - Len(L) = j - Len(L)
          BY <5>1 DEF Queues, Distinct
        <5> QED BY <3>2, <5>2
      <4>3. CASE i <= Len(L) /\ j > Len(L)
        <5>1. i \in 1 .. Len(L) /\ j - Len(L) \in 1 .. Len(K) /\ L[i] = K[j - Len(L)]
          BY <3>1, <3>2, <3>4, <4>3
        <5> QED BY <3>3, <5>1
      <4>4. CASE i > Len(L) /\ j <= Len(L)
        <5>1. j \in 1 .. Len(L) /\ i - Len(L) \in 1 .. Len(K) /\ L[j] = K[i - Len(L)]
          BY <3>1, <3>2, <3>4, <4>4
        <5> QED BY <3>3, <5>1
      <4> QED BY <3>2, <4>1, <4>2, <4>3, <4>4
    <3>5. IsInjective(M)
      BY <3>4 DEF IsInjective
    <3> QED BY <3>5 DEF M
  <2> QED BY <2>4, <2>5, <2>6, <2>7, <2>8 DEF QueuesCurrent
<1> QED BY <1>1, Invariance, PTL

\* No module that avoids x is ever taken apart, whatever splits are made in
\* whatever order: prime_decomposition loses none.
THEOREM ModulesSurvive == Spec => []ModulesKeptWhole
<1>1. IInv => ModulesKeptWhole
  <2> SUFFICES ASSUME Shape, Intact, NEW M \in SUBSET (V \ {x}), M # {}, IsModule(M)
               PROVE  \E part \in Range(Q) : M \subseteq part
    BY DEF IInv, ModulesKeptWhole
  <2>1. PICK i \in 1 .. Len(Q) : M \subseteq Q[i]
    BY DEF Intact
  <2>2. Q[i] \in Range(Q)
    BY LenProperties DEF Shape, Range
  <2> QED BY <2>1, <2>2
<1> QED BY <1>1, Invariance, PTL

\* When the queues are empty nothing is owed any more: of two parts either
\* all vertices of one see the other uniformly and one vertex of the other does
\* too, which makes them homogeneous.  Every part is a module.
THEOREM RefinementIsModular == Spec => []PartsAreModules
<1>1. IInv => PartsAreModules
  <2> SUFFICES ASSUME Shape, Partition, Refining, done, NEW P \in Range(Q),
                      NEW v \in V \ P
               PROVE  P \subseteq neighborhood(G, v) \/ P \cap neighborhood(G, v) = {}
    BY DEF IInv, PartsAreModules, IsModule
  <2>1. DOMAIN Q = 1 .. Len(Q) /\ \A i \in 1 .. Len(Q) : Q[i] \in AllParts
    BY LenProperties, ElementOfSeq DEF Shape
  <2>2. PICK i \in 1 .. Len(Q) : P = Q[i]
    BY <2>1 DEF Range
  <2>3. PICK j \in 1 .. Len(Q) : v \in Q[j]
    BY DEF Partition
  <2>4. PICK A \in AllParts : A = Q[j]
    BY <2>1
  <2>5. P \in AllParts /\ Holds(Q, P) /\ Holds(Q, A) /\ P # A /\ v \in A
    BY <2>1, <2>2, <2>3, <2>4 DEF Holds
  <2>6. \A u \in V, w \in V : w \in neighborhood(G, u) <=> u \in neighborhood(G, w)
    BY DEF Shape, IsSimple, neighborhood
  <2>7. /\ \A B : ~Holds(L, B) /\ ~Holds(K, B)
        /\ \A u, B : ~Pending(u, B)
    BY DEF done, Holds, Pending
  <2>8. \/ Homogeneous(G, P, A)
        \/ (\A u \in P : Uniform(u, A)) /\ (\E u \in A : Uniform(u, P))
        \/ (\A u \in A : Uniform(u, P))
    BY <2>5, <2>7 DEF Refining, Settled, EachServes, OneServes, Served
  <2>9. CASE Homogeneous(G, P, A)
    <3>1. \/ \A u \in P, w \in A : <<u, w>> \in G
          \/ \A u \in P, w \in A : <<u, w>> \notin G
      BY <2>9 DEF Homogeneous
    <3>2. \A u \in P : u \in neighborhood(G, v) <=> <<u, v>> \in G
      BY <2>5 DEF Shape, IsSimple, neighborhood, AllParts
    <3> QED BY <2>5, <3>1, <3>2
  <2>10. CASE (\A u \in P : Uniform(u, A)) /\ (\E u \in A : Uniform(u, P))
    <3>1. PICK w \in A : Uniform(w, P)
      BY <2>10
    <3>2. \A u \in P : w \in neighborhood(G, u) <=> v \in neighborhood(G, u)
      BY <2>5, <2>10 DEF Uniform
    <3>3. \A u \in P : u \in V /\ w \in V
      BY <2>5 DEF AllParts
    <3>4. \A u \in P : u \in neighborhood(G, w) <=> u \in neighborhood(G, v)
      BY <2>6, <3>2, <3>3
    <3> QED BY <3>1, <3>4 DEF Uniform
  <2>11. CASE \A u \in A : Uniform(u, P)
    BY <2>5, <2>11 DEF Uniform
  <2> QED BY <2>8, <2>9, <2>10, <2>11
<1> QED BY <1>1, Invariance, PTL
===============================================================================
