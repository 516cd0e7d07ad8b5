---------------------------- MODULE SolverProofs ----------------------------
(***************************************************************************)
(* Solver::solve as a whole, for every vertex set and every graph: what    *)
(* the greedy bounds do, that they bracket the twin-width, and that the    *)
(* answer found between them has it.                                       *)
(*                                                                         *)
(* Argument for the greedy bounds: behind H there is always the red graph  *)
(* all trials share: H itself between two trials, and H with the trial     *)
(* undone during one.  It is the red graph of the partition reached (lemma *)
(* ContractedReduced), so what a trial measures is the width of the        *)
(* partition it would lead to, and choice is the least of the measures     *)
(* taken so far.                                                           *)
(*                                                                         *)
(* Argument for the bracket: the sequence built is one of the sequences    *)
(* the twin-width is the least width of, and every one of them begins with *)
(* a pair the lower bound has measured.  No sequence has width 0, because  *)
(* its last contraction but one leaves two classes that are homogeneous to *)
(* each other, and G or its complement would not be connected.             *)
(***************************************************************************)
EXTENDS Solver, GraphLemmas

------------------------------------------------------------------------------
(***************************************************************************)
(* The words of GreedyBounds are those of the modules it shares.           *)
(***************************************************************************)
LEMMA GreedyUpdate ==
  ASSUME NEW g, NEW rem, NEW h, NEW p, NEW u
  PROVE  /\ Greedy!to_remove(h, u) = to_remove(h, u)
         /\ Greedy!to_add(g, rem, h, p, u) = to_add(g, rem, h, p, u)
         /\ Greedy!Contracted(g, rem, h, p, u) = Contracted(g, rem, h, p, u)
<1>1. Greedy!to_remove(h, u) = to_remove(h, u)
  BY DEF Greedy!to_remove, to_remove, Greedy!neighborhood, neighborhood
<1>2. Greedy!to_add(g, rem, h, p, u) = to_add(g, rem, h, p, u)
  BY DEF Greedy!to_add, to_add, Greedy!neighborhood, neighborhood,
         Greedy!symmetric_difference, symmetric_difference, Greedy!has_edge, has_edge
<1> QED
  BY <1>1, <1>2
  DEF Greedy!Contracted, Contracted, Greedy!add_edges, add_edges,
      Greedy!remove_edges, remove_edges, Greedy!Mirror, Mirror

LEMMA GreedyDegree ==
  ASSUME NEW h
  PROVE  Greedy!max_degree(h) = max_degree(h)
BY DEF Greedy!max_degree, max_degree, Greedy!degree, degree,
       Greedy!neighborhood, neighborhood, Greedy!Max, Max,
       Greedy!Cardinality, Cardinality

LEMMA GreedyWidth ==
  ASSUME NEW g, NEW P
  PROVE  Greedy!MaxRedDegree(g, P) = MaxRedDegree(g, P)
BY DEF Greedy!MaxRedDegree, MaxRedDegree, Greedy!RedDegree, RedDegree,
       Greedy!Homogeneous, Homogeneous, Greedy!Max, Max,
       Greedy!Cardinality, Cardinality

n == Cardinality(V)
NoTrial == Greedy!NoTrial
Pairs(gone) == {e \in (V \ gone) \X (V \ gone) : e[1] < e[2]}

LEMMA GreedyNames ==
  /\ Greedy!n = n
  /\ \A gone : Greedy!Pairs(gone) = Pairs(gone)
  /\ \A g : Greedy!IsSimple(g) <=> IsSimple(g)
BY DEF Greedy!n, n, Greedy!Cardinality, Cardinality, Greedy!Pairs, Pairs,
       Greedy!IsSimple, IsSimple

\* The vertices are the naturals below n.
LEMMA Numbered ==
  /\ n \in Nat /\ n > 0
  /\ V \subseteq Nat /\ 0 \in V
  /\ NoTrial = [p |-> -1, u |-> -1, to_remove |-> {}, to_add |-> {}]
<1>1. n \in Nat /\ n # 0
  BY VFinite, VNumbered, FS_CardinalityType, FS_EmptySet DEF n
<1> QED BY <1>1, VNumbered DEF n, NoTrial, Greedy!NoTrial

------------------------------------------------------------------------------
(***************************************************************************)
(* The order of the trials.                                                *)
(***************************************************************************)
LEMMA LeastNat ==
  ASSUME NEW T, T \subseteq Nat, T # {}
  PROVE  \E t \in T : \A s \in T : t <= s
<1>1. PICK t \in T : \A s \in T : <<s, t>> \notin OpToRel(<, Nat)
  BY NatLessThanWellFounded, WFMin
<1>2. ASSUME NEW s \in T
      PROVE  t <= s
  <2>1. s \in Nat /\ t \in Nat
    OBVIOUS
  <2>2. ~(s < t)
    BY <1>1, <2>1 DEF OpToRel
  <2> QED BY <2>1, <2>2
<1> QED BY <1>2

\* The loops always have a next pair.
LEMMA FirstExists ==
  ASSUME NEW S, S \subseteq Nat \X Nat, S # {}
  PROVE  Greedy!FirstOf(S) \in S
<1> DEFINE A == {e[1] : e \in S}
<1>1. A \subseteq Nat /\ A # {}
  OBVIOUS
<1>2. PICK a \in A : \A x \in A : a <= x
  BY <1>1, LeastNat, Zenon
<1> DEFINE B == {e[2] : e \in {d \in S : d[1] = a}}
<1>3. B \subseteq Nat /\ B # {}
  OBVIOUS
<1>4. PICK b \in B : \A x \in B : b <= x
  BY <1>3, LeastNat, Zenon
<1>5. a \in Nat /\ b \in Nat /\ <<a, b>> \in S
  BY <1>1, <1>3
<1>6. ASSUME NEW t \in S \ {<<a, b>>}
      PROVE  Greedy!Before(<<a, b>>, t)
  <2>1. t[1] \in Nat /\ t[2] \in Nat /\ t = <<t[1], t[2]>>
    OBVIOUS
  <2>2. a <= t[1] /\ (t[1] = a => b <= t[2])
    BY <1>2, <1>4
  <2>3. CASE a < t[1]
    BY <2>3 DEF Greedy!Before
  <2>4. CASE a = t[1] /\ b < t[2]
    BY <2>4 DEF Greedy!Before
  <2> HIDE DEF A, B
  <2> QED BY <1>5, <1>6, <2>1, <2>2, <2>3, <2>4
<1> HIDE DEF A, B
<1> QED BY <1>5, <1>6 DEF Greedy!FirstOf

\* Comparing tuples compares their first components first.
LEMMA BeforeFirst ==
  ASSUME NEW a \in Nat, NEW b \in Nat, NEW c \in Nat,
         NEW x \in Nat, NEW y \in Nat, NEW z \in Nat
  PROVE  /\ a < x => Greedy!Before(<<a, b, c>>, <<x, y, z>>)
         /\ Greedy!Before(<<a, b, c>>, <<x, y, z>>) => a <= x
<1>1. ASSUME a < x
      PROVE  Greedy!Before(<<a, b, c>>, <<x, y, z>>)
  BY <1>1 DEF Greedy!Before
<1>2. ASSUME Greedy!Before(<<a, b, c>>, <<x, y, z>>)
      PROVE  a <= x
  BY <1>2 DEF Greedy!Before
<1> QED BY <1>1, <1>2

------------------------------------------------------------------------------
(***************************************************************************)
(* A trial and its measure.                                                *)
(***************************************************************************)

\* The edits of a trial are undone by applying its lists the other way.
LEMMA EditsUndone ==
  ASSUME NEW g, NEW rem, NEW h, IsSimple(h), NEW p, NEW u
  PROVE  remove_edges(add_edges(Contracted(g, rem, h, p, u), to_remove(h, u)),
                      to_add(g, rem, h, p, u)) = h
<1> DEFINE R == to_remove(h, u)
           A == to_add(g, rem, h, p, u)
<1>1. Mirror(R) \subseteq h
  <2> SUFFICES ASSUME NEW x \in V, NEW y \in V, <<x, y>> \in R \/ <<y, x>> \in R
               PROVE  <<x, y>> \in h
    BY DEF Mirror
  <2>1. \A e \in R : e \in h
    BY DEF to_remove, neighborhood
  <2> HIDE DEF R
  <2> QED BY <2>1 DEF IsSimple
<1>2. \A e \in A : e \notin h
  BY DEF to_add, neighborhood, symmetric_difference, has_edge
<1>3. Mirror(A) \cap h = {}
  BY <1>2 DEF Mirror, IsSimple
<1> HIDE DEF R, A
<1>4. remove_edges(add_edges(add_edges(remove_edges(h, R), A), R), A) = h
  BY <1>1, <1>3 DEF add_edges, remove_edges
<1> QED BY <1>4 DEF Contracted, R, A

\* The lists hold pairs of vertices.
LEMMA ListsInGraph ==
  ASSUME NEW g, NEW rem, NEW h, NEW p \in V, NEW u \in V
  PROVE  /\ to_remove(h, u) \subseteq V \X V
         /\ to_add(g, rem, h, p, u) \subseteq V \X V
<1>1. ASSUME NEW e \in to_remove(h, u)
      PROVE  e \in V \X V
  <2>1. PICK x \in neighborhood(h, u) : e = <<u, x>>
    BY Zenon DEF to_remove
  <2> QED BY <2>1 DEF neighborhood
<1>2. ASSUME NEW e \in to_add(g, rem, h, p, u)
      PROVE  e \in V \X V
  <2>1. PICK x \in neighborhood(h, u) \union symmetric_difference(g, u, p) : e = <<p, x>>
    BY DEF to_add
  <2> QED BY <2>1 DEF neighborhood, symmetric_difference
<1> QED BY <1>1, <1>2

\* The measure of the pair e.
Measure(g, rem, h, e) == max_degree(Contracted(g, rem, h, e[1], e[2]))

LEMMA MeasureRange ==
  ASSUME NEW g, NEW rem, NEW h, IsSimple(h), NEW e \in Pairs(rem)
  PROVE  /\ Measure(g, rem, h, e) \in Nat
         /\ Measure(g, rem, h, e) < n
         /\ e = <<e[1], e[2]>> /\ e[1] \in V \ rem /\ e[2] \in V \ rem
         /\ e[1] < e[2] /\ e[1] # e[2]
         /\ IsSimple(Contracted(g, rem, h, e[1], e[2]))
<1>1. e = <<e[1], e[2]>> /\ e[1] \in V \ rem /\ e[2] \in V \ rem /\ e[1] < e[2]
  BY DEF Pairs
<1>2. e[1] # e[2]
  BY <1>1, Numbered
<1>3. IsSimple(Contracted(g, rem, h, e[1], e[2]))
  BY <1>1, <1>2, UpdateSimple
<1> QED BY <1>1, <1>2, <1>3, VNumbered, SimpleDegrees DEF Measure, n

\* Two vertices left give a pair to try, one vertex gives none.
LEMMA PairsLeft ==
  ASSUME NEW rem, rem \subseteq V
  PROVE  /\ Cardinality(rem) \in Nat
         /\ Cardinality(rem) < n - 1 => Pairs(rem) # {}
         /\ Cardinality(rem) = n - 1 => Pairs(rem) = {}
<1> DEFINE W == V \ rem
<1>1. /\ IsFiniteSet(W) /\ IsFiniteSet(rem)
      /\ Cardinality(W) \in Nat /\ Cardinality(rem) \in Nat
      /\ Cardinality(W) = n - Cardinality(rem)
  <2>1. V \cap rem = rem /\ W \subseteq V
    OBVIOUS
  <2>2. /\ IsFiniteSet(W) /\ IsFiniteSet(rem)
        /\ Cardinality(W) \in Nat /\ Cardinality(rem) \in Nat
    BY <2>1, VFinite, FS_Subset, FS_CardinalityType
  <2>3. Cardinality(W) = Cardinality(V) - Cardinality(V \cap rem)
    BY VFinite, FS_Difference
  <2> HIDE DEF W
  <2> QED BY <2>1, <2>2, <2>3 DEF n
<1>2. W \subseteq Nat
  BY Numbered
<1>3. ASSUME Cardinality(rem) < n - 1
      PROVE  Pairs(rem) # {}
  <2>1. Cardinality(W) > 1
    BY <1>1, <1>3, Numbered
  <2>2. W # {}
    BY <2>1, FS_EmptySet
  <2>3. PICK v \in W : TRUE
    BY <2>2
  <2>4. Cardinality(W \ {v}) = Cardinality(W) - 1
    BY <1>1, FS_RemoveElement
  <2>5. W \ {v} # {}
    BY <1>1, <2>1, <2>4, FS_EmptySet
  <2>6. PICK w \in W : w # v
    BY <2>5
  <2>7. v \in Nat /\ w \in Nat
    BY <1>2
  <2>8. <<v, w>> \in Pairs(rem) \/ <<w, v>> \in Pairs(rem)
    BY <2>6, <2>7 DEF Pairs
  <2> QED BY <2>8
<1>4. ASSUME Cardinality(rem) = n - 1, NEW e \in Pairs(rem)
      PROVE  FALSE
  <2>1. Cardinality(W) = 1
    BY <1>1, <1>4, Numbered
  <2>2. PICK w : W = {w}
    BY <1>1, <2>1, FS_Singleton
  <2>3. e[1] \in W /\ e[2] \in W /\ e[1] < e[2]
    BY DEF Pairs
  <2> HIDE DEF W
  <2> QED BY <1>2, <2>2, <2>3
<1> QED BY <1>1, <1>3, <1>4

------------------------------------------------------------------------------
(***************************************************************************)
(* The invariant.                                                          *)
(***************************************************************************)

\* The red graph all trials share.
Shared == IF trial = NoTrial THEN H ELSE Greedy!Undone

\* The partition it is the red graph of.
Classes == IF phase = "upper" THEN cls ELSE [v \in V |-> {v}]

Pair == <<trial.p, trial.u>>

\* The pairs measured since the last contraction performed.
Tried == Pairs(removed) \ (untried \union {Pair})

Numbers ==
  /\ phase \in {"upper", "lower", "done"}
  /\ upper \in 0 .. n
  /\ lower \in 0 .. n
  /\ choice \in (0 .. n) \X V \X V
  /\ seq \in Seq(V \X V)
  /\ cls \in [V -> SUBSET V]

Trials ==
  /\ untried \subseteq Pairs(removed)
  /\ trial.to_remove \subseteq V \X V
  /\ trial.to_add \subseteq V \X V
  /\ trial # NoTrial =>
       /\ Pair \in Pairs(removed) \ untried
       /\ H = Contracted(G, removed, Shared, trial.p, trial.u)

\* One contraction per pair of the sequence.
Counted == phase = "upper" => Cardinality(removed) = Len(seq)

\* choice is one of the pairs tried, with its measure, and no pair tried
\* has a smaller one.
Least(g, rem, h, tried, c) ==
  /\ \A e \in tried : c[1] <= Measure(g, rem, h, e)
  /\ tried # {} => \E e \in tried : c = <<Measure(g, rem, h, e), e[1], e[2]>>
  /\ tried = {} => c[1] = n

ChoiceLeast == phase = "upper" => Least(G, removed, Shared, Tried, choice)

IInv ==
  /\ Reduced(G, Shared, removed, Classes)
  /\ Numbers
  /\ Trials
  /\ Counted
  /\ ChoiceLeast

\* No pair is the pair of NoTrial.
LEMMA NoPair ==
  ASSUME NEW rem
  PROVE  <<-1, -1>> \notin Pairs(rem)
BY Numbered DEF Pairs

LEMMA InitInv == Init => IInv
<1> SUFFICES ASSUME Init PROVE IInv
  OBVIOUS
<1>1. /\ G \in Inputs /\ phase = "upper" /\ H = EmptyGraph /\ removed = {}
      /\ untried = Pairs({}) /\ trial = NoTrial /\ choice = <<n, 0, 0>>
      /\ seq = <<>> /\ upper = 0 /\ lower = n /\ cls = [v \in V |-> {v}]
  BY GreedyNames DEF Init, Greedy!Init, NoTrial, EmptyGraph, Greedy!EmptyGraph
<1>2. Shared = EmptyGraph /\ Classes = [v \in V |-> {v}]
  BY <1>1 DEF Shared, Classes
<1>3. Reduced(G, Shared, removed, Classes)
  BY <1>1, <1>2, InputsSimple, SingletonsReduced
<1>4. Numbers
  BY <1>1, Numbered DEF Numbers
<1>5. Trials
  BY <1>1, Numbered DEF Trials
<1>6. Counted
  BY <1>1, FS_EmptySet DEF Counted
<1>7. ChoiceLeast
  <2>1. Tried = {}
    BY <1>1 DEF Tried
  <2> QED BY <1>1, <2>1 DEF ChoiceLeast, Least
<1> QED BY <1>3, <1>4, <1>5, <1>6, <1>7 DEF IInv

\* What the invariant gives in every state.
LEMMA Facts ==
  ASSUME IInv
  PROVE  /\ IsSimple(G) /\ IsSimple(Shared) /\ IsSimple(H)
         /\ removed \subseteq V
         /\ trial = NoTrial => Shared = H /\ Tried = Pairs(removed) \ untried
         /\ trial # NoTrial =>
              /\ Pair \in Pairs(removed) /\ Pair \notin untried
              /\ trial.p = Pair[1] /\ trial.u = Pair[2]
              /\ max_degree(H) = Measure(G, removed, Shared, Pair)
<1>1. IsSimple(G) /\ IsSimple(Shared) /\ removed \subseteq V
  BY DEF IInv, Reduced
<1>2. ASSUME trial = NoTrial
      PROVE  Shared = H /\ Tried = Pairs(removed) \ untried
  <2>1. Pair = <<-1, -1>>
    BY <1>2, Numbered DEF Pair
  <2> QED BY <1>2, <2>1, NoPair DEF Shared, Tried
<1>3. ASSUME trial # NoTrial
      PROVE  /\ Pair \in Pairs(removed) /\ Pair \notin untried
             /\ trial.p = Pair[1] /\ trial.u = Pair[2]
             /\ H = Contracted(G, removed, Shared, Pair[1], Pair[2])
  BY <1>3 DEF IInv, Trials, Pair
<1>4. IsSimple(H)
  <2>1. CASE trial = NoTrial
    BY <1>1, <1>2, <2>1
  <2>2. CASE trial # NoTrial
    BY <1>1, <1>3, <2>2, MeasureRange
  <2> QED BY <2>1, <2>2
<1> QED BY <1>1, <1>2, <1>3, <1>4 DEF Measure

------------------------------------------------------------------------------
(***************************************************************************)
(* The steps of the greedy bounds.                                         *)
(***************************************************************************)

\* Everything but the trial stays.
LEMMA TryInv ==
  ASSUME IInv, Greedy!Try
  PROVE  IInv' /\ Shared' = Shared /\ Tried' = Tried
<1> DEFINE e == Greedy!FirstOf(untried)
<1>1. /\ trial = NoTrial /\ untried # {}
      /\ untried' = untried \ {e}
      /\ UNCHANGED <<G, phase, removed, choice, seq, upper, lower, cls>>
  BY DEF Greedy!Try, NoTrial
<1>2. untried \subseteq Pairs(removed) /\ untried \subseteq Nat \X Nat
  BY Numbered DEF IInv, Trials, Pairs
<1>3. e \in untried
  BY <1>1, <1>2, FirstExists
<1> HIDE DEF e
<1>4. /\ trial' = [p |-> e[1], u |-> e[2],
                   to_remove |-> to_remove(H, e[2]),
                   to_add |-> to_add(G, removed, H, e[1], e[2])]
      /\ H' = Contracted(G, removed, H, e[1], e[2])
  BY GreedyUpdate DEF Greedy!Try, e
<1>5. /\ e \in Pairs(removed) /\ e = <<e[1], e[2]>>
      /\ e[1] \in V /\ e[2] \in V
      /\ IsSimple(H) /\ Shared = H
  BY <1>1, <1>2, <1>3, Facts DEF Pairs
<1>6. trial' # NoTrial /\ Pair' = e
  <2>1. e[1] \in Nat
    BY <1>2, <1>3
  <2>2. trial'.p # NoTrial.p
    BY <1>4, <2>1, Numbered
  <2> QED BY <1>4, <1>5, <2>2 DEF Pair
<1>7. Shared' = H
  <2>1. Greedy!Undone' = remove_edges(add_edges(H', trial'.to_remove), trial'.to_add)
    BY DEF Greedy!Undone, Greedy!remove_edges, Greedy!add_edges, Greedy!Mirror,
           remove_edges, add_edges, Mirror
  <2>2. Greedy!Undone' = H
    BY <1>4, <1>5, <2>1, EditsUndone
  <2> QED BY <1>6, <2>2 DEF Shared, NoTrial, Greedy!NoTrial
<1>8. Classes' = Classes
  BY <1>1 DEF Classes
<1>9. Tried' = Tried
  BY <1>1, <1>3, <1>5, <1>6, Facts DEF Tried
<1>10. Reduced(G', Shared', removed', Classes')
  BY <1>1, <1>5, <1>7, <1>8 DEF IInv
<1>11. Trials'
  <2>1. untried' \subseteq Pairs(removed)
    BY <1>1, <1>2
  <2>2. trial'.to_remove \subseteq V \X V /\ trial'.to_add \subseteq V \X V
    BY <1>4, <1>5, ListsInGraph
  <2>3. Pair' \in Pairs(removed) \ untried'
    BY <1>1, <1>5, <1>6
  <2>4. H' = Contracted(G, removed, Shared', trial'.p, trial'.u)
    BY <1>4, <1>7
  <2>5. Pairs(removed)' = Pairs(removed)
    BY <1>1 DEF Pairs
  <2>6. Contracted(G, removed, Shared, trial.p, trial.u)' =
          Contracted(G, removed, Shared', trial'.p, trial'.u)
    BY <1>1
  <2> QED BY <2>1, <2>2, <2>3, <2>4, <2>5, <2>6 DEF Trials
<1>12. Numbers' /\ Counted'
  BY <1>1 DEF IInv, Numbers, Counted
<1>13. ChoiceLeast'
  BY <1>1, <1>5, <1>7, <1>9 DEF IInv, ChoiceLeast
<1> QED BY <1>5, <1>7, <1>9, <1>10, <1>11, <1>12, <1>13 DEF IInv

\* A measured trial is undone.
LEMMA Measured ==
  ASSUME IInv, trial # NoTrial, H' = Greedy!Undone, trial' = NoTrial,
         UNCHANGED <<G, phase, removed, untried, cls>>
  PROVE  /\ Shared' = Shared
         /\ Reduced(G', Shared', removed', Classes')
         /\ Trials'
         /\ Tried' = Tried \union {Pair}
<1>1. Shared' = Shared
  BY DEF Shared, NoTrial, Greedy!NoTrial
<1>2. Classes' = Classes
  BY DEF Classes
<1>3. Reduced(G', Shared', removed', Classes')
  BY <1>1, <1>2 DEF IInv
<1>4. NoTrial' = NoTrial /\ Pairs(removed)' = Pairs(removed)
  BY DEF NoTrial, Greedy!NoTrial, Pairs
<1>5. Trials'
  BY <1>4, Numbered DEF Trials, IInv
<1>6. Tried' = Tried \union {Pair}
  <2>1. Pair' = <<-1, -1>>
    BY Numbered DEF Pair
  <2>2. Tried' = Pairs(removed) \ untried
    BY <1>4, <2>1, NoPair DEF Tried
  <2>3. Pair \in Pairs(removed) /\ Pair \notin untried
    BY Facts
  <2> QED BY <2>2, <2>3 DEF Tried
<1> QED BY <1>1, <1>3, <1>5, <1>6

\* Keeping the better of two choices.
LEMMA BetterKept ==
  ASSUME NEW g, NEW rem, NEW h, IsSimple(h),
         NEW tried, tried \subseteq Pairs(rem),
         NEW c \in (0 .. n) \X V \X V, Least(g, rem, h, tried, c),
         NEW e \in Pairs(rem),
         NEW d, d = <<Measure(g, rem, h, e), e[1], e[2]>>
  PROVE  LET best == IF Greedy!Before(d, c) THEN d ELSE c IN
         /\ best \in (0 .. n) \X V \X V
         /\ Least(g, rem, h, tried \union {e}, best)
<1> DEFINE M(x) == Measure(g, rem, h, x)
<1>1. \A x \in Pairs(rem) : M(x) \in Nat /\ M(x) < n
  BY MeasureRange
<1>2. /\ M(e) \in Nat /\ M(e) < n /\ n \in Nat
      /\ e[1] \in V /\ e[2] \in V /\ e[1] \in Nat /\ e[2] \in Nat
  BY MeasureRange, Numbered
<1>3. /\ c[1] \in Nat /\ c[2] \in Nat /\ c[3] \in Nat /\ c[1] <= n
      /\ c = <<c[1], c[2], c[3]>>
  <2>1. c[1] \in 0 .. n /\ c[2] \in V /\ c[3] \in V /\ c = <<c[1], c[2], c[3]>>
    OBVIOUS
  <2>2. c[1] \in Nat /\ c[1] <= n
    BY <1>2, <2>1
  <2>3. c[2] \in Nat /\ c[3] \in Nat
    BY <2>1, Numbered, Zenon
  <2> QED BY <2>1, <2>2, <2>3, Zenon
<1>4. /\ \A x \in tried : c[1] <= M(x)
      /\ tried # {} => \E x \in tried : c = <<M(x), x[1], x[2]>>
      /\ tried = {} => c[1] = n
  BY DEF Least
<1>5. /\ M(e) < c[1] => Greedy!Before(d, c)
      /\ Greedy!Before(d, c) => M(e) <= c[1]
  BY <1>2, <1>3, BeforeFirst
<1>6. d = <<M(e), e[1], e[2]>>
  OBVIOUS
<1>7. \A x \in tried : x \in Pairs(rem)
  OBVIOUS
<1> HIDE DEF M
<1>8. CASE Greedy!Before(d, c)
  <2>1. M(e) <= c[1] /\ d[1] = M(e)
    BY <1>5, <1>6, <1>8
  <2>2. d \in (0 .. n) \X V \X V
    BY <1>2, <1>6
  <2>3. \A x \in tried \union {e} : d[1] <= M(x)
    BY <1>1, <1>2, <1>3, <1>4, <1>7, <2>1
  <2>4. Least(g, rem, h, tried \union {e}, d)
    BY <1>6, <2>3 DEF Least, M
  <2> QED BY <1>8, <2>2, <2>4
<1>9. CASE ~Greedy!Before(d, c)
  <2>1. c[1] <= M(e)
    BY <1>2, <1>3, <1>5, <1>9
  <2>2. tried # {}
    BY <1>2, <1>4, <2>1
  <2>3. \A x \in tried \union {e} : c[1] <= M(x)
    BY <1>4, <2>1
  <2>4. Least(g, rem, h, tried \union {e}, c)
    BY <1>4, <2>2, <2>3 DEF Least, M
  <2> QED BY <1>9, <2>4
<1> QED BY <1>8, <1>9

LEMMA MeasureUpperInv ==
  ASSUME IInv, Greedy!MeasureUpper
  PROVE  IInv'
<1> DEFINE d == <<max_degree(H), trial.p, trial.u>>
<1>1. /\ phase = "upper" /\ trial # NoTrial
      /\ H' = Greedy!Undone /\ trial' = NoTrial
      /\ choice' = IF Greedy!Before(d, choice) THEN d ELSE choice
      /\ UNCHANGED <<G, phase, removed, untried, seq, upper, lower, cls>>
  BY GreedyDegree DEF Greedy!MeasureUpper, NoTrial
<1>2. /\ Shared' = Shared
      /\ Reduced(G', Shared', removed', Classes')
      /\ Trials'
      /\ Tried' = Tried \union {Pair}
  BY <1>1, Measured
<1>3. /\ IsSimple(Shared) /\ Pair \in Pairs(removed)
      /\ d = <<Measure(G, removed, Shared, Pair), Pair[1], Pair[2]>>
  BY <1>1, Facts
<1>4. Tried \subseteq Pairs(removed)
  BY DEF Tried
<1>5. choice \in (0 .. n) \X V \X V /\ Least(G, removed, Shared, Tried, choice)
  BY <1>1 DEF IInv, Numbers, ChoiceLeast
<1> HIDE DEF d
<1>6. /\ choice' \in (0 .. n) \X V \X V
      /\ Least(G, removed, Shared, Tried \union {Pair}, choice')
  BY <1>1, <1>3, <1>4, <1>5, BetterKept
<1>7. Least(G', removed', Shared', Tried', choice')
  BY <1>1, <1>2, <1>6
<1>8. Numbers' /\ Counted'
  BY <1>1, <1>6 DEF IInv, Numbers, Counted, n
<1> QED BY <1>2, <1>7, <1>8 DEF IInv, ChoiceLeast

LEMMA MeasureLowerInv ==
  ASSUME IInv, Greedy!MeasureLower
  PROVE  IInv'
<1>1. /\ phase = "lower" /\ trial # NoTrial
      /\ H' = Greedy!Undone /\ trial' = NoTrial
      /\ lower' = IF max_degree(H) < lower THEN max_degree(H) ELSE lower
      /\ UNCHANGED <<G, phase, removed, untried, choice, seq, upper, cls>>
  BY GreedyDegree DEF Greedy!MeasureLower, NoTrial
<1>2. /\ Reduced(G', Shared', removed', Classes')
      /\ Trials'
  BY <1>1, Measured
<1>3. max_degree(H) \in Nat
  BY MaxDegreeBound
<1>4. lower' \in 0 .. n
  BY <1>1, <1>3, Numbered DEF IInv, Numbers
<1>5. Numbers' /\ Counted' /\ ChoiceLeast'
  BY <1>1, <1>4 DEF IInv, Numbers, Counted, ChoiceLeast, n
<1> QED BY <1>2, <1>5 DEF IInv

\* What is performed is the least of all pairs.
LEMMA CommitFacts ==
  ASSUME IInv, Greedy!Commit
  PROVE  LET p == choice[2]
             u == choice[3]
         IN  /\ p \in V \ removed /\ u \in V \ removed /\ p # u
             /\ choice[1] = Measure(G, removed, H, <<p, u>>)
             /\ \A e \in Pairs(removed) : choice[1] <= Measure(G, removed, H, e)
             /\ Shared = H /\ trial' = NoTrial
             /\ H' = Contracted(G, removed, H, p, u)
             /\ removed' = removed \union {u}
             /\ cls' = MergedInto(cls, p, u)
             /\ seq' = Append(seq, <<p, u>>)
             /\ upper' = Larger(upper, choice[1])
             /\ choice' = <<n, 0, 0>> /\ untried' = Pairs(removed')
             /\ phase = "upper" /\ UNCHANGED <<G, phase, lower>>
<1>1. /\ phase = "upper" /\ trial = NoTrial /\ untried = {} /\ Len(seq) < n - 1
      /\ UNCHANGED <<G, phase, trial, lower>>
  BY GreedyNames DEF Greedy!Commit, NoTrial
<1>2. Shared = H /\ Tried = Pairs(removed) /\ removed \subseteq V /\ IsSimple(H)
  BY <1>1, Facts
<1>3. Pairs(removed) # {}
  BY <1>1, <1>2, PairsLeft DEF IInv, Counted
<1>4. Least(G, removed, H, Pairs(removed), choice)
  BY <1>1, <1>2 DEF IInv, ChoiceLeast
<1>5. PICK e \in Pairs(removed) : choice = <<Measure(G, removed, H, e), e[1], e[2]>>
  BY <1>3, <1>4 DEF Least
<1>6. /\ e = <<e[1], e[2]>> /\ e[1] \in V \ removed /\ e[2] \in V \ removed
      /\ e[1] # e[2]
  BY <1>2, MeasureRange
<1>7. choice[1] = Measure(G, removed, H, e) /\ choice[2] = e[1] /\ choice[3] = e[2]
  BY <1>5
<1>8. \A x \in Pairs(removed) : choice[1] <= Measure(G, removed, H, x)
  BY <1>4 DEF Least
<1>9. /\ H' = Contracted(G, removed, H, choice[2], choice[3])
      /\ removed' = removed \union {choice[3]}
      /\ cls' = MergedInto(cls, choice[2], choice[3])
      /\ seq' = Append(seq, <<choice[2], choice[3]>>)
      /\ upper' = Larger(upper, choice[1])
      /\ choice' = <<n, 0, 0>> /\ untried' = Pairs(removed')
  BY GreedyUpdate, GreedyNames
  DEF Greedy!Commit, MergedInto, Larger, Greedy!Larger
<1> QED BY <1>1, <1>2, <1>6, <1>7, <1>8, <1>9

LEMMA CommitInv ==
  ASSUME IInv, Greedy!Commit
  PROVE  IInv'
<1> DEFINE p == choice[2]
           u == choice[3]
<1>1. /\ p \in V \ removed /\ u \in V \ removed /\ p # u
      /\ Shared = H /\ trial' = NoTrial
      /\ H' = Contracted(G, removed, H, p, u)
      /\ removed' = removed \union {u}
      /\ cls' = MergedInto(cls, p, u)
      /\ seq' = Append(seq, <<p, u>>)
      /\ upper' = Larger(upper, choice[1])
      /\ choice' = <<n, 0, 0>> /\ untried' = Pairs(removed')
      /\ phase = "upper" /\ UNCHANGED <<G, phase, lower>>
  BY CommitFacts
<1> HIDE DEF p, u
<1>2. NoTrial' = NoTrial
  BY DEF NoTrial, Greedy!NoTrial
<1>3. Shared' = H' /\ Classes = cls /\ Classes' = cls'
  BY <1>1, <1>2 DEF Shared, Classes
<1>4. Reduced(G', Shared', removed', Classes')
  <2>1. Reduced(G, H, removed, cls)
    BY <1>1, <1>3 DEF IInv
  <2>2. Reduced(G, H', removed', cls')
    BY <1>1, <2>1, ContractedReduced
  <2> QED BY <1>1, <1>3, <2>2
<1>5. removed' \subseteq V /\ cls' \in [V -> SUBSET V]
  BY <1>3, <1>4 DEF Reduced
<1>6. Pairs(removed)' = Pairs(removed')
  BY DEF Pairs
<1>7. Numbers'
  <2>1. upper' \in 0 .. n
    BY <1>1, Numbered DEF IInv, Numbers, Larger
  <2>2. choice' \in (0 .. n) \X V \X V
    BY <1>1, Numbered
  <2>3. seq' \in Seq(V \X V)
    BY <1>1 DEF IInv, Numbers
  <2> QED BY <1>1, <1>5, <2>1, <2>2, <2>3 DEF IInv, Numbers, n
<1>8. Trials'
  BY <1>1, <1>2, <1>6, Numbered DEF Trials
<1>9. Counted'
  <2>1. Cardinality(removed') = Cardinality(removed) + 1
    BY <1>1, Facts, VFinite, FS_Subset, FS_AddElement
  <2>2. Len(seq') = Len(seq) + 1
    BY <1>1 DEF IInv, Numbers
  <2> QED BY <1>1, <2>1, <2>2 DEF IInv, Counted
<1>10. ChoiceLeast'
  <2>1. Tried' = {}
    BY <1>1, <1>6 DEF Tried
  <2> QED BY <1>1, <2>1 DEF ChoiceLeast, Least, n
<1> QED BY <1>4, <1>7, <1>8, <1>9, <1>10 DEF IInv

LEMMA StartLowerInv ==
  ASSUME IInv, Greedy!StartLower
  PROVE  IInv'
<1>1. /\ phase = "upper" /\ Len(seq) = n - 1
      /\ phase' = "lower" /\ H' = EmptyGraph /\ removed' = {}
      /\ untried' = Pairs({}) /\ lower' = n
      /\ UNCHANGED <<G, trial, choice, seq, upper, cls>>
  BY GreedyNames DEF Greedy!StartLower, EmptyGraph, Greedy!EmptyGraph
<1>2. Pairs(removed) = {}
  BY <1>1, Facts, PairsLeft DEF IInv, Counted
<1>3. trial = NoTrial
  BY <1>2, Facts
<1>4. NoTrial' = NoTrial
  BY DEF NoTrial, Greedy!NoTrial
<1>5. Shared' = EmptyGraph /\ Classes' = [v \in V |-> {v}]
  BY <1>1, <1>3, <1>4 DEF Shared, Classes
<1>6. Reduced(G', Shared', removed', Classes')
  BY <1>1, <1>5, Facts, SingletonsReduced
<1>7. Numbers' /\ Counted' /\ ChoiceLeast'
  BY <1>1, Numbered DEF IInv, Numbers, Counted, ChoiceLeast, n
<1>8. Trials'
  <2>1. Pairs(removed)' = Pairs({})
    BY <1>1 DEF Pairs
  <2> QED BY <1>1, <1>3, <1>4, <2>1, Numbered DEF Trials
<1> QED BY <1>6, <1>7, <1>8 DEF IInv

\* The rest of solve leaves the greedy bounds alone.
LEMMA OthersInv ==
  ASSUME IInv, UNCHANGED <<G, H, removed, untried, trial, choice, seq, upper, lower, cls>>,
         phase' = phase \/ (phase = "lower" /\ phase' = "done")
  PROVE  IInv' /\ Shared' = Shared /\ Tried' = Tried
<1>1. /\ NoTrial' = NoTrial /\ Greedy!Undone' = Greedy!Undone
      /\ Pairs(removed)' = Pairs(removed)
  BY DEF NoTrial, Greedy!NoTrial, Greedy!Undone, Greedy!remove_edges,
         Greedy!add_edges, Greedy!Mirror, Pairs
<1>2. Shared' = Shared
  BY <1>1 DEF Shared
<1>3. Classes' = Classes
  BY DEF Classes
<1>4. Tried' = Tried
  BY <1>1 DEF Tried, Pair
<1>5. Reduced(G', Shared', removed', Classes')
  BY <1>2, <1>3 DEF IInv
<1>6. Numbers' /\ Counted'
  BY DEF IInv, Numbers, Counted, n
<1>7. ChoiceLeast'
  BY <1>2, <1>4 DEF IInv, ChoiceLeast
<1>8. Trials'
  <2>1. Pair' = Pair
    BY DEF Pair
  <2> QED BY <1>1, <1>2, <2>1 DEF IInv, Trials
<1> QED BY <1>2, <1>4, <1>5, <1>6, <1>7, <1>8 DEF IInv

\* A step of solve is one of the greedy bounds or leaves them alone.
LEMMA StepKinds ==
  ASSUME [Next]_vars
  PROVE  Greedy!Next \/ UNCHANGED Greedy!vars
<1>1. CASE Dispatch
  BY <1>1 DEF Dispatch, greedyVars, Greedy!vars
<1>2. CASE TreeStep
  BY <1>2 DEF TreeStep, Tree!Next, Tree!Descend, Tree!Return, Tree!Finish,
              Tree!Returned, Tree!vars, greedyVars, Greedy!vars
<1>3. CASE GreedyStep
  BY <1>3 DEF GreedyStep
<1>4. CASE BoundsMeet
  BY <1>4 DEF BoundsMeet, greedyVars, Greedy!vars
<1>5. CASE StartSearch
  BY <1>5 DEF StartSearch, greedyVars, Greedy!vars
<1>6. CASE SearchStep
  BY <1>6 DEF SearchStep, greedyVars, Greedy!vars
<1>7. CASE Returned \/ UNCHANGED vars
  BY <1>7 DEF Returned, vars, greedyVars, Greedy!vars
<1> QED BY <1>1, <1>2, <1>3, <1>4, <1>5, <1>6, <1>7 DEF Next

LEMMA StepInv == IInv /\ [Next]_vars => IInv'
<1> SUFFICES ASSUME IInv, [Next]_vars PROVE IInv'
  OBVIOUS
<1>1. CASE Greedy!Try
  BY <1>1, TryInv
<1>2. CASE Greedy!MeasureUpper
  BY <1>2, MeasureUpperInv
<1>3. CASE Greedy!MeasureLower
  BY <1>3, MeasureLowerInv
<1>4. CASE Greedy!Commit
  BY <1>4, CommitInv
<1>5. CASE Greedy!StartLower
  BY <1>5, StartLowerInv
<1>6. CASE Greedy!Finish
  BY <1>6, OthersInv DEF Greedy!Finish
<1>7. CASE UNCHANGED Greedy!vars
  BY <1>7, OthersInv DEF Greedy!vars
<1> QED
  BY <1>1, <1>2, <1>3, <1>4, <1>5, <1>6, <1>7, StepKinds DEF Greedy!Next

------------------------------------------------------------------------------
(***************************************************************************)
(* The theorems.                                                           *)
(***************************************************************************)

\* Each trial edits the shared red graph edge by edge and edits it back:
\* whenever none is in progress, H is the red graph of the partition the
\* upper bound has reached, or of the singletons in the lower bound.
THEOREM TrialsAreUndone == Spec => []TrialUndone
<1>1. IInv => TrialUndone
  <2> SUFFICES ASSUME IInv PROVE Greedy!TrialUndone
    BY DEF TrialUndone
  <2>1. Greedy!TypeOK
    <3>1. Greedy!IsSimple(G) /\ Greedy!IsSimple(H) /\ removed \subseteq V
      BY Facts, GreedyNames
    <3>2. untried \subseteq Greedy!Pairs({})
      BY GreedyNames DEF IInv, Trials, Pairs
    <3>3. trial.to_remove \subseteq V \X V /\ trial.to_add \subseteq V \X V
      BY DEF IInv, Trials
    <3>4. /\ phase \in {"upper", "lower", "done"}
          /\ choice[1] \in 0 .. Greedy!n /\ choice[2] \in V /\ choice[3] \in V
          /\ upper \in 0 .. Greedy!n /\ lower \in 0 .. Greedy!n
          /\ cls \in [V -> SUBSET V]
      BY GreedyNames DEF IInv, Numbers
    <3>5. Greedy!Range(seq) \subseteq V \X V
      BY DEF IInv, Numbers, Greedy!Range
    <3> QED BY <3>1, <3>2, <3>3, <3>4, <3>5 DEF Greedy!TypeOK
  <2>2. ASSUME trial = NoTrial, NEW v \in V \ removed, NEW w \in V \ removed, v # w
        PROVE  Greedy!has_edge(H, v, w) <=> ~Greedy!Homogeneous(G, Classes[v], Classes[w])
    <3>1. Shared = H
      BY <2>2, Facts
    <3> QED BY <2>2, <3>1 DEF IInv, Reduced, Greedy!has_edge,
                              Greedy!Homogeneous, Homogeneous
  <2>3. \A v \in V : Classes[v] = IF phase = "upper" THEN cls[v] ELSE {v}
    BY DEF Classes
  <2> QED BY <2>1, <2>2, <2>3 DEF Greedy!TrialUndone, NoTrial
<1> QED BY InitInv, StepInv, <1>1, PTL DEF Spec

\* Merging two classes does not depend on their order.
LEMMA MergeSymmetric ==
  ASSUME NEW P, NEW A, NEW B
  PROVE  MergeParts(P, A, B) = MergeParts(P, B, A)
<1>1. {A, B} = {B, A} /\ A \union B = B \union A
  OBVIOUS
<1> QED BY <1>1 DEF MergeParts

\* Whatever pair of classes might have been contracted instead, the largest
\* red degree would have been no smaller.
THEOREM CommitsAreLeast == Spec => CommitsLeast
<1>1. IInv /\ [Next]_vars =>
        [seq' # seq =>
           \A A, B \in Greedy!Parts : A # B =>
             Greedy!MaxRedDegree(G, Greedy!Parts')
               <= Greedy!MaxRedDegree(G, Greedy!MergeParts(Greedy!Parts, A, B))]_(Greedy!vars)
  <2> SUFFICES ASSUME IInv, [Next]_vars, seq' # seq,
                      NEW A \in Greedy!Parts, NEW B \in Greedy!Parts, A # B
               PROVE  Greedy!MaxRedDegree(G, Greedy!Parts')
                        <= Greedy!MaxRedDegree(G, Greedy!MergeParts(Greedy!Parts, A, B))
    OBVIOUS
  <2>1. Greedy!Commit
    BY StepKinds
    DEF Greedy!Next, Greedy!vars, Greedy!Try, Greedy!MeasureUpper,
        Greedy!MeasureLower, Greedy!StartLower, Greedy!Finish
  <2> DEFINE p == choice[2]
             u == choice[3]
  <2>2. /\ p \in V \ removed /\ u \in V \ removed /\ p # u
        /\ choice[1] = Measure(G, removed, H, <<p, u>>)
        /\ \A e \in Pairs(removed) : choice[1] <= Measure(G, removed, H, e)
        /\ removed' = removed \union {u} /\ cls' = MergedInto(cls, p, u)
        /\ Shared = H /\ phase = "upper"
    BY <2>1, CommitFacts
  <2>3. Reduced(G, H, removed, cls)
    BY <2>2 DEF IInv, Classes
  <2> HIDE DEF p, u
  <2>4. Greedy!Parts = PartsOf(cls, removed)
    BY <2>3 DEF Greedy!Parts, PartsOf, Reduced
  <2>5. Greedy!Parts' = MergeParts(PartsOf(cls, removed), cls[p], cls[u])
    <3>1. Reduced(G, Contracted(G, removed, H, p, u), removed', cls')
      BY <2>2, <2>3, ContractedReduced
    <3>2. Greedy!Parts' = PartsOf(cls', removed')
      BY <3>1 DEF Greedy!Parts, PartsOf, Reduced
    <3> QED BY <2>2, <2>3, <3>2, MergedClasses
  <2>6. MaxRedDegree(G, Greedy!Parts') = choice[1]
    BY <2>2, <2>3, <2>5, ContractedDegree DEF Measure
  <2>7. ASSUME NEW v \in V \ removed, NEW w \in V \ removed, v < w
        PROVE  choice[1] <= MaxRedDegree(G, MergeParts(PartsOf(cls, removed), cls[v], cls[w]))
    <3>1. <<v, w>> \in Pairs(removed) /\ v # w
      BY <2>7, Numbered DEF Pairs
    <3>2. Measure(G, removed, H, <<v, w>>) =
            MaxRedDegree(G, MergeParts(PartsOf(cls, removed), cls[v], cls[w]))
      BY <2>3, <3>1, ContractedDegree DEF Measure
    <3> QED BY <2>2, <3>1, <3>2
  <2>8. PICK v \in V \ removed, w \in V \ removed : A = cls[v] /\ B = cls[w] /\ v # w
    BY <2>4 DEF PartsOf
  <2>9. v \in Nat /\ w \in Nat
    BY Numbered
  <2>10. choice[1] <= MaxRedDegree(G, MergeParts(PartsOf(cls, removed), A, B))
    <3>1. CASE v < w
      BY <2>7, <2>8, <3>1
    <3>2. CASE w < v
      BY <2>7, <2>8, <3>2, MergeSymmetric
    <3> QED BY <2>8, <2>9, <3>1, <3>2
  <2>11. Greedy!MergeParts(Greedy!Parts, A, B) = MergeParts(PartsOf(cls, removed), A, B)
    BY <2>4 DEF Greedy!MergeParts, MergeParts
  <2> QED BY <2>6, <2>10, <2>11, GreedyWidth
<1> QED BY InitInv, StepInv, <1>1, PTL DEF Spec, CommitsLeast, Greedy!CommitsLeast

------------------------------------------------------------------------------
(***************************************************************************)
(* The binary search by itself, for every twin-width and all bounds that   *)
(* bracket it.                                                             *)
(*                                                                         *)
(* Argument: the interval [lb, ub] always contains tw, and found always    *)
(* belongs to the current ub or is still untouched.  When the interval is  *)
(* a point, a sequence of width at most ub = tw is returned.               *)
(***************************************************************************)
SearchInv ==
  /\ Search!TypeOK
  /\ Search!Bracketed
  /\ Search!BestMatchesBound
  /\ ReturnsOptimum

\* The midpoint of a proper interval lies in it, short of its upper end.
LEMMA Midpoint ==
  ASSUME lb \in Nat, ub \in Nat, lb < ub
  PROVE  Search!mid \in Nat /\ lb <= Search!mid /\ Search!mid < ub
BY DEF Search!mid

\* The search starts within bounds.
LEMMA SearchInit == Search!Init => SearchInv
<1>1. 0 .. Cardinality(V) \subseteq Nat
  BY Numbered DEF n
<1> QED
  BY <1>1 DEF Search!Init, SearchInv, Search!TypeOK, Search!Bracketed, Search!BestMatchesBound,
              ReturnsOptimum, Search!ReturnsOptimum, Search!NoSequence

\* Every probe keeps the twin-width in the interval.
LEMMA SearchNext == SearchInv /\ [Search!Next]_(Search!vars) => SearchInv'
<1> SUFFICES ASSUME SearchInv, [Search!Next]_(Search!vars) PROVE SearchInv'
  OBVIOUS
<1> USE DEF SearchInv, Search!TypeOK, Search!Bracketed, Search!BestMatchesBound,
            ReturnsOptimum, Search!ReturnsOptimum
<1> DEFINE middle == Search!mid
<1>1. CASE Search!Found
  <2>1. middle \in Nat /\ lb <= middle /\ middle < ub
    BY <1>1, Midpoint DEF Search!Found
  <2>2. tw <= middle /\ ub' = middle /\ UNCHANGED <<tw, lb, searching, result>> /\ searching = "search"
    BY <1>1 DEF Search!Found, Search!Satisfiable
  <2>3. middle < found.bound
    BY <2>1
  <2>4. PICK w \in Search!Decoded(middle) : found' = [bound |-> middle, width |-> w]
    BY <1>1, <2>3 DEF Search!Found
  <2>5. found'.bound = middle /\ found'.width = w /\ w \in Int /\ tw <= w /\ w <= middle
    BY <2>1, <2>4 DEF Search!Decoded
  <2> QED BY <2>1, <2>2, <2>5
<1>2. CASE Search!Refuted
  <2>1. middle \in Nat /\ lb <= middle /\ middle < ub
    BY <1>2, Midpoint DEF Search!Refuted
  <2> QED BY <1>2, <2>1 DEF Search!Refuted, Search!Satisfiable
<1>3. CASE Search!ReturnBest
  BY <1>3 DEF Search!ReturnBest, Search!NoSequence
<1>4. CASE Search!ReturnSolved
  BY <1>4 DEF Search!ReturnSolved, Search!Decoded
<1>5. CASE UNCHANGED Search!vars
  BY <1>5 DEF Search!vars
<1> QED BY <1>1, <1>2, <1>3, <1>4, <1>5 DEF Search!Next

\* The interval brackets the twin-width throughout, found belongs to the
\* current upper bound, and what is returned has the twin-width as its width.
THEOREM SearchIsExact ==
  Search!Spec => [](Search!Bracketed /\ Search!BestMatchesBound /\ ReturnsOptimum)
<1>1. SearchInv => Search!Bracketed /\ Search!BestMatchesBound /\ ReturnsOptimum
  BY DEF SearchInv
<1> QED BY SearchInit, SearchNext, <1>1, PTL DEF Search!Spec

\* No probe leaves more than half of the interval to search.
THEOREM EveryProbeHalves == Search!Spec => Search!ProbesHalve
<1>1. SearchInv /\ [Search!Next]_(Search!vars)
        => [searching' = "search" => ub' - lb' <= (ub - lb) \div 2]_(Search!vars)
  <2> SUFFICES ASSUME SearchInv, Search!Next, searching' = "search"
               PROVE  ub' - lb' <= (ub - lb) \div 2
    OBVIOUS
  <2>1. lb \in Nat /\ ub \in Nat
    BY DEF SearchInv, Search!TypeOK
  <2>2. CASE Search!Found
    BY <2>1, <2>2 DEF Search!Found, Search!mid
  <2>3. CASE Search!Refuted
    BY <2>1, <2>3 DEF Search!Refuted, Search!mid
  <2> QED BY <2>2, <2>3 DEF Search!Next, Search!ReturnBest, Search!ReturnSolved
<1> QED BY SearchInit, SearchNext, <1>1, PTL DEF Search!Spec, Search!ProbesHalve

------------------------------------------------------------------------------
(***************************************************************************)
(* Recursive functions.                                                    *)
(***************************************************************************)
\* Induction up to a bound, on a set of numbers.
LEMMA UpTo ==
  ASSUME NEW top \in Nat, NEW P, 0 \in P, \A i \in 0 .. top - 1 : i \in P => i + 1 \in P
  PROVE  \A i \in 0 .. top : i \in P
<1> DEFINE T == {i \in 0 .. top : i \notin P}
<1>1. CASE T = {}
  BY <1>1
<1>2. CASE T # {}
  <2>1. T \subseteq Nat
    OBVIOUS
  <2>2. PICK t \in T : \A s \in T : t <= s
    <3> HIDE DEF T
    <3> QED BY <1>2, <2>1, LeastNat
  <2>3. t \in Nat /\ t # 0 /\ t <= top
    OBVIOUS
  <2>4. t - 1 \notin T /\ t - 1 \in 0 .. top - 1
    BY <2>2, <2>3
  <2> QED BY <2>3, <2>4
<1> QED BY <1>1, <1>2

\* B has the value A at 0, and a step leads from each value to the next.
Recursion(A, step, top, B) == B[0] = A /\ \A i \in 1 .. top : B[i] = step[i][B[i - 1]]

\* A function given by its value at 0 and by a step from each value to the
\* next exists.
LEMMA RecursionExists ==
  ASSUME NEW T, NEW top \in Nat, NEW A \in T, NEW step \in [1 .. top -> [T -> T]]
  PROVE  \E B \in [0 .. top -> T] : Recursion(A, step, top, B)
<1> DEFINE Upto(m, B) == Recursion(A, step, m, B)
           P == {m \in 0 .. top : \E B \in [0 .. m -> T] : Upto(m, B)}
<1>1. 0 \in P
  <2> DEFINE Z == [i \in 0 .. 0 |-> A]
  <2>1. Z \in [0 .. 0 -> T] /\ Upto(0, Z)
    BY DEF Recursion
  <2>2. 0 \in 0 .. top
    OBVIOUS
  <2> HIDE DEF Z, Upto
  <2> QED BY <2>1, <2>2
<1>2. \A m \in 0 .. top - 1 : m \in P => m + 1 \in P
  <2> SUFFICES ASSUME NEW m \in 0 .. top - 1, m \in P PROVE m + 1 \in P
    OBVIOUS
  <2>1. PICK B \in [0 .. m -> T] : Upto(m, B)
    OBVIOUS
  <2> DEFINE C == [i \in 0 .. m + 1 |-> IF i = m + 1 THEN step[m + 1][B[m]] ELSE B[i]]
  <2>2. C \in [0 .. m + 1 -> T]
    OBVIOUS
  <2>3. Upto(m + 1, C)
    BY <2>1 DEF Recursion
  <2>4. m + 1 \in 0 .. top
    OBVIOUS
  <2> QED BY <2>2, <2>3, <2>4
<1>3. top \in P
  <2>1. \A m \in 0 .. top : m \in P
    <3> HIDE DEF P
    <3> QED BY <1>1, <1>2, UpTo
  <2>2. top \in 0 .. top
    OBVIOUS
  <2> HIDE DEF P
  <2> QED BY <2>1, <2>2
<1> QED BY <1>3

------------------------------------------------------------------------------
(***************************************************************************)
(* Twin-width.                                                             *)
(***************************************************************************)
\* The partitions one contraction of width at most d further.
Further(g, d, S) == {P \in UNION {Merges(R) : R \in S} : MaxRedDegree(g, P) <= d}

\* Contractions of sets of vertices give sets of vertices.
LEMMA FurtherTyped ==
  ASSUME NEW g, NEW d, NEW S \in SUBSET SUBSET SUBSET V
  PROVE  Further(g, d, S) \in SUBSET SUBSET SUBSET V
<1> SUFFICES ASSUME NEW R \in S, NEW P \in Merges(R) PROVE P \in SUBSET SUBSET V
  BY DEF Further
<1>1. PICK q \in R \X R : P = MergeParts(R, q[1], q[2])
  BY DEF Merges
<1>2. q[1] \in SUBSET V /\ q[2] \in SUBSET V /\ R \in SUBSET SUBSET V
  OBVIOUS
<1> QED BY <1>1, <1>2 DEF MergeParts

\* Reachable, unfolded.
LEMMA ReachableUnfold ==
  ASSUME NEW g, NEW d
  PROVE  /\ Reachable(g, d)[0] = {Singletons}
         /\ \A k \in 1 .. n - 1 : Reachable(g, d)[k] = Further(g, d, Reachable(g, d)[k - 1])
<1> DEFINE T == SUBSET SUBSET SUBSET V
           F(B) == [k \in 0 .. n - 1 |-> IF k = 0 THEN {Singletons} ELSE Further(g, d, B[k - 1])]
           D == CHOOSE B : B = F(B)
<1>1. n - 1 \in Nat
  BY Numbered
<1>2. {Singletons} \in T
  BY DEF Singletons
<1> DEFINE step == [i \in 1 .. n - 1 |-> [S \in T |-> Further(g, d, S)]]
<1>3. step \in [1 .. n - 1 -> [T -> T]]
  BY FurtherTyped
<1>4. PICK B \in [0 .. n - 1 -> T] :
         B[0] = {Singletons} /\ \A i \in 1 .. n - 1 : B[i] = step[i][B[i - 1]]
  <2> DEFINE top == n - 1
             A == {Singletons}
  <2> HIDE DEF T, step
  <2>1. top \in Nat /\ A \in T /\ step \in [1 .. top -> [T -> T]]
    BY <1>1, <1>2, <1>3
  <2>2. \E B \in [0 .. top -> T] : Recursion(A, step, top, B)
    <3> HIDE DEF top, A
    <3> QED BY <2>1, RecursionExists
  <2> QED BY <2>2 DEF Recursion
<1>5. B = F(B)
  <2>1. \A i \in 1 .. n - 1 : B[i] = Further(g, d, B[i - 1])
    <3> SUFFICES ASSUME NEW i \in 1 .. n - 1 PROVE B[i] = Further(g, d, B[i - 1])
      OBVIOUS
    <3>1. B[i - 1] \in T
      BY <1>1
    <3> HIDE DEF T
    <3> QED BY <1>4, <3>1
  <2>2. \A i \in 0 .. n - 1 : B[i] = IF i = 0 THEN {Singletons} ELSE Further(g, d, B[i - 1])
    BY <1>1, <1>4, <2>1
  <2> HIDE DEF T
  <2> QED BY <2>2
<1>6. D = F(D)
  <2> HIDE DEF F
  <2> QED BY <1>5
<1>7. Reachable(g, d) = D
  BY DEF Reachable, Further, n
<1>8. D[0] = {Singletons} /\ \A k \in 1 .. n - 1 : D[k] = Further(g, d, D[k - 1])
  <2> HIDE DEF D
  <2>1. \A k \in 0 .. n - 1 : D[k] = IF k = 0 THEN {Singletons} ELSE Further(g, d, D[k - 1])
    BY <1>6
  <2> HIDE DEF F
  <2> QED BY <1>1, <2>1
<1> HIDE DEF D
<1> QED BY <1>7, <1>8

\* The twin-width is the least width of a sequence, if there is one.
LEMMA TwinWidthLeast ==
  ASSUME NEW g, NEW e \in 0 .. n, Reachable(g, e)[n - 1] # {}
  PROVE  /\ tww(g) \in 0 .. n
         /\ Reachable(g, tww(g))[n - 1] # {}
         /\ \A d \in 0 .. n : Reachable(g, d)[n - 1] # {} => tww(g) <= d
<1> DEFINE S == {d \in 0 .. n : Reachable(g, d)[n - 1] # {}}
<1>1. S # {} /\ S \subseteq Nat
  BY Numbered
<1>2. \E t \in S : \A s \in S : t <= s
  <2> HIDE DEF S
  <2> QED BY <1>1, LeastNat
<1>3. tww(g) = CHOOSE x \in S : \A y \in S : x <= y
  BY DEF tww, Min, n
<1>4. tww(g) \in S /\ \A y \in S : tww(g) <= y
  <2> HIDE DEF S
  <2> QED BY <1>2, <1>3
<1> QED BY <1>4

\* A partition of V into k classes.
IsPartition(P, k) ==
  /\ P \subseteq SUBSET V
  /\ {} \notin P
  /\ UNION P = V
  /\ \A A, B \in P : A # B => A \cap B = {}
  /\ IsFiniteSet(P) /\ Cardinality(P) = k

\* Sets of sets of vertices are finite.
LEMMA PartitionFinite ==
  ASSUME NEW P, P \subseteq SUBSET V
  PROVE  IsFiniteSet(P)
BY VFinite, FS_SUBSET, FS_Subset

\* Before any contraction there are n classes.
LEMMA SingletonsPartition == IsPartition(Singletons, n)
<1>1. Singletons \subseteq SUBSET V
  BY DEF Singletons
<1>2. Cardinality(Singletons) = n
  <2> DEFINE f == [v \in V |-> {v}]
  <2>1. f \in Bijection(V, Singletons)
    <3>1. f \in [V -> Singletons]
      BY DEF Singletons
    <3>2. \A a, b \in V : f[a] = f[b] => a = b
      OBVIOUS
    <3>3. \A t \in Singletons : \E s \in V : f[s] = t
      BY DEF Singletons
    <3> HIDE DEF f
    <3>4. f \in Injection(V, Singletons)
      BY <3>1, <3>2 DEF Injection, IsInjective
    <3>5. f \in Surjection(V, Singletons)
      BY <3>1, <3>3 DEF Surjection
    <3> QED BY <3>4, <3>5 DEF Bijection
  <2>2. ExistsBijection(V, Singletons)
    BY <2>1 DEF ExistsBijection
  <2> QED BY <2>2, VFinite, FS_Bijection DEF n
<1>3. IsFiniteSet(Singletons)
  BY <1>1, PartitionFinite
<1>4. UNION Singletons = V /\ {} \notin Singletons /\ \A A, B \in Singletons : A # B => A \cap B = {}
  BY DEF Singletons
<1> QED BY <1>1, <1>2, <1>3, <1>4 DEF IsPartition

\* A contraction leaves one class less.
LEMMA MergePartition ==
  ASSUME NEW P, NEW k \in Int, IsPartition(P, k), NEW A \in P, NEW B \in P, A # B
  PROVE  IsPartition(MergeParts(P, A, B), k - 1)
<1> DEFINE Q == P \ {A, B}
           R == MergeParts(P, A, B)
<1>1. R = Q \union {A \union B}
  BY DEF MergeParts
<1>2. A # {} /\ B # {} /\ A \cap B = {} /\ \A C \in Q : C \cap A = {} /\ C \cap B = {}
  BY DEF IsPartition
<1>3. A \union B \notin Q
  BY <1>2
<1>4. IsFiniteSet(P \ {A}) /\ Cardinality(P \ {A}) = k - 1
  BY FS_RemoveElement DEF IsPartition
<1>5. IsFiniteSet((P \ {A}) \ {B}) /\ Cardinality((P \ {A}) \ {B}) = k - 2
  BY <1>4, FS_RemoveElement
<1>6. Q = (P \ {A}) \ {B}
  OBVIOUS
<1>7. IsFiniteSet(R) /\ Cardinality(R) = k - 1
  <2> HIDE DEF Q, R
  <2>1. IsFiniteSet(Q) /\ Cardinality(Q) = k - 2
    BY <1>5, <1>6
  <2>2. IsFiniteSet(Q \union {A \union B}) /\ Cardinality(Q \union {A \union B}) = Cardinality(Q) + 1
    BY <2>1, <1>3, FS_AddElement
  <2> QED BY <2>1, <2>2, <1>1
<1>8. R \subseteq SUBSET V /\ {} \notin R /\ UNION R = V
  <2>1. A \union B # {} /\ A \subseteq V /\ B \subseteq V
    BY <1>2 DEF IsPartition
  <2>2. \A C \in R : C = A \union B \/ C \in P
    BY <1>1
  <2>3. R \subseteq SUBSET V /\ {} \notin R
    BY <2>1, <2>2 DEF IsPartition
  <2>4. \A v \in V : \E C \in R : v \in C
    <3> SUFFICES ASSUME NEW v \in V PROVE \E C \in R : v \in C
      OBVIOUS
    <3>1. PICK C \in P : v \in C
      BY DEF IsPartition
    <3>2. CASE C \in {A, B}
      BY <3>1, <3>2, <1>1
    <3>3. CASE C \notin {A, B}
      BY <3>1, <3>3, <1>1
    <3> QED BY <3>2, <3>3
  <2> HIDE DEF R
  <2> QED BY <2>3, <2>4
<1>9. \A C, D \in R : C # D => C \cap D = {}
  <2>1. \A C, D \in Q : C # D => C \cap D = {}
    BY DEF IsPartition
  <2> HIDE DEF Q, R
  <2> QED BY <1>1, <1>2, <2>1
<1> QED BY <1>7, <1>8, <1>9 DEF IsPartition

\* Every contraction has one class less, and comes from another.
LEMMA ReachedPartition ==
  ASSUME NEW g, NEW d
  PROVE  \A k \in 0 .. n - 1 : \A P \in Reachable(g, d)[k] : IsPartition(P, n - k)
<1> DEFINE T == {k \in 0 .. n - 1 : \A P \in Reachable(g, d)[k] : IsPartition(P, n - k)}
<1>0. n - 1 \in Nat /\ n \in Nat
  BY Numbered
<1>1. 0 \in T
  BY <1>0, ReachableUnfold, SingletonsPartition
<1>2. \A k \in 0 .. (n - 1) - 1 : k \in T => k + 1 \in T
  <2> SUFFICES ASSUME NEW k \in 0 .. (n - 1) - 1, k \in T, NEW P \in Reachable(g, d)[k + 1]
               PROVE  IsPartition(P, n - (k + 1))
    BY <1>0
  <2>1. k + 1 \in 1 .. n - 1 /\ (k + 1) - 1 = k /\ n - k \in Int /\ n - (k + 1) = (n - k) - 1
    BY <1>0
  <2>2. P \in Further(g, d, Reachable(g, d)[k])
    BY <2>1, ReachableUnfold
  <2>3. PICK R \in Reachable(g, d)[k] : P \in Merges(R)
    BY <2>2 DEF Further
  <2>4. PICK q \in {r \in R \X R : r[1] # r[2]} : P = MergeParts(R, q[1], q[2])
    BY <2>3 DEF Merges
  <2>5. IsPartition(R, n - k) /\ q[1] \in R /\ q[2] \in R /\ q[1] # q[2]
    BY <2>3, <2>4
  <2> QED BY <2>1, <2>4, <2>5, MergePartition
<1>3. \A k \in 0 .. n - 1 : k \in T
  <2> HIDE DEF T
  <2> QED BY <1>0, <1>1, <1>2, UpTo
<1> QED BY <1>3

\* The sequences that go on have been going on.
LEMMA ReachableBefore ==
  ASSUME NEW g, NEW d, NEW k \in 0 .. n - 1, Reachable(g, d)[n - 1] # {}
  PROVE  Reachable(g, d)[k] # {}
<1> DEFINE T == {i \in 0 .. n - 1 : Reachable(g, d)[n - 1 - i] # {}}
<1>0. n - 1 \in Nat /\ n \in Nat
  BY Numbered
<1>1. 0 \in T
  BY <1>0
<1>2. \A i \in 0 .. (n - 1) - 1 : i \in T => i + 1 \in T
  <2> SUFFICES ASSUME NEW i \in 0 .. (n - 1) - 1, i \in T
               PROVE  Reachable(g, d)[n - 1 - (i + 1)] # {}
    BY <1>0
  <2> DEFINE j == n - 1 - i
  <2>1. j \in 1 .. n - 1 /\ j - 1 = n - 1 - (i + 1)
    BY <1>0
  <2>2. Reachable(g, d)[j] = Further(g, d, Reachable(g, d)[j - 1]) /\ Reachable(g, d)[j] # {}
    BY <2>1, ReachableUnfold
  <2>3. Reachable(g, d)[j - 1] # {}
    <3> HIDE DEF j
    <3> QED BY <2>2 DEF Further
  <2> QED BY <2>1, <2>3
<1>3. \A i \in 0 .. n - 1 : i \in T
  <2> HIDE DEF T
  <2> QED BY <1>0, <1>1, <1>2, UpTo
<1>4. n - 1 - k \in 0 .. n - 1 /\ n - 1 - (n - 1 - k) = k
  BY <1>0
<1>5. n - 1 - k \in T
  <2> HIDE DEF T
  <2> QED BY <1>3, <1>4
<1> QED BY <1>4, <1>5

\* A red degree is at most the largest one.
LEMMA RedDegreeBound ==
  ASSUME NEW g, NEW P, IsFiniteSet(P)
  PROVE  /\ MaxRedDegree(g, P) \in Nat
         /\ \A A \in P : RedDegree(g, P, A) \in Nat /\ RedDegree(g, P, A) <= MaxRedDegree(g, P)
<1> DEFINE S == {0} \union {RedDegree(g, P, A) : A \in P}
<1>1. \A A \in P : RedDegree(g, P, A) \in Nat /\ RedDegree(g, P, A) <= Cardinality(P)
  <2> SUFFICES ASSUME NEW A \in P
               PROVE  RedDegree(g, P, A) \in Nat /\ RedDegree(g, P, A) <= Cardinality(P)
    OBVIOUS
  <2> DEFINE B == {C \in P \ {A} : ~Homogeneous(g, A, C)}
  <2>1. B \in SUBSET P
    OBVIOUS
  <2>2. IsFiniteSet(B) /\ Cardinality(B) <= Cardinality(P)
    <3> HIDE DEF B
    <3> QED BY <2>1, FS_Subset
  <2>3. Cardinality(B) \in Nat
    <3> HIDE DEF B
    <3> QED BY <2>2, FS_CardinalityType
  <2> QED BY <2>2, <2>3 DEF RedDegree
<1>2. Cardinality(P) \in Nat
  BY FS_CardinalityType
<1>3. S \subseteq Nat /\ S # {} /\ \A x \in S : x <= Cardinality(P)
  BY <1>1, <1>2
<1>4. Max(S) \in S /\ \A y \in S : y <= Max(S)
  <2> HIDE DEF S
  <2> QED BY <1>2, <1>3, MaxOfNats
<1>5. MaxRedDegree(g, P) = Max(S)
  BY DEF MaxRedDegree
<1> HIDE DEF S
<1>6. \A A \in P : RedDegree(g, P, A) \in S
  BY DEF S
<1> QED BY <1>1, <1>3, <1>4, <1>5, <1>6

\* With no red degree, all classes are homogeneous to each other.
LEMMA RedFree ==
  ASSUME NEW g, NEW P, IsFiniteSet(P), MaxRedDegree(g, P) <= 0,
         NEW A \in P, NEW B \in P, A # B
  PROVE  Homogeneous(g, A, B)
<1> DEFINE S == {C \in P \ {A} : ~Homogeneous(g, A, C)}
<1>1. RedDegree(g, P, A) = 0
  BY RedDegreeBound
<1>2. Cardinality(S) = 0
  BY <1>1 DEF RedDegree
<1>3. IsFiniteSet(S)
  <2>1. S \in SUBSET P
    OBVIOUS
  <2> HIDE DEF S
  <2> QED BY <2>1, FS_Subset
<1>4. S = {}
  <2> HIDE DEF S
  <2> QED BY <1>2, <1>3, FS_EmptySet
<1> QED BY <1>4

\* Two classes that are homogeneous to each other: the graph or its
\* complement falls apart.
LEMMA NotHomogeneous ==
  ASSUME NEW g, is_connected(g), is_connected(Complement(g)),
         NEW A, NEW B, A # {}, B # {}, A \cap B = {}, A \union B = V
  PROVE  ~Homogeneous(g, A, B)
<1>1. A \in (SUBSET V) \ {{}, V} /\ A \subseteq V /\ B = V \ A
  OBVIOUS
<1>2. PICK u \in A : \E x \in V \ A : <<u, x>> \in g
  <2>1. (UNION {neighborhood(g, v) : v \in A}) \ A # {}
    BY <1>1 DEF is_connected
  <2>2. PICK v \in A : \E x : x \in neighborhood(g, v) /\ x \notin A
    BY <2>1
  <2> QED BY <2>2 DEF neighborhood
<1>3. PICK w \in A : \E x \in V \ A : <<w, x>> \in Complement(g)
  <2>1. (UNION {neighborhood(Complement(g), v) : v \in A}) \ A # {}
    BY <1>1 DEF is_connected
  <2>2. PICK v \in A : \E x : x \in neighborhood(Complement(g), v) /\ x \notin A
    BY <2>1
  <2> QED BY <2>2 DEF neighborhood
<1>4. \E x \in B : <<u, x>> \in g
  BY <1>1, <1>2
<1>5. \E x \in B : <<w, x>> \notin g
  BY <1>1, <1>3 DEF Complement
<1> QED BY <1>4, <1>5, HomogeneousPoints

\* No contraction sequence of width 0 for a graph that is connected like its
\* complement: the last two classes would be homogeneous to each other.
LEMMA WidthZero ==
  ASSUME NEW g, n # 1, is_connected(g), is_connected(Complement(g))
  PROVE  Reachable(g, 0)[n - 1] = {}
<1>0. n \in Nat /\ n >= 2 /\ n - 2 \in 0 .. n - 1 /\ n - 1 \in 1 .. n - 1 /\ (n - 1) - 1 = n - 2
  BY Numbered
<1> SUFFICES ASSUME Reachable(g, 0)[n - 1] # {} PROVE FALSE
  OBVIOUS
<1>1. Reachable(g, 0)[n - 2] # {}
  BY <1>0, ReachableBefore
<1>2. PICK P \in Reachable(g, 0)[n - 2] : TRUE
  BY <1>1
<1>3. IsPartition(P, 2)
  <2>1. n - (n - 2) = 2
    BY <1>0
  <2> QED BY <1>0, <1>2, <2>1, ReachedPartition
<1>4. PICK A \in P, B \in P : A # B /\ P = {A, B}
  <2>1. IsFiniteSet(P) /\ Cardinality(P) = 2
    BY <1>3 DEF IsPartition
  <2>2. P # {}
    BY <2>1, FS_EmptySet
  <2>3. PICK A \in P : TRUE
    BY <2>2
  <2>4. IsFiniteSet(P \ {A}) /\ Cardinality(P \ {A}) = 1
    BY <2>1, <2>3, FS_RemoveElement
  <2>5. PICK B : P \ {A} = {B}
    BY <2>4, FS_Singleton
  <2> QED BY <2>3, <2>5
<1>5. A # {} /\ B # {} /\ A \cap B = {} /\ A \union B = V
  <2>1. A # {} /\ B # {} /\ A \cap B = {}
    BY <1>3, <1>4 DEF IsPartition
  <2>2. UNION P = V
    BY <1>3 DEF IsPartition
  <2> QED BY <2>1, <2>2, <1>4
<1>6. ~Homogeneous(g, A, B)
  BY <1>5, NotHomogeneous
<1>7. CASE n - 2 = 0
  <2>1. P = Singletons
    BY <1>2, <1>7, ReachableUnfold
  <2>2. PICK a \in V, b \in V : A = {a} /\ B = {b}
    BY <1>4, <2>1 DEF Singletons
  <2>3. Homogeneous(g, A, B)
    BY <2>2, HomogeneousPoints
  <2> QED BY <1>6, <2>3
<1>8. CASE n - 2 # 0
  <2>1. n - 2 \in 1 .. n - 1
    BY <1>0, <1>8
  <2>2. P \in Further(g, 0, Reachable(g, 0)[(n - 2) - 1])
    BY <1>2, <2>1, ReachableUnfold
  <2>3. MaxRedDegree(g, P) <= 0
    BY <2>2 DEF Further
  <2>4. IsFiniteSet(P)
    BY <1>3 DEF IsPartition
  <2> QED BY <1>4, <1>6, <2>3, <2>4, RedFree
<1> QED BY <1>7, <1>8

\* One contraction further.
LEMMA ReachableFurther ==
  ASSUME NEW g, NEW d \in Nat, NEW k \in 0 .. n - 2, NEW R \in Reachable(g, d)[k],
         NEW A \in R, NEW B \in R, A # B, MaxRedDegree(g, MergeParts(R, A, B)) <= d
  PROVE  MergeParts(R, A, B) \in Reachable(g, d)[k + 1]
<1>0. k + 1 \in 1 .. n - 1 /\ (k + 1) - 1 = k
  BY Numbered
<1>1. MergeParts(R, A, B) \in Merges(R)
  <2> DEFINE q == <<A, B>>
  <2>1. q \in {r \in R \X R : r[1] # r[2]} /\ MergeParts(R, A, B) = MergeParts(R, q[1], q[2])
    OBVIOUS
  <2> HIDE DEF q
  <2> QED BY <2>1 DEF Merges
<1>2. MergeParts(R, A, B) \in Further(g, d, Reachable(g, d)[k])
  BY <1>1 DEF Further
<1> QED BY <1>0, <1>2, ReachableUnfold

\* Every sequence of width at most d begins with a pair of vertices.
LEMMA FirstPair ==
  ASSUME NEW g, NEW d \in Nat, n # 1, Reachable(g, d)[n - 1] # {}
  PROVE  \E e \in Pairs({}) : MaxRedDegree(g, MergeParts(Singletons, {e[1]}, {e[2]})) <= d
<1>0. n \in Nat /\ n >= 2 /\ 1 \in 0 .. n - 1 /\ 1 \in 1 .. n - 1 /\ 1 - 1 = 0
  BY Numbered
<1>1. PICK P \in Reachable(g, d)[1] : TRUE
  BY <1>0, ReachableBefore
<1>2. P \in Further(g, d, {Singletons})
  <2>1. Reachable(g, d)[1] = Further(g, d, Reachable(g, d)[0])
    BY <1>0, ReachableUnfold
  <2> QED BY <1>1, <2>1, ReachableUnfold
<1>3. P \in Merges(Singletons) /\ MaxRedDegree(g, P) <= d
  BY <1>2 DEF Further
<1>4. PICK q \in {r \in Singletons \X Singletons : r[1] # r[2]} : P = MergeParts(Singletons, q[1], q[2])
  BY <1>3 DEF Merges
<1>5. PICK a \in V, b \in V : q[1] = {a} /\ q[2] = {b} /\ a # b
  BY <1>4 DEF Singletons
<1>6. a \in Int /\ b \in Int
  BY Numbered
<1>7. CASE a < b
  <2>1. <<a, b>> \in Pairs({})
    BY <1>7 DEF Pairs
  <2> QED BY <1>3, <1>4, <1>5, <2>1
<1>8. CASE b < a
  <2>1. <<b, a>> \in Pairs({})
    BY <1>8 DEF Pairs
  <2>2. P = MergeParts(Singletons, {b}, {a})
    BY <1>4, <1>5, MergeSymmetric
  <2> QED BY <1>3, <2>1, <2>2
<1>9. a < b \/ b < a
  BY <1>5, <1>6
<1> QED BY <1>7, <1>8, <1>9

------------------------------------------------------------------------------
(***************************************************************************)
(* Replaying a sequence.                                                   *)
(***************************************************************************)
\* Before the first pair.
StartRun == [H |-> EmptyGraph, removed |-> {}, answer |-> 0]

\* One pair further.
AfterPair(g, run, pu) ==
  [H |-> Contracted(g, run.removed, run.H, pu[1], pu[2]),
   removed |-> run.removed \union {pu[2]},
   answer |-> Larger(run.answer, max_degree(Contracted(g, run.removed, run.H, pu[1], pu[2])))]

\* What Replayed goes through.
RunStates == [H : SUBSET (V \X V), removed : SUBSET V, answer : Nat]

\* A pair leads from one of these states to another.
LEMMA AfterPairTyped ==
  ASSUME NEW g, NEW run \in RunStates, NEW pu \in V \X V
  PROVE  AfterPair(g, run, pu) \in RunStates
<1> DEFINE R == Contracted(g, run.removed, run.H, pu[1], pu[2])
<1>1. R \in SUBSET (V \X V)
  BY DEF RunStates, Contracted, add_edges, remove_edges, Mirror
<1>2. max_degree(R) \in Nat
  <2> HIDE DEF R
  <2> QED BY MaxDegreeBound
<1>3. run.answer \in Nat /\ run.removed \in SUBSET V /\ pu[2] \in V
  BY DEF RunStates
<1>4. Larger(run.answer, max_degree(R)) \in Nat
  <2> HIDE DEF R
  <2> QED BY <1>2, <1>3 DEF Larger
<1>5. AfterPair(g, run, pu) =
        [H |-> R, removed |-> run.removed \union {pu[2]}, answer |-> Larger(run.answer, max_degree(R))]
  BY DEF AfterPair
<1> HIDE DEF R
<1> QED BY <1>1, <1>3, <1>4, <1>5 DEF RunStates

\* Replayed, unfolded.
LEMMA ReplayedUnfold ==
  ASSUME NEW g, NEW s \in Seq(V \X V)
  PROVE  /\ Replayed(g, s)[0] = StartRun
         /\ \A i \in 1 .. Len(s) : Replayed(g, s)[i] = AfterPair(g, Replayed(g, s)[i - 1], s[i])
<1> DEFINE T == RunStates
           top == Len(s)
           F(B) == [i \in 0 .. top |-> IF i = 0 THEN StartRun ELSE AfterPair(g, B[i - 1], s[i])]
           D == CHOOSE B : B = F(B)
           step == [i \in 1 .. top |-> [run \in T |-> AfterPair(g, run, s[i])]]
<1>1. top \in Nat /\ \A i \in 1 .. top : s[i] \in V \X V
  OBVIOUS
<1>2. StartRun \in T
  BY DEF StartRun, RunStates, EmptyGraph
<1>3. step \in [1 .. top -> [T -> T]]
  <2>1. \A i \in 1 .. top : \A run \in T : AfterPair(g, run, s[i]) \in T
    BY <1>1, AfterPairTyped
  <2> HIDE DEF T, top
  <2> QED BY <2>1
<1>4. PICK B \in [0 .. top -> T] : Recursion(StartRun, step, top, B)
  <2> DEFINE A == StartRun
  <2> HIDE DEF T, step, top, A
  <2>1. A \in T
    BY <1>2 DEF A
  <2>2. \E B \in [0 .. top -> T] : Recursion(A, step, top, B)
    BY <2>1, <1>1, <1>3, RecursionExists
  <2> QED BY <2>2 DEF A
<1>5. B = F(B)
  <2>1. \A i \in 1 .. top : B[i] = AfterPair(g, B[i - 1], s[i])
    <3> SUFFICES ASSUME NEW i \in 1 .. top PROVE B[i] = AfterPair(g, B[i - 1], s[i])
      OBVIOUS
    <3>1. B[i - 1] \in T
      BY <1>1
    <3>2. B[i] = step[i][B[i - 1]]
      BY <1>4 DEF Recursion
    <3> HIDE DEF T, top
    <3> QED BY <3>1, <3>2
  <2>2. \A i \in 0 .. top : B[i] = IF i = 0 THEN StartRun ELSE AfterPair(g, B[i - 1], s[i])
    <3>1. B[0] = StartRun
      BY <1>4 DEF Recursion
    <3> HIDE DEF T, step
    <3> QED BY <1>1, <2>1, <3>1
  <2> HIDE DEF T, top
  <2> QED BY <2>2
<1>6. D = F(D)
  <2> HIDE DEF F
  <2> QED BY <1>5
<1>7. Replayed(g, s) = D
  BY DEF Replayed, AfterPair, StartRun
<1>8. D[0] = StartRun /\ \A i \in 1 .. top : D[i] = AfterPair(g, D[i - 1], s[i])
  <2> HIDE DEF D, top
  <2>1. \A i \in 0 .. top : D[i] = IF i = 0 THEN StartRun ELSE AfterPair(g, D[i - 1], s[i])
    BY <1>6
  <2> HIDE DEF F
  <2> QED BY <1>1, <2>1
<1> HIDE DEF D
<1> QED BY <1>7, <1>8

\* Replaying a longer sequence.
LEMMA ReplayedAppend ==
  ASSUME NEW g, NEW s \in Seq(V \X V), NEW e \in V \X V
  PROVE  /\ Len(Append(s, e)) = Len(s) + 1
         /\ Replayed(g, Append(s, e))[Len(s) + 1] = AfterPair(g, Replayed(g, s)[Len(s)], e)
<1> DEFINE t == Append(s, e)
           T == {i \in 0 .. Len(s) : Replayed(g, t)[i] = Replayed(g, s)[i]}
<1>0. /\ t \in Seq(V \X V) /\ Len(s) \in Nat /\ Len(t) = Len(s) + 1 /\ t[Len(s) + 1] = e
      /\ \A i \in 1 .. Len(s) : t[i] = s[i]
  OBVIOUS
<1> HIDE DEF t
<1>u. \A i \in 1 .. Len(t) : Replayed(g, t)[i] = AfterPair(g, Replayed(g, t)[i - 1], t[i])
  BY <1>0, ReplayedUnfold
<1>v. \A i \in 1 .. Len(s) : Replayed(g, s)[i] = AfterPair(g, Replayed(g, s)[i - 1], s[i])
  BY <1>0, ReplayedUnfold
<1>1. 0 \in T
  BY <1>0, ReplayedUnfold
<1>2. \A i \in 0 .. Len(s) - 1 : i \in T => i + 1 \in T
  <2> SUFFICES ASSUME NEW i \in 0 .. Len(s) - 1, i \in T
               PROVE  i + 1 \in 0 .. Len(s) /\ Replayed(g, t)[i + 1] = Replayed(g, s)[i + 1]
    OBVIOUS
  <2>1. i + 1 \in 1 .. Len(s) /\ i + 1 \in 1 .. Len(t) /\ (i + 1) - 1 = i
    BY <1>0
  <2>2. Replayed(g, t)[i + 1] = AfterPair(g, Replayed(g, t)[(i + 1) - 1], t[i + 1])
    BY <1>u, <2>1
  <2>3. Replayed(g, s)[i + 1] = AfterPair(g, Replayed(g, s)[(i + 1) - 1], s[i + 1])
    BY <1>v, <2>1
  <2> QED BY <1>0, <2>1, <2>2, <2>3
<1>3. \A i \in 0 .. Len(s) : i \in T
  <2> HIDE DEF T
  <2> QED BY <1>0, <1>1, <1>2, UpTo
<1>4. Replayed(g, t)[Len(s)] = Replayed(g, s)[Len(s)]
  BY <1>0, <1>3
<1>5. Len(s) + 1 \in 1 .. Len(t) /\ (Len(s) + 1) - 1 = Len(s)
  BY <1>0
<1>6. Replayed(g, t)[Len(s) + 1] = AfterPair(g, Replayed(g, t)[(Len(s) + 1) - 1], t[Len(s) + 1])
  BY <1>u, <1>5
<1> QED BY <1>0, <1>4, <1>5, <1>6 DEF t

------------------------------------------------------------------------------
(***************************************************************************)
(* What the bounds bound.                                                  *)
(***************************************************************************)
\* The vertices in rem are those s has contracted away, each pair of s at a
\* time when both its vertices were there.
Proper(s, rem) ==
  /\ rem = {s[i][2] : i \in 1 .. Len(s)}
  /\ Replayable(s)
  /\ \A i \in 1 .. Len(s) : s[i][1] # s[i][2]

\* The contractions of s lead to the partition of the classes c, with red
\* graph h, and up is the widest degree on the way.
Performed(g, h, rem, c, s, up) ==
  /\ Len(s) \in 0 .. n - 1
  /\ Proper(s, rem)
  /\ Replayed(g, s)[Len(s)] = [H |-> h, removed |-> rem, answer |-> up]
  /\ \A d \in 0 .. n : up <= d => PartsOf(c, rem) \in Reachable(g, d)[Len(s)]

\* s contracts V to one vertex, up is its width, and some sequence of
\* contractions has width up.
Bound(g, s, up) ==
  /\ IsFullSequence(s, V)
  /\ width(g, s) = up
  /\ Reachable(g, up)[n - 1] # {}

\* No pair tried has a smaller first contraction.
NoneLower(g, h, tried, low) == \A e \in tried : low <= Measure(g, {}, h, e)

RunInv ==
  /\ phase = "upper" => Performed(G, Shared, removed, cls, seq, upper)
  /\ phase # "upper" => /\ Bound(G, seq, upper)
                        /\ removed = {}
                        /\ NoneLower(G, Shared, Tried, lower)
  /\ phase = "done" => trial = NoTrial /\ untried = {}

\* The first state of the bounds.
LEMMA RunInit == Init => RunInv
<1> SUFFICES ASSUME Init PROVE RunInv
  OBVIOUS
<1>1. /\ phase = "upper" /\ H = EmptyGraph /\ removed = {} /\ trial = NoTrial
      /\ seq = <<>> /\ upper = 0 /\ cls = [v \in V |-> {v}]
  BY DEF Init, Greedy!Init, NoTrial, EmptyGraph, Greedy!EmptyGraph
<1>2. Len(seq) = 0 /\ seq \in Seq(V \X V)
  BY <1>1
<1>3. Replayed(G, seq)[0] = [H |-> EmptyGraph, removed |-> {}, answer |-> 0]
  BY <1>2, ReplayedUnfold DEF StartRun
<1>4. PartsOf(cls, removed) = Singletons
  BY <1>1 DEF PartsOf, Singletons
<1>5. \A d : PartsOf(cls, removed) \in Reachable(G, d)[0]
  BY <1>4, ReachableUnfold
<1>6. Shared = EmptyGraph
  BY <1>1 DEF Shared
<1>p. Proper(seq, removed)
  BY <1>1 DEF Proper, Replayable
<1>7. Performed(G, Shared, removed, cls, seq, upper)
  BY <1>1, <1>2, <1>3, <1>5, <1>6, <1>p, Numbered DEF Performed
<1> QED BY <1>1, <1>7 DEF RunInv

\* One more pair of vertices that are there.
LEMMA ProperFurther ==
  ASSUME NEW s \in Seq(V \X V), NEW rem, Proper(s, rem), NEW p \in V \ rem, NEW u \in V \ rem, p # u
  PROVE  Proper(Append(s, <<p, u>>), rem \union {u})
<1> DEFINE e == <<p, u>>
           t == Append(s, e)
           k == Len(s)
<1>1. /\ e \in V \X V /\ e[1] = p /\ e[2] = u
      /\ k \in Nat /\ Len(t) = k + 1 /\ DOMAIN t = 1 .. k + 1 /\ t[k + 1] = e
      /\ \A i \in 1 .. k : t[i] = s[i]
  OBVIOUS
<1>2. /\ rem = {s[i][2] : i \in 1 .. k}
      /\ \A i \in 1 .. k : s[i][1] # s[i][2]
      /\ \A i \in 1 .. k : \A j \in 1 .. i - 1 : s[j][2] # s[i][1] /\ s[j][2] # s[i][2]
  BY DEF Proper, Replayable
<1> HIDE DEF t, k, e
<1>3. rem \union {u} = {t[i][2] : i \in 1 .. Len(t)}
  <2>1. \A i \in 1 .. Len(t) : i \in 1 .. k \/ i = k + 1
    BY <1>1
  <2>2. (\A i \in 1 .. k : i \in 1 .. Len(t)) /\ k + 1 \in 1 .. Len(t)
    BY <1>1
  <2>3. ASSUME NEW x \in rem \union {u} PROVE x \in {t[i][2] : i \in 1 .. Len(t)}
    BY <1>1, <1>2, <2>2
  <2>4. ASSUME NEW i \in 1 .. Len(t) PROVE t[i][2] \in rem \union {u}
    BY <1>1, <1>2, <2>1
  <2> QED BY <2>3, <2>4
<1>4. \A i \in 1 .. Len(t) : t[i][1] # t[i][2]
  <2>1. \A i \in 1 .. Len(t) : i \in 1 .. k \/ i = k + 1
    BY <1>1
  <2> QED BY <1>1, <1>2, <2>1
<1>5. ASSUME NEW i \in DOMAIN t, NEW j \in 1 .. i - 1
      PROVE  t[j][2] # t[i][1] /\ t[j][2] # t[i][2]
  <2>1. j \in 1 .. k /\ t[j] = s[j]
    BY <1>1
  <2>2. CASE i \in 1 .. k
    BY <1>1, <1>2, <2>1, <2>2
  <2>3. CASE i = k + 1
    BY <1>1, <1>2, <2>1, <2>3
  <2> QED BY <1>1, <2>2, <2>3
<1>6. Replayable(t)
  BY <1>5 DEF Replayable
<1> QED BY <1>3, <1>4, <1>6 DEF Proper, t, e

\* One more contraction performed.
LEMMA PerformedFurther ==
  ASSUME NEW g, NEW h, NEW rem, NEW c, Reduced(g, h, rem, c),
         NEW s \in Seq(V \X V), NEW up \in 0 .. n, Performed(g, h, rem, c, s, up),
         Len(s) < n - 1,
         NEW p \in V \ rem, NEW u \in V \ rem, p # u
  PROVE  Performed(g, Contracted(g, rem, h, p, u), rem \union {u}, MergedInto(c, p, u),
                   Append(s, <<p, u>>), Larger(up, Measure(g, rem, h, <<p, u>>)))
<1> DEFINE e == <<p, u>>
           R == Contracted(g, rem, h, p, u)
           m == Measure(g, rem, h, e)
           t == Append(s, e)
           P == PartsOf(c, rem)
           Q == MergeParts(P, c[p], c[u])
<1>1. e \in V \X V /\ e[1] = p /\ e[2] = u /\ m = max_degree(R)
  BY DEF Measure
<1>2. Len(t) = Len(s) + 1 /\ Replayed(g, t)[Len(s) + 1] = AfterPair(g, Replayed(g, s)[Len(s)], e)
  BY <1>1, ReplayedAppend
<1>3. Replayed(g, s)[Len(s)] = [H |-> h, removed |-> rem, answer |-> up]
  BY DEF Performed
<1>4. AfterPair(g, Replayed(g, s)[Len(s)], e) =
        [H |-> R, removed |-> rem \union {u}, answer |-> Larger(up, max_degree(R))]
  BY <1>1, <1>3 DEF AfterPair
<1>5. m = MaxRedDegree(g, Q)
  BY <1>1, ContractedDegree
<1>6. PartsOf(MergedInto(c, p, u), rem \union {u}) = Q
  BY MergedClasses
<1>7. c[p] \in P /\ c[u] \in P /\ c[p] # c[u]
  BY DEF Reduced, PartsOf
<1>8. Len(s) \in 0 .. n - 2 /\ Len(s) + 1 \in 0 .. n - 1
  BY Numbered DEF Performed
<1>9. m \in Nat
  BY <1>1, MaxDegreeBound
<1> HIDE DEF m, Q, P, R, t, e
<1>10. ASSUME NEW d \in 0 .. n, Larger(up, m) <= d
       PROVE  Q \in Reachable(g, d)[Len(s) + 1]
  <2>1. up <= d /\ m <= d /\ d \in Nat
    BY <1>9, <1>10, Numbered DEF Larger
  <2>2. P \in Reachable(g, d)[Len(s)]
    BY <2>1 DEF Performed, P
  <2>3. MaxRedDegree(g, Q) <= d
    BY <1>5, <2>1
  <2> DEFINE A == c[p]
             B == c[u]
             k == Len(s)
  <2>4. A \in P /\ B \in P /\ A # B /\ k \in 0 .. n - 2 /\ P \in Reachable(g, d)[k]
        /\ Q = MergeParts(P, A, B) /\ MaxRedDegree(g, MergeParts(P, A, B)) <= d
    BY <1>7, <1>8, <2>2, <2>3 DEF Q
  <2> HIDE DEF A, B, k
  <2>5. MergeParts(P, A, B) \in Reachable(g, d)[k + 1]
    BY <2>1, <2>4, ReachableFurther
  <2> QED BY <2>4, <2>5 DEF k
<1>11. Performed(g, R, rem \union {u}, MergedInto(c, p, u), t, Larger(up, m))
  <2>1. Len(t) \in 0 .. n - 1
    BY <1>2, <1>8
  <2>2. Replayed(g, t)[Len(t)] = [H |-> R, removed |-> rem \union {u}, answer |-> Larger(up, m)]
    BY <1>1, <1>2, <1>4
  <2>3. Proper(t, rem \union {u})
    BY <1>1, ProperFurther DEF Performed, t, e
  <2> QED BY <1>2, <1>6, <1>10, <2>1, <2>2, <2>3 DEF Performed
<1> QED BY <1>11 DEF R, t, m, e

\* A trial, and whatever leaves the bounds alone.
LEMMA RunSame ==
  ASSUME RunInv, UNCHANGED <<G, phase, removed, seq, upper, lower, cls>>,
         Shared' = Shared, phase # "upper" => Tried' = Tried,
         phase = "done" => UNCHANGED <<trial, untried>>
  PROVE  RunInv'
<1>1. CASE phase = "upper"
  <2>1. Performed(G, Shared, removed, cls, seq, upper)' = Performed(G, Shared, removed, cls, seq, upper)
    OBVIOUS
  <2> QED BY <1>1, <2>1 DEF RunInv
<1>2. CASE phase # "upper"
  <2>1. /\ Bound(G, seq, upper)' = Bound(G, seq, upper)
        /\ NoTrial' = NoTrial
    BY DEF NoTrial, Greedy!NoTrial
  <2>2. NoneLower(G, Shared, Tried, lower)' = NoneLower(G, Shared, Tried, lower)
    BY <1>2
  <2> QED BY <1>2, <2>1, <2>2 DEF RunInv
<1> QED BY <1>1, <1>2

\* The measures of the trials, as far as they got, bound the first pair of
\* any sequence.
LEMMA RunTry ==
  ASSUME IInv, RunInv, Greedy!Try
  PROVE  RunInv'
<1>1. Shared' = Shared /\ Tried' = Tried /\ phase # "done"
      /\ UNCHANGED <<G, phase, removed, seq, upper, lower, cls>>
  BY TryInv DEF Greedy!Try
<1> QED BY <1>1, RunSame

LEMMA RunMeasureUpper ==
  ASSUME IInv, RunInv, Greedy!MeasureUpper
  PROVE  RunInv'
<1>1. /\ phase = "upper" /\ trial # NoTrial /\ H' = Greedy!Undone /\ trial' = NoTrial
      /\ UNCHANGED <<G, phase, removed, untried, seq, upper, lower, cls>>
  BY DEF Greedy!MeasureUpper, NoTrial
<1>2. Shared' = Shared
  BY <1>1, Measured
<1> QED BY <1>1, <1>2, RunSame

LEMMA RunMeasureLower ==
  ASSUME IInv, RunInv, Greedy!MeasureLower
  PROVE  RunInv'
<1> DEFINE m == max_degree(H)
<1>1. /\ phase = "lower" /\ trial # NoTrial /\ H' = Greedy!Undone /\ trial' = NoTrial
      /\ lower' = IF m < lower THEN m ELSE lower
      /\ UNCHANGED <<G, phase, removed, untried, seq, upper, cls>>
  BY GreedyDegree DEF Greedy!MeasureLower, NoTrial
<1>2. Shared' = Shared /\ Tried' = Tried \union {Pair}
  BY <1>1, Measured
<1>3. /\ Bound(G, seq, upper) /\ removed = {} /\ NoneLower(G, Shared, Tried, lower)
  BY <1>1 DEF RunInv
<1>4. /\ m = Measure(G, {}, Shared, Pair) /\ Pair \in Pairs({}) /\ Tried \subseteq Pairs({})
      /\ IsSimple(Shared)
  BY <1>1, <1>3, Facts DEF Tried
<1>5. \A e \in Tried \union {Pair} : Measure(G, {}, Shared, e) \in Nat
  BY <1>4, MeasureRange
<1>6. lower \in Nat
  BY Numbered DEF IInv, Numbers
<1>7. NoneLower(G, Shared, Tried \union {Pair}, lower')
  <2>1. m \in Nat
    BY <1>4, <1>5
  <2>2. lower' <= lower /\ lower' <= m
    BY <1>1, <1>6, <2>1
  <2> DEFINE M(e) == Measure(G, {}, Shared, e)
  <2>3. \A e \in Tried \union {Pair} : M(e) \in Nat /\ (e \in Tried => lower <= M(e)) /\ (e \notin Tried => M(e) = m)
    BY <1>3, <1>4, <1>5 DEF NoneLower
  <2>4. lower' \in Nat
    BY <1>1, <1>6, <2>1
  <2> HIDE DEF M, m
  <2>5. \A e \in Tried \union {Pair} : lower' <= M(e)
    BY <1>6, <2>1, <2>2, <2>3, <2>4
  <2> QED BY <2>5 DEF M, NoneLower
<1>8. Bound(G, seq, upper)'
  BY <1>1, <1>3
<1>9. NoneLower(G, Shared, Tried, lower)'
  BY <1>1, <1>2, <1>7 DEF NoneLower
<1> QED BY <1>1, <1>3, <1>8, <1>9 DEF RunInv

\* The sequence grows by the pair chosen.
LEMMA RunCommit ==
  ASSUME IInv, RunInv, Greedy!Commit
  PROVE  RunInv'
<1> DEFINE p == choice[2]
           u == choice[3]
<1>1. /\ p \in V \ removed /\ u \in V \ removed /\ p # u
      /\ choice[1] = Measure(G, removed, H, <<p, u>>)
      /\ Shared = H /\ trial' = NoTrial
      /\ H' = Contracted(G, removed, H, p, u)
      /\ removed' = removed \union {u}
      /\ cls' = MergedInto(cls, p, u)
      /\ seq' = Append(seq, <<p, u>>)
      /\ upper' = Larger(upper, choice[1])
      /\ phase = "upper" /\ UNCHANGED <<G, phase, lower>>
  BY CommitFacts
<1>2. Len(seq) < n - 1
  BY GreedyNames DEF Greedy!Commit
<1>3. Reduced(G, H, removed, cls) /\ seq \in Seq(V \X V) /\ upper \in 0 .. n
      /\ Performed(G, H, removed, cls, seq, upper)
  BY <1>1 DEF IInv, Classes, Numbers, RunInv
<1> HIDE DEF p, u
<1>4. Performed(G, Contracted(G, removed, H, p, u), removed \union {u}, MergedInto(cls, p, u),
                Append(seq, <<p, u>>), Larger(upper, Measure(G, removed, H, <<p, u>>)))
  BY <1>1, <1>2, <1>3, PerformedFurther
<1>5. Shared' = H'
  <2>1. NoTrial' = NoTrial
    BY DEF NoTrial, Greedy!NoTrial
  <2> QED BY <1>1, <2>1 DEF Shared
<1>6. Performed(G, H', removed', cls', seq', upper')
  BY <1>1, <1>4
<1>7. Performed(G, Shared, removed, cls, seq, upper)'
  BY <1>1, <1>5, <1>6
<1> QED BY <1>1, <1>7 DEF RunInv

\* The sequence is complete.
LEMMA RunStartLower ==
  ASSUME IInv, RunInv, Greedy!StartLower
  PROVE  RunInv'
<1>1. /\ phase = "upper" /\ Len(seq) = n - 1
      /\ phase' = "lower" /\ removed' = {}
      /\ untried' = Pairs({}) /\ lower' = n
      /\ UNCHANGED <<G, seq, upper, cls>>
  BY GreedyNames DEF Greedy!StartLower
<1>2. Performed(G, Shared, removed, cls, seq, upper)
  BY <1>1 DEF RunInv
<1>3. upper \in 0 .. n /\ upper <= upper
  BY Numbered DEF IInv, Numbers
<1>4. Bound(G, seq, upper)
  <2>1. width(G, seq) = upper
    BY <1>2 DEF Performed, width
  <2>2. PartsOf(cls, removed) \in Reachable(G, upper)[n - 1]
    BY <1>1, <1>2, <1>3 DEF Performed
  <2>3. IsFullSequence(seq, V)
    <3>1. Proper(seq, removed) /\ seq \in Seq(V \X V) /\ DOMAIN seq = 1 .. Len(seq)
      BY <1>2 DEF Performed, IInv, Numbers
    <3>2. \A i \in DOMAIN seq : seq[i][1] \in V /\ seq[i][2] \in V /\ seq[i][1] # seq[i][2]
      BY <3>1 DEF Proper
    <3> QED BY <1>1, <3>1, <3>2 DEF Proper, IsFullSequence, n
  <2> QED BY <2>1, <2>2, <2>3 DEF Bound
<1>5. Bound(G, seq, upper)'
  BY <1>1, <1>4
<1>6. Tried' = {}
  <2>1. Pairs(removed)' = Pairs({})
    BY <1>1 DEF Pairs
  <2> QED BY <1>1, <2>1 DEF Tried
<1> QED BY <1>1, <1>5, <1>6 DEF RunInv, NoneLower

\* Every pair has been measured.
LEMMA RunFinish ==
  ASSUME IInv, RunInv, Greedy!Finish
  PROVE  RunInv'
<1>1. /\ phase = "lower" /\ trial = NoTrial /\ untried = {} /\ phase' = "done"
      /\ UNCHANGED <<G, H, removed, untried, trial, choice, seq, upper, lower, cls>>
  BY DEF Greedy!Finish, NoTrial
<1>2. Shared' = Shared /\ Tried' = Tried
  BY <1>1, OthersInv
<1>3. NoTrial' = NoTrial
  BY DEF NoTrial, Greedy!NoTrial
<1>4. /\ Bound(G, seq, upper) /\ removed = {} /\ NoneLower(G, Shared, Tried, lower)
  BY <1>1 DEF RunInv
<1>5. Bound(G, seq, upper)' /\ NoneLower(G, Shared, Tried, lower)'
  BY <1>1, <1>2, <1>4
<1> QED BY <1>1, <1>3, <1>4, <1>5 DEF RunInv

\* Every step of solve.
LEMMA RunStep == IInv /\ RunInv /\ [Next]_vars => RunInv'
<1> SUFFICES ASSUME IInv, RunInv, [Next]_vars PROVE RunInv'
  OBVIOUS
<1>1. CASE UNCHANGED Greedy!vars
  <2>1. UNCHANGED <<G, H, removed, untried, trial, choice, seq, upper, lower, cls, phase>>
    BY <1>1 DEF Greedy!vars
  <2>2. Shared' = Shared /\ Tried' = Tried
    BY <2>1, OthersInv
  <2> QED BY <2>1, <2>2, RunSame
<1> QED
  BY <1>1, StepKinds, RunTry, RunMeasureUpper, RunMeasureLower, RunCommit, RunStartLower, RunFinish
  DEF Greedy!Next

\* What solve concludes when the bounds are there: the twin-width lies
\* between them, and is not 0.
LEMMA Between ==
  ASSUME IInv, RunInv, phase = "done", n # 1, is_connected(G), is_connected(Complement(G))
  PROVE  /\ tww(G) \in Nat /\ lower \in Nat /\ upper \in Nat
         /\ Larger(1, lower) <= tww(G) /\ tww(G) <= upper
         /\ width(G, seq) = upper
<1> DEFINE t == tww(G)
<1>1. /\ Bound(G, seq, upper) /\ removed = {} /\ NoneLower(G, Shared, Tried, lower)
      /\ trial = NoTrial /\ untried = {}
  BY DEF RunInv
<1>2. lower \in Nat /\ upper \in Nat /\ upper \in 0 .. n
  BY Numbered DEF IInv, Numbers
<1>3. /\ t \in 0 .. n /\ Reachable(G, t)[n - 1] # {} /\ t <= upper
  BY <1>1, <1>2, TwinWidthLeast DEF Bound
<1>4. t \in Nat
  BY <1>3
<1>5. lower <= t
  <2> HIDE DEF t
  <2>1. PICK e \in Pairs({}) : MaxRedDegree(G, MergeParts(Singletons, {e[1]}, {e[2]})) <= t
    BY <1>3, <1>4, FirstPair
  <2>2. Tried = Pairs({})
    BY <1>1, Facts
  <2>3. Reduced(G, Shared, {}, [v \in V |-> {v}])
    BY <1>1 DEF IInv, Classes
  <2>4. /\ e[1] \in V \ {} /\ e[2] \in V \ {} /\ e[1] # e[2]
    <3>1. e[1] \in V /\ e[2] \in V /\ e[1] < e[2]
      BY DEF Pairs
    <3>2. e[1] \in Nat /\ e[2] \in Nat
      BY <3>1, Numbered
    <3> QED BY <3>1, <3>2
  <2>5. PartsOf([v \in V |-> {v}], {}) = Singletons
    BY DEF PartsOf, Singletons
  <2> DEFINE c == [v \in V |-> {v}]
  <2>6. c[e[1]] = {e[1]} /\ c[e[2]] = {e[2]} /\ PartsOf(c, {}) = Singletons /\ Reduced(G, Shared, {}, c)
    <3>1. c[e[1]] = {e[1]} /\ c[e[2]] = {e[2]}
      BY <2>4
    <3> QED BY <2>3, <2>5, <3>1
  <2> HIDE DEF c
  <2> DEFINE p == e[1]
             u == e[2]
  <2>r. p \in V \ {} /\ u \in V \ {} /\ p # u /\ Reduced(G, Shared, {}, c)
    BY <2>4, <2>6
  <2> HIDE DEF p, u
  <2>c. max_degree(Contracted(G, {}, Shared, p, u)) =
          MaxRedDegree(G, MergeParts(PartsOf(c, {}), c[p], c[u]))
    BY <2>r, ContractedDegree
  <2>7. max_degree(Contracted(G, {}, Shared, e[1], e[2])) =
          MaxRedDegree(G, MergeParts(PartsOf(c, {}), c[e[1]], c[e[2]]))
    BY <2>c DEF p, u
  <2>8. Measure(G, {}, Shared, e) = MaxRedDegree(G, MergeParts(Singletons, {e[1]}, {e[2]}))
    BY <2>6, <2>7 DEF Measure
  <2>9. Measure(G, {}, Shared, e) \in Nat
    BY MaxDegreeBound DEF Measure
  <2>10. lower <= Measure(G, {}, Shared, e)
    BY <1>1, <2>2 DEF NoneLower
  <2> QED BY <1>2, <1>4, <2>1, <2>8, <2>9, <2>10
<1>6. t # 0
  BY <1>3, WidthZero
<1>7. width(G, seq) = upper
  BY <1>1 DEF Bound
<1> QED BY <1>2, <1>3, <1>4, <1>5, <1>6, <1>7 DEF Larger

\* A single vertex is a tree.
LEMMA OneVertex ==
  ASSUME NEW g, is_connected(g), n = 1
  PROVE  is_tree(g)
<1>1. V = 0 .. 0
  BY VNumbered DEF n
<1>2. {e \in V \X V : e \in g /\ e[1] < e[2]} = {}
  BY <1>1
<1>3. count_edges(g) = 0
  BY <1>2, FS_EmptySet DEF count_edges
<1> QED BY <1>3 DEF is_tree, n

------------------------------------------------------------------------------
(***************************************************************************)
(* The way through solve.                                                  *)
(***************************************************************************)
\* The search has not begun.
Fresh == searching = "search" /\ found.bound = lb

\* Which of the methods runs, on what graph, and what is known of the search.
SolveInv ==
  /\ G \in Inputs /\ is_connected(G) /\ tw = tww(G) /\ result \in Int
  /\ pc = "tree" => is_tree(G)
  /\ pc \in {"greedy", "search"} => n # 1
  /\ pc \in {"solve", "tree", "greedy"} => Fresh
  /\ pc = "search" => SearchInv /\ searching = "search"
  /\ pc = "solved" => Fresh \/ (searching = "returned" /\ result = lb /\ result = tw)
  /\ pc = "solved" => is_tree(G) \/ achieved = tw
  /\ pc \in {"solve", "tree", "greedy", "search", "solved"}

\* The constructor.
LEMMA SolveInit == Init => SolveInv
BY DEF Init, Greedy!Init, SolveInv, Fresh, Unknown

\* The three-way test.
LEMMA SolveDispatch ==
  ASSUME SolveInv, Dispatch
  PROVE  SolveInv'
<1>1. /\ pc = "solve"
      /\ pc' = IF n = 1 THEN "solved" ELSE IF is_tree(G) THEN "tree" ELSE "greedy"
      /\ UNCHANGED <<G, tw, lb, ub, found, searching, result>>
  BY DEF Dispatch, searchVars, n
<1>2. n = 1 => is_tree(G)
  BY OneVertex DEF SolveInv
<1>3. is_tree(G)' = is_tree(G) /\ is_connected(G)' = is_connected(G) /\ tww(G)' = tww(G) /\ n' = n
  BY <1>1 DEF n
<1>4. Fresh'
  BY <1>1 DEF SolveInv, Fresh
<1> QED BY <1>1, <1>2, <1>3, <1>4 DEF SolveInv

\* A tree never leaves its method.
LEMMA SolveTree ==
  ASSUME SolveInv, TreeStep
  PROVE  SolveInv'
<1>1. /\ pc = "tree" /\ pc' \in {"tree", "solved"}
      /\ UNCHANGED <<G, tw, lb, ub, found, searching, result>>
  BY DEF TreeStep, Tree!Next, Tree!Descend, Tree!Return, Tree!Finish,
         Tree!Returned, Tree!vars, searchVars
<1>2. is_tree(G)' = is_tree(G) /\ is_connected(G)' = is_connected(G) /\ tww(G)' = tww(G)
  BY <1>1
<1>3. Fresh' /\ is_tree(G)
  BY <1>1 DEF SolveInv, Fresh
<1> QED BY <1>1, <1>2, <1>3 DEF SolveInv

\* Steps that change nothing the invariant mentions.
LEMMA SolveSame ==
  ASSUME SolveInv, UNCHANGED <<G, pc, tw, lb, ub, found, searching, result, achieved>>
  PROVE  SolveInv'
<1>1. is_tree(G)' = is_tree(G) /\ is_connected(G)' = is_connected(G) /\ tww(G)' = tww(G) /\ n' = n
  BY DEF n
<1>2. Fresh' = Fresh
  BY DEF Fresh
<1>3. SearchInv' = SearchInv
  BY DEF SearchInv, Search!TypeOK, Search!Bracketed, Search!BestMatchesBound, ReturnsOptimum,
         Search!ReturnsOptimum, Search!NoSequence
<1> QED BY <1>1, <1>2, <1>3 DEF SolveInv

\* The bounds do not touch the search.
LEMMA SolveGreedy ==
  ASSUME SolveInv, GreedyStep
  PROVE  SolveInv'
<1>1. UNCHANGED <<G, pc, tw, lb, ub, found, searching, result, achieved>>
  BY DEF GreedyStep, searchVars, Greedy!Next, Greedy!Try, Greedy!MeasureUpper,
         Greedy!MeasureLower, Greedy!Commit, Greedy!StartLower, Greedy!Finish
<1> QED BY <1>1, SolveSame

\* Where the bounds lead.
LEMMA AtBounds ==
  ASSUME IInv, RunInv, SolveInv, pc = "greedy", phase = "done"
  PROVE  /\ tw \in Nat /\ lower \in Nat /\ upper \in Nat
         /\ Larger(1, lower) <= tw /\ tw <= upper
         /\ width(G, seq) = upper
<1>1. n # 1 /\ is_connected(G) /\ tw = tww(G) /\ G \in Inputs
  BY DEF SolveInv
<1>2. is_connected(Complement(G))
  BY <1>1, InputsCoconnected DEF n
<1> QED BY <1>1, <1>2, Between

\* Bounds that meet are the twin-width.
LEMMA SolveMeet ==
  ASSUME IInv, RunInv, SolveInv, BoundsMeet
  PROVE  SolveInv'
<1>1. /\ pc = "greedy" /\ phase = "done" /\ pc' = "solved"
      /\ Larger(1, lower) = upper
      /\ achieved' = width(G, seq)
      /\ UNCHANGED <<G, tw, lb, ub, found, searching, result>>
  BY DEF BoundsMeet, searchVars
<1>2. achieved' = tw
  BY <1>1, AtBounds
<1>3. is_tree(G)' = is_tree(G) /\ is_connected(G)' = is_connected(G) /\ tww(G)' = tww(G) /\ Fresh'
  BY <1>1 DEF SolveInv, Fresh
<1> QED BY <1>1, <1>2, <1>3 DEF SolveInv

\* The search starts within bounds.
LEMMA SolveStart ==
  ASSUME IInv, RunInv, SolveInv, StartSearch
  PROVE  SolveInv'
<1>1. /\ pc = "greedy" /\ phase = "done" /\ pc' = "search"
      /\ lb' = Larger(1, lower) /\ ub' = upper
      /\ found' = [bound |-> upper + 1, width |-> -1]
      /\ UNCHANGED <<G, tw, searching, result>>
  BY DEF StartSearch, Search!NoSequence
<1>2. /\ tw \in Nat /\ lower \in Nat /\ upper \in Nat
      /\ Larger(1, lower) <= tw /\ tw <= upper
  BY <1>1, AtBounds
<1>3. is_connected(G)' = is_connected(G) /\ tww(G)' = tww(G) /\ n' = n
  BY <1>1 DEF n
<1>4. searching = "search" /\ result \in Int /\ n # 1
  BY <1>1 DEF SolveInv, Fresh
<1>5. lb' \in Nat
  BY <1>1, <1>2 DEF Larger
<1>6. SearchInv'
  BY <1>1, <1>2, <1>4, <1>5
  DEF SearchInv, Search!TypeOK, Search!Bracketed, Search!BestMatchesBound, ReturnsOptimum,
      Search!ReturnsOptimum, Search!NoSequence
<1> QED BY <1>1, <1>3, <1>4, <1>6 DEF SolveInv

\* The search keeps its own invariant, and returns the optimum.
LEMMA SolveSearch ==
  ASSUME SolveInv, SearchStep
  PROVE  SolveInv'
<1>1. /\ pc = "search" /\ SearchInv /\ Search!Next
      /\ IF searching' = "returned" THEN pc' = "solved" /\ achieved' = result'
         ELSE UNCHANGED <<pc, achieved>>
      /\ UNCHANGED G
  BY DEF SearchStep, SolveInv
<1>2. SearchInv'
  BY <1>1, SearchNext
<1>3. tw' = tw
  BY <1>1 DEF Search!Next, Search!Found, Search!Refuted, Search!ReturnBest, Search!ReturnSolved
<1>4. /\ searching' \in {"search", "returned"} /\ result' \in Int
      /\ searching' = "returned" => result' = lb' /\ result' = tw'
  BY <1>2 DEF SearchInv, Search!TypeOK, ReturnsOptimum, Search!ReturnsOptimum
<1>5. is_tree(G)' = is_tree(G) /\ is_connected(G)' = is_connected(G) /\ tww(G)' = tww(G) /\ n' = n
  BY <1>1 DEF n
<1>6. CASE searching' = "returned"
  BY <1>1, <1>3, <1>4, <1>5, <1>6 DEF SolveInv
<1>7. CASE searching' = "search"
  BY <1>1, <1>2, <1>3, <1>4, <1>5, <1>7 DEF SolveInv
<1> QED BY <1>4, <1>6, <1>7

\* Every step of solve.
LEMMA SolveStep == IInv /\ RunInv /\ SolveInv /\ [Next]_vars => SolveInv'
<1> SUFFICES ASSUME IInv, RunInv, SolveInv, [Next]_vars PROVE SolveInv'
  OBVIOUS
<1>1. CASE Returned \/ UNCHANGED vars
  <2>1. UNCHANGED <<G, pc, tw, lb, ub, found, searching, result, achieved>>
    BY <1>1 DEF Returned, vars, searchVars
  <2> QED BY <2>1, SolveSame
<1> QED
  BY <1>1, SolveDispatch, SolveTree, SolveGreedy, SolveMeet, SolveStart, SolveSearch DEF Next

------------------------------------------------------------------------------
(***************************************************************************)
(* The theorems about solve.                                               *)
(***************************************************************************)
\* The invariant of the whole.
WholeInv == IInv /\ RunInv /\ SolveInv

\* It holds throughout.
LEMMA WholeInvariant == Spec => []WholeInv
<1>1. Init => WholeInv
  BY InitInv, RunInit, SolveInit DEF WholeInv
<1>2. WholeInv /\ [Next]_vars => WholeInv'
  BY StepInv, RunStep, SolveStep DEF WholeInv
<1> QED BY <1>1, <1>2, PTL DEF Spec

\* The assertion at the end of greedy_upper_bound, and those of the width it
\* calls: the sequence built replays, contracts the graph to one vertex, and
\* has the width the loop has computed on the way.
THEOREM GreedyWidthAsserted ==
  Spec => [](phase # "upper" => IsFullSequence(seq, V) /\ width(G, seq) = upper)
<1>1. WholeInv => (phase # "upper" => IsFullSequence(seq, V) /\ width(G, seq) = upper)
  BY DEF WholeInv, RunInv, Bound
<1> QED BY WholeInvariant, <1>1, PTL

\* The assertion before a contraction is performed: some pair has been
\* chosen, of two different vertices.
THEOREM GreedyChoiceAsserted ==
  Spec => [][seq' # seq => choice[1] # n /\ choice[2] # choice[3]]_vars
<1>1. IInv /\ [Next]_vars => [seq' # seq => choice[1] # n /\ choice[2] # choice[3]]_vars
  <2> SUFFICES ASSUME IInv, [Next]_vars, seq' # seq
               PROVE  choice[1] # n /\ choice[2] # choice[3]
    OBVIOUS
  <2>1. Greedy!Commit
    BY StepKinds
    DEF Greedy!Next, Greedy!vars, Greedy!Try, Greedy!MeasureUpper,
        Greedy!MeasureLower, Greedy!StartLower, Greedy!Finish
  <2> DEFINE p == choice[2]
             u == choice[3]
  <2>2. /\ p \in V \ removed /\ u \in V \ removed /\ p # u
        /\ choice[1] = Measure(G, removed, H, <<p, u>>)
        /\ removed' = removed \union {u} /\ cls' = MergedInto(cls, p, u)
        /\ Shared = H
    BY <2>1, CommitFacts
  <2> HIDE DEF p, u
  <2>3. IsSimple(Contracted(G, removed, H, p, u))
    BY <2>2, Facts, UpdateSimple
  <2>4. choice[1] = max_degree(Contracted(G, removed, H, p, u))
    BY <2>2 DEF Measure
  <2>5. choice[1] < n /\ choice[1] \in Nat
    <3> DEFINE R == Contracted(G, removed, H, p, u)
    <3> HIDE DEF R
    <3>1. IsSimple(R) /\ choice[1] = max_degree(R)
      BY <2>3, <2>4 DEF R
    <3> QED BY <3>1, SimpleDegrees, VNumbered DEF n
  <2>6. n \in Nat
    BY Numbered
  <2> QED BY <2>2, <2>5, <2>6 DEF p, u
<1> QED BY InitInv, StepInv, <1>1, PTL DEF Spec

\* What solve_sat needs of its caller and does not test: the greedy bounds it
\* is given, the lower one raised to 1, have the twin-width between them, and
\* the interval keeps it.
THEOREM SearchIsBracketed == Spec => []SearchBracketed
<1>1. WholeInv => SearchBracketed
  BY DEF WholeInv, SolveInv, SearchInv, SearchBracketed, Search!Bracketed
<1> QED BY WholeInvariant, <1>1, PTL

\* assert(G.width(seq) == lb): the sequence the search returns has the final
\* bound, and the twin-width of the graph solve was called on, as its width.
THEOREM SearchReturnsOptimum == Spec => []ReturnsOptimum
<1>1. WholeInv => ReturnsOptimum
  <2> SUFFICES ASSUME SolveInv, searching = "returned" PROVE result = lb /\ result = tw
    BY DEF WholeInv, ReturnsOptimum, Search!ReturnsOptimum
  <2> QED BY DEF SolveInv, Fresh
<1> QED BY WholeInvariant, <1>1, PTL

\* assert(solver.solve() == 10): the call after the loop cannot fail, whatever
\* bounds the greedy functions have computed.
THEOREM FinalCallSucceeds == Spec => []LastCallSucceeds
<1>1. WholeInv => LastCallSucceeds
  <2> SUFFICES ASSUME SolveInv, searching = "search", lb >= ub, found.bound # lb PROVE tw <= lb
    BY DEF WholeInv, LastCallSucceeds, Search!LastCallSucceeds, Search!Satisfiable
  <2>1. SearchInv
    BY DEF SolveInv, Fresh
  <2> QED BY <2>1 DEF SearchInv, Search!TypeOK, Search!Bracketed
<1> QED BY WholeInvariant, <1>1, PTL

\* On every graph that is not a tree solve returns a sequence of least width,
\* whether the bounds meet or the search decides.
THEOREM FindsTwinWidthUnlessTree == Spec => [](is_tree(G) \/ FindsTwinWidth)
<1>1. WholeInv => is_tree(G) \/ FindsTwinWidth
  BY DEF WholeInv, SolveInv, FindsTwinWidth
<1> QED BY WholeInvariant, <1>1, PTL
==============================================================================
