--------------------------- MODULE ModularPartition ---------------------------
(***************************************************************************)
(* Graph::modular_partition, called by prime_decomposition for a vertex x  *)
(* with the partition {x}, neighbours of x, other vertices.                *)
(*                                                                         *)
(* Partition refinement: a part S waiting in the stack L, or one vertex of *)
(* a part waiting in the queue K, splits the parts of Q by adjacency to    *)
(* its vertices; of a part that is split the smaller half goes to L and    *)
(* the larger takes the place the part had.                                *)
(*                                                                         *)
(* The vectors the code keeps parts in are always ascending, and it tells  *)
(* parts apart by their first element: here parts are sets, and the first  *)
(* element is the least.                                                   *)
(***************************************************************************)
EXTENDS Partitions, SequencesExt

\* The vertices are 0 .. n-1; decompose returns before for a single one.
ASSUME VNaturals == V \subseteq Nat /\ Cardinality(V) > 1

Complement(g) == {e \in V \X V : e[1] # e[2] /\ e \notin g}

\* decompose only calls prime_decomposition for such graphs.
ASSUME InputsPrime ==
  \A g \in Inputs : is_connected(g) /\ is_connected(Complement(g))

VARIABLES G,      \* *this, connected with a connected complement
          x,      \* the vertex prime_decomposition has singled out
          Q,      \* the parts, in the order of their positions
          K, L,   \* the parts waiting
          xs,     \* the vertices of S still to split by, the current one first
          y_id,   \* the position in Q of the next part to look at
          q_size  \* the positions to look at for the current vertex

vars == <<G, x, Q, K, L, xs, y_id, q_size>>

First(part) == Min(part)

Ascending(S) ==
  [i \in 1 .. Cardinality(S) |-> CHOOSE v \in S : Cardinality({w \in S : w < v}) = i - 1]

\* The largest of the first i parts, the earliest of them.
Largest(P, i) ==
  CHOOSE j \in 1 .. i : \A k \in 1 .. i :
    /\ Cardinality(P[k]) <= Cardinality(P[j])
    /\ k < j => Cardinality(P[k]) < Cardinality(P[j])

\* The loop that fills K and L: K keeps the largest part so far, and what does
\* not stay in K goes to L.
WaitingK(P) == <<P[Largest(P, Len(P))]>>

WaitingL(P) ==
  [i \in 1 .. Len(P) - 1 |->
     IF Largest(P, i + 1) = i + 1 THEN P[Largest(P, i)] ELSE P[i + 1]]

TypeOK ==
  /\ IsSimple(G) /\ x \in V
  /\ \A part \in Range(Q) \union Range(K) \union Range(L) :
       part \subseteq V /\ part # {}
  /\ Range(xs) \subseteq V
  /\ q_size \in 0 .. Len(Q) /\ y_id \in 1 .. q_size + 1

Init ==
  /\ G \in Inputs /\ x \in V
  /\ Q = <<{x}, neighborhood(G, x), V \ (neighborhood(G, x) \union {x})>>
  /\ K = WaitingK(Q) /\ L = WaitingL(Q)
  /\ xs = <<>> /\ y_id = 1 /\ q_size = 0

\* Mutant of TakeFromL: one vertex of the part, as for a part of K.
TakeFromL_first ==
  /\ xs = <<>> /\ L # <<>>
  /\ xs' = <<First(Last(L))>> /\ L' = Front(L)
  /\ y_id' = 1 /\ q_size' = Len(Q)
  /\ UNCHANGED <<G, x, Q, K>>

\* The next S: the last part of L, or a vertex of the first part of K.
TakeFromL ==
  /\ xs = <<>> /\ L # <<>>
  /\ xs' = Ascending(Last(L)) /\ L' = Front(L)
  /\ y_id' = 1 /\ q_size' = Len(Q)
  /\ UNCHANGED <<G, x, Q, K>>

\* Mutant of TakeFromK: the part stays in K.
TakeFromK_again ==
  /\ xs = <<>> /\ L = <<>> /\ K # <<>>
  /\ xs' = <<First(K[1])>>
  /\ y_id' = 1 /\ q_size' = Len(Q)
  /\ UNCHANGED <<G, x, Q, K, L>>

TakeFromK ==
  /\ xs = <<>> /\ L = <<>> /\ K # <<>>
  /\ xs' = <<First(K[1])>> /\ K' = Tail(K)
  /\ y_id' = 1 /\ q_size' = Len(Q)
  /\ UNCHANGED <<G, x, Q, L>>

Position(list, part) == {i \in DOMAIN list : First(list[i]) = First(part)}

inside(Y)  == Y \cap neighborhood(G, Head(xs))
outside(Y) == Y \ neighborhood(G, Head(xs))

\* Mutant of Splits: a vertex splits its own part.
Splits_own(Y) == inside(Y) # {} /\ outside(Y) # {}

Splits(Y)  == Head(xs) \notin Y /\ inside(Y) # {} /\ outside(Y) # {}

\* The inner loop: one part of Q, left alone ...
Keep ==
  /\ xs # <<>> /\ y_id <= q_size
  /\ ~Splits(Q[y_id])
  /\ y_id' = y_id + 1
  /\ UNCHANGED <<G, x, Q, K, L, xs, q_size>>

\* Mutant of Split: a part waiting in L is left there when it is split.
Split_leaving_L ==
  /\ xs # <<>> /\ y_id <= q_size
  /\ Splits(Q[y_id])
  /\ LET Y == Q[y_id]
         small == Cardinality(inside(Y)) <= Cardinality(outside(Y))
         Y_min == IF small THEN inside(Y) ELSE outside(Y)
         Y_max == IF small THEN outside(Y) ELSE inside(Y)
         inK == Position(K, Y)
     IN  /\ Q' = Append([Q EXCEPT ![y_id] = Y_max], Y_min)
         /\ L' = Append(L, Y_min)
         /\ K' = IF inK # {} THEN [K EXCEPT ![Max(inK)] = Y_max] ELSE Append(K, Y_max)
  /\ y_id' = y_id + 1
  /\ UNCHANGED <<G, x, xs, q_size>>

\* ... or split in two.
Split ==
  /\ xs # <<>> /\ y_id <= q_size
  /\ Splits(Q[y_id])
  /\ LET Y == Q[y_id]
         small == Cardinality(inside(Y)) <= Cardinality(outside(Y))
         Y_min == IF small THEN inside(Y) ELSE outside(Y)
         Y_max == IF small THEN outside(Y) ELSE inside(Y)
         inL == Position(L, Y)
         inK == Position(K, Y)
     IN  /\ Q' = Append([Q EXCEPT ![y_id] = Y_max], Y_min)
         /\ IF inL # {}
            THEN L' = Append([L EXCEPT ![Max(inL)] = Y_min], Y_max) /\ UNCHANGED K
            ELSE /\ L' = Append(L, Y_min)
                 /\ K' = IF inK # {} THEN [K EXCEPT ![Max(inK)] = Y_max]
                         ELSE Append(K, Y_max)
  /\ y_id' = y_id + 1
  /\ UNCHANGED <<G, x, xs, q_size>>

NextVertex ==
  /\ xs # <<>> /\ y_id > q_size
  /\ xs' = Tail(xs)
  /\ y_id' = 1 /\ q_size' = Len(Q)
  /\ UNCHANGED <<G, x, Q, K, L>>

Next == TakeFromL \/ TakeFromK \/ Keep \/ Split \/ NextVertex

Spec == Init /\ [][Next]_vars /\ WF_vars(Next)

------------------------------------------------------------------------------
done == xs = <<>> /\ L = <<>> /\ K = <<>>

\* A module: the vertices outside do not tell its members apart.
IsModule(M) ==
  \A v \in V \ M : M \subseteq neighborhood(G, v) \/ M \cap neighborhood(G, v) = {}

\* The parts always partition the vertices, and what waits in L and K is a
\* part of the current Q, none of them twice: replacing a part by its first
\* element never confuses two parts, nor leaves one behind that was split.
QueuesCurrent ==
  /\ TypeOK
  /\ UNION Range(Q) = V
  /\ \A i, j \in DOMAIN Q : i # j => Q[i] \cap Q[j] = {}
  /\ Range(L) \union Range(K) \subseteq Range(Q)
  /\ IsInjective(L \o K)

\* No module that avoids x is ever taken apart.
ModulesKeptWhole ==
  \A M \in SUBSET (V \ {x}) :
    M # {} /\ IsModule(M) => \E part \in Range(Q) : M \subseteq part

\* At the end every part is a module, although the larger half of a part is
\* only ever represented by one of its vertices.  With ModulesKeptWhole: Q is
\* {x} and the maximal modules that avoid x.
PartsAreModules == done => \A part \in Range(Q) : IsModule(part)

\* The refinement ends.
Returns == <>done
===============================================================================
