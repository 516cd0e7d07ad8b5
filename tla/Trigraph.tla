------------------------------ MODULE Trigraph ------------------------------
(***************************************************************************)
(* What a contraction sequence is, independently of how the code keeps     *)
(* track of it: contracting merges two classes of a partition of V, and    *)
(* the width of the sequence is the largest red degree met.  Graph::width  *)
(* and Graph::greedy_upper_bound implement this specification, although    *)
(* they work with representatives and with a red graph updated in place.   *)
(***************************************************************************)
EXTENDS Partitions

VARIABLES G,       \* the input graph
          parts,   \* the partition reached
          widest   \* the largest red degree met so far

vars == <<G, parts, widest>>

Init ==
  /\ G \in Inputs
  /\ parts = Singletons
  /\ widest = 0

Merge(A, B) ==
  /\ A # B
  /\ parts' = MergeParts(parts, A, B)
  /\ widest' = Larger(widest, MaxRedDegree(G, parts'))
  /\ UNCHANGED G

Next == \E A, B \in parts : Merge(A, B)

Spec == Init /\ [][Next]_vars
==============================================================================
