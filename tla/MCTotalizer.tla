----------------------------- MODULE MCTotalizer -----------------------------
(***************************************************************************)
(* One list of up to five variables and any two lists of four variables,   *)
(* the second with at most two entries.                                    *)
(***************************************************************************)
EXTENDS Totalizer, FiniteSets

List(S) == SetToSortSeq(S, <)

Lists(n, k) == {List(S) : S \in {T \in SUBSET (3 .. n + 2) : T # {} /\ Cardinality(T) <= k}}

MCCalls ==
  {<<c>> : c \in Lists(5, 5)}
    \union {<<c, d>> : c \in Lists(4, 4), d \in Lists(4, 2)}
==============================================================================
