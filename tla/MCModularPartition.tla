-------------------------- MODULE MCModularPartition --------------------------
(***************************************************************************)
(* Connected graphs on N = 7 vertices with a connected complement, every   *)
(* choice of x.                                                            *)
(*                                                                         *)
(* Hung: the vertex 6 hangs from 5; what the other vertices induce is, up  *)
(* to their numbering, any graph on six vertices with four that induce a   *)
(* path, the path 0 - 1 - 2 - 3.                                           *)
(*                                                                         *)
(* Wide: 0 has two neighbours, so that a part can be split while it waits  *)
(* in L, which takes two vertices to split by and a larger half of four or *)
(* more.                                                                   *)
(***************************************************************************)
EXTENDS ModularPartition

CONSTANT N

MCV == 0 .. N - 1

Hung ==
  {Mirror({<<0, 1>>, <<1, 2>>, <<2, 3>>, <<5, 6>>} \union E) :
     E \in SUBSET {e \in (0 .. 5) \X {4, 5} : e[1] < e[2]}}

Wide ==
  {Mirror({<<0, 1>>, <<0, 2>>, <<2, 3>>, <<3, 4>>, <<4, 5>>, <<5, 6>>} \union E) :
     E \in SUBSET (({1} \X (3 .. 6)) \union ({2} \X (4 .. 6)))}

MCInputs ==
  {g \in Hung \union Wide : is_connected(g) /\ is_connected(Complement(g))}
===============================================================================
