---------------------------- MODULE MCContraction ----------------------------
(***************************************************************************)
(* Every graph on N vertices, with every contraction sequence.             *)
(***************************************************************************)
EXTENDS Contraction

CONSTANT N

MCV == 0 .. N - 1
MCInputs == AllGraphs(MCV)
==============================================================================
