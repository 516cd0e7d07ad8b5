------------------------------- MODULE Pipeline -------------------------------
(***************************************************************************)
(* main.cpp: read the graph (read_graph), decompose it, let the solver      *)
(* contract every graph of the decomposition, put the sequences together   *)
(* (Graph::recompose) and print one sequence for the input.                *)
(*                                                                         *)
(* Composes GraphObject, which the reader fills line by line,              *)
(* Decomposition, and what Solver promises (module Solver): any full       *)
(* contraction sequence of least width, the solver's own choice among them *)
(* being left open.                                                        *)
(*                                                                         *)
(* A line of the input is a comment, the problem line with its numbers of  *)
(* vertices and of edge lines, or an edge, whose ends count from 1.        *)
(***************************************************************************)
EXTENDS Decomposition

CONSTANT Files  \* the inputs on cin, sequences of lines; all have |V| vertices

VARIABLES deg, m,     \* the counters of the graph read
          cin,        \* the lines still to read
          edges_left, \* iterations the loop of read_graph has to go
          sequences,  \* seq: per graph solved, its sequence on labels and what is left
          max_width,  \* the largest width of a sequence so far
          result,     \* the sequence main prints
          pc,         \* "problem", "edges", "decompose", "solve", "done", "aborted"
          tw          \* history: the twin-width of the graph read

graphVars  == <<G, deg, m>>
readerVars == <<deg, m, cin, edges_left>>
pipelineVars == <<readerVars, sequences, max_width, result, pc, tw>>

Reading == INSTANCE GraphObject WITH g <- G

\* A run of contractions of h, one pair longer, of width at most d.
Extensions(h, d, run) ==
  LET left == vertices(h) \ run.removed
      after(p, u) ==
        LET R == Contracted(h.g, run.removed, run.H, p, u)
        IN  [H |-> R, removed |-> run.removed \union {u}, seq |-> Append(run.seq, <<p, u>>)]
  IN  {r \in {after(e[1], e[2]) : e \in {f \in left \X left : f[1] # f[2]}} :
         max_degree(r.H) <= d}

RECURSIVE Runs(_, _, _)
Runs(h, d, k) ==
  IF k = 0 THEN {[H |-> EmptyGraph, removed |-> {}, seq |-> <<>>]}
  ELSE UNION {Extensions(h, d, run) : run \in Runs(h, d, k - 1)}

RECURSIVE OptimalFrom(_, _)
OptimalFrom(h, d) ==
  LET runs == Runs(h, d, h.size - 1)
  IN  IF runs # {} THEN {run.seq : run \in runs} ELSE OptimalFrom(h, d + 1)

\* Mutant of OptimalSequences: sequences of width 2 are let through.
OptimalSequences_loose(h) == OptimalFrom(h, 2)

OptimalSequences(h) == OptimalFrom(h, 0)

CommentLine        == [kind |-> "comment"]
ProblemLine(k)     == [kind |-> "problem", m |-> k]
EdgeLine(a, b)     == [kind |-> "edge", a |-> a, b |-> b]

Unknown == -1

PInit ==
  /\ Reading!Init
  /\ cin \in Files /\ edges_left = 0
  /\ calls = <<>> /\ decomposition = <<>> /\ modular_tree = <<>>
  /\ sequences = <<>> /\ max_width = 0 /\ result = <<>> /\ pc = "problem"
  /\ tw = Unknown

decomposing == <<calls, decomposition, modular_tree>>
contracting == <<sequences, max_width, result, tw>>

\* read_next_line: the lines from the first one that is no comment; there
\* must be one, or its assertion ends the program.
NextLines ==
  LET skipped == {i \in 0 .. Len(cin) : \A j \in 1 .. i : cin[j] = CommentLine}
  IN  SubSeq(cin, Max(skipped) + 1, Len(cin))

\* The problem line: a Graph of n vertices, and how many edges follow.
ReadProblem ==
  /\ pc = "problem" /\ NextLines # <<>>
  /\ edges_left' = Head(NextLines).m /\ cin' = Tail(NextLines)
  /\ pc' = "edges"
  /\ UNCHANGED <<graphVars, decomposing, contracting>>

ReadEdge ==
  /\ pc = "edges" /\ edges_left > 0 /\ NextLines # <<>>
  /\ LET line == Head(NextLines) IN Reading!add_edge(line.a - 1, line.b - 1)
  /\ edges_left' = edges_left - 1 /\ cin' = Tail(NextLines)
  /\ UNCHANGED <<decomposing, contracting, pc>>

\* assert(false) in read_next_line: the input ends before the edges do.
Abort ==
  /\ pc = "problem" \/ (pc = "edges" /\ edges_left > 0)
  /\ NextLines = <<>>
  /\ pc' = "aborted"
  /\ UNCHANGED <<graphVars, cin, edges_left, decomposing, contracting>>

\* read_graph returns, and contract_and_recompose starts with decompose.
StartDecompose ==
  /\ pc = "edges" /\ edges_left = 0
  /\ Start(G, m) /\ tw' = tww(G)
  /\ pc' = "decompose"
  /\ UNCHANGED <<graphVars, cin, edges_left, sequences, max_width, result>>

Decompose ==
  /\ pc = "decompose"
  /\ Next
  /\ pc' = IF calls' = <<>> THEN "solve" ELSE pc
  /\ UNCHANGED <<readerVars, contracting>>

\* Mutant of Solve: the vertex left is read off the first pair.
Solve_first_pair ==
  /\ pc = "solve" /\ Len(sequences) < Len(decomposition)
  /\ LET h == decomposition[Len(sequences) + 1] IN
       \E cs \in OptimalSequences(h) :
         LET relabelled == [i \in DOMAIN cs |-> <<h.labels[cs[i][1]], h.labels[cs[i][2]]>>]
             rep == IF cs = <<>> THEN h.labels[0] ELSE relabelled[1][1]
         IN  /\ max_width' = Larger(max_width, width(h.g, cs))
             /\ sequences' = Append(sequences, [seq |-> relabelled, rep |-> rep])
  /\ UNCHANGED <<vars, readerVars, result, pc, tw>>

\* Mutant of Solve: the last width instead of the largest.
Solve_latest ==
  /\ pc = "solve" /\ Len(sequences) < Len(decomposition)
  /\ LET h == decomposition[Len(sequences) + 1] IN
       \E cs \in OptimalSequences(h) :
         LET relabelled == [i \in DOMAIN cs |-> <<h.labels[cs[i][1]], h.labels[cs[i][2]]>>]
             rep == IF cs = <<>> THEN h.labels[0] ELSE Last(relabelled)[1]
         IN  /\ max_width' = width(h.g, cs)
             /\ sequences' = Append(sequences, [seq |-> relabelled, rep |-> rep])
  /\ UNCHANGED <<vars, readerVars, result, pc, tw>>

\* One iteration of contract_and_recompose: solve, measure, relabel, and note
\* which vertex of the input is left.
Solve ==
  /\ pc = "solve" /\ Len(sequences) < Len(decomposition)
  /\ LET h == decomposition[Len(sequences) + 1] IN
       \E cs \in OptimalSequences(h) :
         LET relabelled == [i \in DOMAIN cs |-> <<h.labels[cs[i][1]], h.labels[cs[i][2]]>>]
             rep == IF cs = <<>> THEN h.labels[0] ELSE Last(relabelled)[1]
         IN  /\ max_width' = Larger(max_width, width(h.g, cs))
             /\ sequences' = Append(sequences, [seq |-> relabelled, rep |-> rep])
  /\ UNCHANGED <<vars, readerVars, result, pc, tw>>

\* recompose's dfs: the sequence for the subtree of a node, and the vertex of
\* the input it leaves.
RECURSIVE dfs(_)
dfs(v) ==
  LET node == modular_tree[v]
      below == [i \in DOMAIN node.second |-> dfs(node.second[i])]
      children == [i \in DOMAIN below |-> below[i].rep]
      inner == FoldLeft(LAMBDA acc, b : acc \o b.ret, <<>>, below)
      own == sequences[node.first]
  IN  IF below = <<>> THEN [ret |-> own.seq, rep |-> own.rep]
      ELSE IF node.first = NoGraph
           THEN [ret |-> inner \o [i \in 1 .. Len(children) - 1 |-> <<children[1], children[i + 1]>>],
                 rep |-> children[1]]
           ELSE [ret |-> inner \o [i \in DOMAIN own.seq |->
                           <<children[own.seq[i][1] + 1], children[own.seq[i][2] + 1]>>],
                 rep |-> children[own.rep + 1]]

Recompose ==
  /\ pc = "solve" /\ Len(sequences) = Len(decomposition)
  /\ result' = dfs(1).ret
  /\ pc' = "done"
  /\ UNCHANGED <<vars, readerVars, sequences, max_width, tw>>

\* main has printed the sequence, or an assertion ended it; any other state
\* without a successor is a deadlock.
Printed == pc = "done" /\ UNCHANGED <<vars, pipelineVars>>
Aborted == pc = "aborted" /\ UNCHANGED <<vars, pipelineVars>>

PNext ==
  \/ ReadProblem \/ ReadEdge \/ Abort \/ StartDecompose
  \/ Decompose \/ Solve \/ Recompose
  \/ Printed \/ Aborted

PSpec == PInit /\ [][PNext]_<<vars, pipelineVars>>

------------------------------------------------------------------------------
TypeOK ==
  /\ Reading!TypeOK /\ edges_left \in Nat
  /\ \A i \in DOMAIN decomposition :
       LET h == decomposition[i]
       IN  h.size \in 1 .. Cardinality(V) /\ On(vertices(h))!IsSimple(h.g)
             /\ h.labels \in [vertices(h) -> V]
  /\ \A i \in DOMAIN sequences : Range(sequences[i].seq) \subseteq V \X V /\ sequences[i].rep \in V
  /\ max_width \in 0 .. Cardinality(V)
  /\ pc \in {"problem", "edges", "decompose", "solve", "done", "aborted"}

\* Whatever the input repeats, in either direction, the edge and degree
\* counters of the graph read agree with its matrix: the sizes and widths of
\* everything that follows are computed from them.
CountersExact == Reading!CountersExact

\* What the solver needs of every graph it is given, and only its
\* constructor tests in part: a single vertex, or connected with a connected
\* complement, so that the twin-width is not 0; and an edge counter that is
\* right, although complement leaves the counters of its copy untouched.
ReadyForSolver ==
  /\ TypeOK
  /\ \A i \in DOMAIN decomposition :
       LET h == decomposition[i]
       IN  /\ h.size = 1 \/ (Connected(h) /\ Connected(complement(h)))
           /\ 2 * h.m = Cardinality(h.g)

\* The sequence printed contracts the whole input: no vertex is contracted
\* twice, named after it is gone or left behind, through two relabellings
\* and a tree of representatives.
PrintsFullSequence == pc = "done" => IsFullSequence(result, V)

\* assert(w == max_width) in main: putting the sequences together costs no
\* width, although red edges may run between the parts.
WidthIsMaximum == pc = "done" => width(G, result) = max_width

\* The program's answer: the sequence printed has the twin-width of the graph
\* read.
PrintsOptimum == pc = "done" => width(G, result) = tw
===============================================================================
