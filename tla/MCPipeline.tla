------------------------------ MODULE MCPipeline ------------------------------
(***************************************************************************)
(* Graphs on six vertices that come apart in every way: a path or a cycle  *)
(* on 0 .. 3, to which 4 and 5 are added, each isolated from it, joined to *)
(* all of it, or a twin of one of its vertices, with every choice of the   *)
(* edges that remain.                                                      *)
(***************************************************************************)
EXTENDS Pipeline

CONSTANT N

MCV == 0 .. N - 1

Cores == {{<<0, 1>>, <<1, 2>>, <<2, 3>>},
          {<<2, 0>>, <<0, 3>>, <<3, 1>>},
          {<<0, 1>>, <<1, 2>>, <<2, 3>>, <<3, 0>>}}

\* How an added vertex sees 0 .. 3: as one of them does, with or without an
\* edge to it, or all of them alike.
Attachments(core) ==
  {{}, 0 .. 3}
    \union {neighborhood(Mirror(core), twin) : twin \in 0 .. 3}
    \union {neighborhood(Mirror(core), twin) \union {twin} : twin \in 0 .. 3}

Graphs ==
  UNION {{Mirror(core \union {<<4, v>> : v \in a} \union {<<5, v>> : v \in b} \union e) :
            a \in Attachments(core), b \in Attachments(core), e \in {{}, {<<4, 5>>}}} :
           core \in Cores}

\* A proper module of two vertices or more, of the graph induced on W.
HasModule(g, W) ==
  \E M \in SUBSET W :
    /\ 1 < Cardinality(M) /\ M # W
    /\ \A v \in W \ M : M \subseteq neighborhood(g, v) \/ M \cap neighborhood(g, v) = {}

\* Bound: no indecomposable part has more than four vertices, so that all of
\* the solver's possible answers for it can be tried.
MCInputs ==
  {g \in Graphs : \A W \in SUBSET MCV : Cardinality(W) > 4 => HasModule(g, W)}

\* A file for each of them: the edges in ascending order, those with an odd
\* sum turned round, a comment before the first one and the last one once
\* more the other way, counted as the problem line counts lines.  One file
\* lacks its last line.
Listed(g) ==
  LET edge(e) == IF (e[1] + e[2]) % 2 = 0 THEN EdgeLine(e[1] + 1, e[2] + 1)
                                          ELSE EdgeLine(e[2] + 1, e[1] + 1)
      pairs == [k \in 1 .. N * N |-> <<(k - 1) \div N, (k - 1) % N>>]
      sorted == SelectSeq(pairs, LAMBDA e : e \in g /\ e[1] < e[2])
      once == [i \in DOMAIN sorted |-> edge(sorted[i])]
      again == EdgeLine(Last(once).b, Last(once).a)
  IN  <<CommentLine, ProblemLine(Len(once) + 1), CommentLine>> \o Append(once, again)

Truncated == <<ProblemLine(2), EdgeLine(1, 2)>>

MCFiles == {Listed(g) : g \in MCInputs} \union {Truncated}
===============================================================================
