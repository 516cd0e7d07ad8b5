---------------------------- MODULE MCSatEncoding ----------------------------
(***************************************************************************)
(* The encoding on graphs with N vertices of twin-width 1 and 2.           *)
(*                                                                         *)
(* The assignments tried: every elimination order with the vertex N - 1    *)
(* last and every choice of larger parents; r holds, of the red edges the  *)
(* contractions cause, all, or all but those of one origin; the r(i, j, k) *)
(* about vertices that are gone are used to reach the lower bound.         *)
(***************************************************************************)
EXTENDS SatEncoding, SequencesExt

CONSTANT N

MCV == 0 .. N - 1

\* Paths, bull, house and cycles, in two numberings.
MCInputs ==
  {Mirror(E) : E \in
     {{<<0, 1>>, <<1, 2>>, <<2, 3>>, <<3, 4>>},
      {<<2, 0>>, <<0, 4>>, <<4, 1>>, <<1, 3>>},
      {<<0, 1>>, <<1, 2>>, <<2, 3>>, <<1, 4>>, <<2, 4>>},
      {<<4, 0>>, <<0, 2>>, <<2, 1>>, <<0, 3>>, <<2, 3>>},
      {<<0, 1>>, <<1, 2>>, <<2, 3>>, <<0, 4>>, <<3, 4>>, <<1, 4>>},
      {<<0, 1>>, <<1, 2>>, <<2, 3>>, <<3, 4>>, <<4, 0>>},
      {<<0, 2>>, <<2, 4>>, <<4, 1>>, <<1, 3>>, <<3, 0>>}}}

\* The calls of the search that can be made: lb is at least 1.
MCBounds == {<<1, 1>>, <<2, 1>>, <<2, 2>>, <<3, 2>>}

Orders == {q \in [1 .. N -> MCV] : q[N] = N - 1 /\ IsInjective(q)}
Parents == {f \in [0 .. N - 2 -> MCV] : \A i \in 0 .. N - 2 : i < f[i]}

Origins == {"differing", "inherited", "kept"}

\* The red edges among the vertices left once u is contracted into q, given
\* those before.
Row(g, live, row, u, q, origins) ==
  {e \in row : u \notin {e[1], e[2]} /\ "kept" \in origins}
    \union {Ordered(q, y) : y \in
       {y \in live \ {u, q} :
          \/ "inherited" \in origins /\ Ordered(u, y) \in row
          \/ "differing" \in origins /\ y \in symmetric_difference(g, u, q)}}

Rows(g, order, par, origins) ==
  LET step(acc, u) ==
        LET row == IF u = N - 1 THEN {} ELSE Row(g, acc.live, Last(acc.rows), u, par[u], origins)
        IN  [live |-> acc.live \ {u}, rows |-> Append(acc.rows, row)]
  IN  Tail(FoldLeft(step, [live |-> MCV, rows |-> <<{}>>], order).rows)

\* A vertex without a red edge gets one to or from a vertex that is gone.
Filled(row, gone, upper) ==
  LET deg(es, v) == Cardinality({e \in es : v \in {e[1], e[2]}})
      fill(es, v) ==
        LET partners == {w \in MCV \ {v} : (v \in gone \/ w \in gone) /\ deg(es, w) < upper}
        IN  IF deg(es, v) > 0 \/ partners = {} THEN es
            ELSE es \union {Ordered(v, Min(partners))}
  IN  FoldLeft(fill, row, [i \in 1 .. N |-> i - 1])

Assignment(g, b, order, par, origins) ==
  LET rows == Rows(g, order, par, origins)
      at(u) == CHOOSE k \in 1 .. N : order[k] = u
      gone(k) == {order[l] : l \in 1 .. k}
  IN  [o |-> {e \in Pairs : at(e[1]) < at(e[2])},
       p |-> {<<i, par[i]>> : i \in 0 .. N - 2},
       a |-> UNION {rows[k] : k \in 1 .. N},
       r |-> [i \in MCV |-> IF b[2] = 1 THEN rows[at(i)]
                            ELSE Filled(rows[at(i)], gone(at(i)), b[1])]]

MCTried ==
  [q \in MCInputs \X MCBounds |->
     {Assignment(q[1], q[2], order, par, origins) :
        order \in Orders, par \in Parents,
        origins \in {Origins} \union {Origins \ {x} : x \in Origins}}]

\* An unsatisfiable formula means that the bound is too small: a sequence of
\* width at most ub can be written with larger parents, and its red edges, or
\* the r(i, j, k) that describe none, meet the lower bound.
UnsatisfiableIsWider ==
  answer = "unsat" => ub < tww(G) \/ tww(G) < lb
==============================================================================
