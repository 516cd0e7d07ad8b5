----------------------------- MODULE MCTreeSolver -----------------------------
(***************************************************************************)
(* Trees on N vertices.  Hung: every labelled tree on 0 .. N - 2, given by *)
(* the parents towards 0, with the vertex N - 1 hung from 0.  Spiders: for *)
(* seven vertices, every numbering of the tree that is not a caterpillar,  *)
(* three paths of two edges from a centre; a smaller tree always is one.   *)
(***************************************************************************)
EXTENDS TreeSolver

CONSTANT N

MCV == 0 .. N - 1

\* No set of vertices keeps its parents to itself.
Acyclic(f) == \A S \in (SUBSET DOMAIN f) \ {{}} : \E x \in S : f[x] \notin S

Both(E) == E \union {<<e[2], e[1]>> : e \in E}

Hung ==
  {Both({<<x, f[x]>> : x \in DOMAIN f} \union {<<N - 1, 0>>}) :
     f \in {h \in [1 .. N - 2 -> 0 .. N - 2] : Acyclic(h)}}

Spiders ==
  UNION {{Both({<<c, x>> : x \in DOMAIN leaf} \union {<<x, leaf[x]>> : x \in DOMAIN leaf}) :
            leaf \in UNION {Bijection(M, MCV \ (M \union {c})) :
                           M \in {S \in SUBSET (MCV \ {c}) : Cardinality(S) = 3}}} :
           c \in MCV}

MCInputs == Hung \union Spiders

\* TreeWidth is the twin-width: on every shape of tree with six vertices,
\* which the numberings level by level suffice for, and on a spider.
Six   == INSTANCE TreeSolver WITH V <- 0 .. 5, Inputs <- {}
ASSUME TreeWidthIsTwinWidth ==
  /\ \A f \in {h \in [1 .. 5 -> 0 .. 5] :
                \A x \in 1 .. 5 : h[x] < x /\ (x < 5 => h[x] <= h[x + 1])} :
       LET g == Both({<<x, f[x]>> : x \in 1 .. 5})
       IN  Six!TreeWidth(g) = Six!tww(g)
  /\ LET g == CHOOSE s \in Spiders : TRUE IN TreeWidth(g) = tww(g)
===============================================================================
