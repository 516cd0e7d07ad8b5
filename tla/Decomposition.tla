---------------------------- MODULE Decomposition ----------------------------
(***************************************************************************)
(* Graph::decompose and the functions it calls: the input is taken apart   *)
(* into connected components, components of the complement and, where      *)
(* neither exist, modules with a quotient; what cannot be taken apart goes *)
(* into the list decomposition, and modular_tree records how the parts     *)
(* belong together.                                                        *)
(*                                                                         *)
(* A Graph object is a record: its number of vertices, its edges as pairs  *)
(* of the object's own vertices 0 .. size-1, the label of each of them (the *)
(* vertex of the input it stands for), and the counter m, which            *)
(* count_edges returns and complement does not bring up to date.           *)
(*                                                                         *)
(* The recursion is a list of calls to make, the next one first; a call    *)
(* that has a quotient leaves a call behind to append it afterwards.       *)
(***************************************************************************)
EXTENDS RedGraph

VARIABLES G,              \* the input
          calls,          \* the calls of decompose still to make
          decomposition,  \* the graphs for the solver
          modular_tree    \* per node: the graph it has, or -1, and its children

vars == <<G, calls, decomposition, modular_tree>>

On(W) == INSTANCE SimpleGraph WITH V <- W

vertices(h) == 0 .. h.size - 1

\* The object built by the constructor and add_edge: its counter is right.
Object(size, edges, labels) ==
  [size |-> size, g |-> edges, labels |-> labels, m |-> Cardinality(edges) \div 2]

Connected(h) == On(vertices(h))!is_connected(h.g)

complement(h) ==
  [h EXCEPT !.g = {e \in vertices(h) \X vertices(h) : e[1] # e[2] /\ e \notin h.g}]

Ascending(S) ==
  [i \in 1 .. Cardinality(S) |-> CHOOSE v \in S : Cardinality({w \in S : w < v}) = i - 1]

\* Mutant of subgraphs: the counter is copied from the larger graph.
subgraphs_stale(h, comp) ==
  [i \in DOMAIN comp |->
     LET cmp == comp[i]
         k == Len(cmp)
     IN  [size |-> k,
          g |-> {e \in (0 .. k - 1) \X (0 .. k - 1) : <<cmp[e[1] + 1], cmp[e[2] + 1]>> \in h.g},
          labels |-> [j \in 0 .. k - 1 |-> h.labels[cmp[j + 1]]],
          m |-> h.m]]

\* One subgraph per list of vertices, numbered as in the list.
subgraphs(h, comp) ==
  [i \in DOMAIN comp |->
     LET cmp == comp[i]
         k == Len(cmp)
     IN  Object(k,
                {e \in (0 .. k - 1) \X (0 .. k - 1) : <<cmp[e[1] + 1], cmp[e[2] + 1]>> \in h.g},
                [j \in 0 .. k - 1 |-> h.labels[cmp[j + 1]]])]

\* The connected components, each in the order of a depth-first search from
\* its least vertex that marks the neighbours of a vertex when it pops it.
RECURSIVE Search(_, _, _)
Search(h, stack, found) ==
  IF stack = <<>> THEN found
  ELSE LET fresh == Ascending(neighborhood(h.g, Last(stack)) \ Range(found))
       IN  Search(h, Front(stack) \o fresh, found \o fresh)

RECURSIVE Components(_, _)
Components(h, rest) ==
  IF rest = {} THEN <<>>
  ELSE LET c == Search(h, <<Min(rest)>>, <<Min(rest)>>)
       IN  <<c>> \o Components(h, rest \ Range(c))

\* What modular_partition returns for x (module ModularPartition): {x} and
\* the maximal modules that avoid x, the one of a vertex being the union of
\* all of them that hold it.  Their order only numbers the vertices
\* of the quotient; here it is that of their first elements.
IsModule(h, M) ==
  \A v \in vertices(h) \ M :
    M \subseteq neighborhood(h.g, v) \/ M \cap neighborhood(h.g, v) = {}

modular_partition(h, x) ==
  LET modules == {M \in SUBSET (vertices(h) \ {x}) : IsModule(h, M)}
      maximal == {UNION {M \in modules : v \in M} : v \in vertices(h) \ {x}}
      parts == {{x}} \union maximal
      first == Ascending({Min(M) : M \in parts})
  IN  [i \in DOMAIN first |-> CHOOSE M \in parts : Min(M) = first[i]]

\* One vertex per part, adjacent as the first elements of the parts are; its
\* labels are its own numbers.
quotient(h, parts) ==
  LET k == Len(parts)
  IN  Object(k,
             {e \in (0 .. k - 1) \X (0 .. k - 1) :
                e[1] # e[2] /\ <<Min(parts[e[1] + 1]), Min(parts[e[2] + 1])>> \in h.g},
             [j \in 0 .. k - 1 |-> j])

\* Of the partitions for all x, the first whose quotient has the fewest edges
\* per vertex.
prime_decomposition(h) ==
  LET partitioned(x) == LET p == modular_partition(h, x)
                        IN  [x |-> x, parts |-> p, quot |-> quotient(h, p)]
      candidates == {partitioned(x) : x \in vertices(h)}
      sparser(c, d) == c.quot.m * d.quot.size < d.quot.m * c.quot.size
      best == CHOOSE c \in candidates :
                \A d \in candidates : ~sparser(d, c) /\ (d.x < c.x => sparser(c, d))
  IN  best.parts

\* ------------------------------------------------------------------------
NoGraph == -1
NoParent == -1

Visit(h, parent) == [kind |-> "visit", graph |-> h, node |-> parent]
AppendQuotient(h, node) == [kind |-> "quotient", graph |-> h, node |-> node]
Visits(hs, node) == [i \in DOMAIN hs |-> Visit(hs[i], node)]

\* modular_tree with a node for a call whose caller is parent.
WithNode(tree, parent, first) ==
  LET linked == IF parent = NoParent THEN tree
                ELSE [tree EXCEPT ![parent].second = Append(@, Len(tree) + 1)]
  IN  Append(linked, [first |-> first, second |-> <<>>])

\* decompose(), for the Graph object with edges g and edge counter m.
Start(g, m) ==
  /\ calls' = <<Visit([Object(Cardinality(V), g, [v \in V |-> v]) EXCEPT !.m = m], NoParent)>>
  /\ decomposition' = <<>>
  /\ modular_tree' = <<>>

Visiting == calls # <<>> /\ Head(calls).kind = "visit"
Current == Head(calls).graph
Parent == Head(calls).node
NewNode == Len(modular_tree) + 1

\* A graph that is appended as it is: a vertex, or one without modules.
Keep ==
  /\ decomposition' = Append(decomposition, Current)
  /\ modular_tree' = WithNode(modular_tree, Parent, Len(decomposition) + 1)
  /\ calls' = Tail(calls)
  /\ UNCHANGED G

Leaf == Visiting /\ Current.size = 1 /\ Keep

SplitComponents ==
  /\ Visiting /\ Current.size > 1
  /\ ~Connected(Current)
  /\ modular_tree' = WithNode(modular_tree, Parent, NoGraph)
  /\ calls' = Visits(subgraphs(Current, Components(Current, vertices(Current))), NewNode)
                \o Tail(calls)
  /\ UNCHANGED <<G, decomposition>>

Complement ==
  /\ Visiting /\ Current.size > 1
  /\ Connected(Current) /\ ~Connected(complement(Current))
  /\ modular_tree' = WithNode(modular_tree, Parent, NoGraph)
  /\ calls' = <<Visit(complement(Current), NewNode)>> \o Tail(calls)
  /\ UNCHANGED <<G, decomposition>>

Indecomposable ==
  Visiting /\ Current.size > 1 /\ Connected(Current) /\ Connected(complement(Current))

Prime ==
  /\ Indecomposable
  /\ Len(prime_decomposition(Current)) = Current.size
  /\ Keep

SplitModules ==
  /\ Indecomposable
  /\ LET parts == prime_decomposition(Current)
         lists == [i \in DOMAIN parts |-> Ascending(parts[i])]
     IN  /\ Len(parts) # Current.size
         /\ calls' = Visits(subgraphs(Current, lists), NewNode)
                       \o <<AppendQuotient(quotient(Current, parts), NewNode)>>
                       \o Tail(calls)
  /\ modular_tree' = WithNode(modular_tree, Parent, NoGraph)
  /\ UNCHANGED <<G, decomposition>>

\* Back from the modules: the quotient, asserted connected, is appended.
Quotient ==
  /\ calls # <<>> /\ Head(calls).kind = "quotient"
  /\ decomposition' = Append(decomposition, Current)
  /\ modular_tree' = [modular_tree EXCEPT ![Parent].first = Len(decomposition) + 1]
  /\ calls' = Tail(calls)
  /\ UNCHANGED G

Next ==
  Leaf \/ SplitComponents \/ Complement \/ Prime \/ SplitModules \/ Quotient
==============================================================================
