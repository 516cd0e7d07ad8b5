------------------------------ MODULE Totalizer ------------------------------
(***************************************************************************)
(* Class SatSolver: the clauses it gives CaDiCaL to count how many         *)
(* variables of a list are true (add_auxiliary_constraints) and to bound   *)
(* the counts of all lists (add_cardinality_constraints).                  *)
(*                                                                         *)
(* Literals are the non-zero integers of the code.  CaDiCaL is external:   *)
(* it answers with any assignment that satisfies the clauses.              *)
(***************************************************************************)
EXTENDS Integers, Sequences, SequencesExt

CONSTANTS Inputs,  \* how many variables the caller has made
          Calls    \* the lists it may ask to count, one after the other

ASSUME InputsNat == Inputs \in Nat
ASSUME CallsTyped ==
  \A c \in Calls : \A s \in DOMAIN c : c[s] # <<>> /\ Range(c[s]) \subseteq 3 .. Inputs + 2

VARIABLES calls,        \* the lists, in the order they are handed over
          index,        \* the last variable made
          clauses,      \* the clauses added
          constraints,  \* per list, the outputs of its counter
          bounds        \* the bounds added, or NoBounds

vars == <<calls, index, clauses, constraints, bounds>>

\* The two constants, true and false, made by the constructor.
t == 1
f == 2

NoBounds == [lb |-> 0, ub |-> -1]

\* A node of the tree: t, its variables, f.  Entry i says "at least i".
Entry(outputs, i) == (<<t>> \o outputs \o <<f>>)[i + 1]

\* A node counts what its two children count.
Merge(left, right, own) ==
  UNION {{{-Entry(left, a), -Entry(right, b), Entry(own, a + b)},
          {Entry(left, a + 1), Entry(right, b + 1), -Entry(own, a + b + 1)}} :
           a \in 0 .. Len(left), b \in 0 .. Len(right)}

\* The tree below a node: a leaf for one variable; otherwise as many new
\* variables as it counts, and a tree for either half of the list.
RECURSIVE Tree(_, _)
Tree(list, last) ==
  LET size == Len(list)
      own == [i \in 1 .. size |-> last + i]
      left == Tree(SubSeq(list, 1, size \div 2), last + size)
      right == Tree(SubSeq(list, size \div 2 + 1, size), left.last)
  IN  IF size = 1 THEN [outputs |-> list, last |-> last, clauses |-> {}]
      ELSE [outputs |-> own, last |-> right.last,
            clauses |-> left.clauses \union right.clauses
                          \union Merge(left.outputs, right.outputs, own)]

Init ==
  /\ calls \in Calls
  /\ index = Inputs + 2
  /\ clauses = {{t}, {-f}}
  /\ constraints = <<>>
  /\ bounds = NoBounds

add_auxiliary_constraints ==
  /\ bounds = NoBounds /\ Len(constraints) < Len(calls)
  /\ LET tree == Tree(calls[Len(constraints) + 1], index)
     IN  /\ index' = tree.last
         /\ clauses' = clauses \union tree.clauses
         /\ constraints' = Append(constraints, tree.outputs)
  /\ UNCHANGED <<calls, bounds>>

\* Mutant of Bounding: the output that says "at least ub + 1" is left free.
Bounding_short(outputs, ub, lb) ==
  {{outputs[i]} : i \in 1 .. lb - 1} \union {{-outputs[i]} : i \in ub + 2 .. Len(outputs)}

Bounding(outputs, ub, lb) ==
  {{outputs[i]} : i \in 1 .. lb - 1} \union {{-outputs[i]} : i \in ub + 1 .. Len(outputs)}

\* The callers' bounds: 1 <= lb <= ub, and lb - 1 no more than a list has.
add_cardinality_constraints(ub, lb) ==
  /\ bounds = NoBounds /\ Len(constraints) = Len(calls)
  /\ \A s \in DOMAIN constraints : lb - 1 <= Len(constraints[s])
  /\ clauses' = clauses \union UNION {Bounding(constraints[s], ub, lb) : s \in DOMAIN constraints}
  /\ bounds' = [lb |-> lb, ub |-> ub]
  /\ UNCHANGED <<calls, index, constraints>>

\* Every list is counted and bounded: the caller now calls solve.
Ready == bounds # NoBounds /\ UNCHANGED vars

Next ==
  \/ add_auxiliary_constraints
  \/ \E ub \in 1 .. Inputs : \E lb \in 1 .. ub : add_cardinality_constraints(ub, lb)
  \/ Ready

Spec == Init /\ [][Next]_vars

------------------------------------------------------------------------------
\* An assignment, given by the variables it makes true, satisfies a literal.
True(A, literal) == IF literal > 0 THEN literal \in A ELSE -literal \notin A

Satisfies(A) == \A c \in clauses : \E literal \in c : True(A, literal)

Counted == UNION {Range(calls[s]) : s \in DOMAIN constraints}

Count(X, s) == Cardinality(X \cap Range(calls[s]))

\* The assignments that extend a choice X of the counted variables.
Extensions(X) == {X \union {t} \union Y : Y \in SUBSET (Inputs + 3 .. index)}

WithinBounds(X) ==
  bounds # NoBounds =>
    \A s \in DOMAIN constraints : bounds.lb - 1 <= Count(X, s) /\ Count(X, s) <= bounds.ub

\* However the tree splits a list, and although lists share variables: in
\* every model output i of a list is true exactly if i of its variables are,
\* and a choice of the variables extends to a model exactly if every count
\* is within the bounds.  The lower one is off by one: the code asks for
\* lb - 1.
CountsExact ==
  \A X \in SUBSET Counted :
    LET models == {A \in Extensions(X) : Satisfies(A)}
    IN  /\ models # {} <=> WithinBounds(X)
        /\ \A A \in models : \A s \in DOMAIN constraints :
             \A i \in DOMAIN constraints[s] : constraints[s][i] \in A <=> i <= Count(X, s)
==============================================================================
