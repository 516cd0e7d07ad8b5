--------------------------- MODULE MCInprocessing ---------------------------
(***************************************************************************)
(* Inprocessing on clauses over four variables, chosen so that every       *)
(* technique applies and a later call needs a clause that it removed.      *)
(***************************************************************************)
EXTENDS Inprocessing

Call(add, assumed, frozenVars, n) ==
    [add |-> add, assume |-> assumed, freeze |-> frozenVars, steps |-> n]

(* x is the conjunction of y and z; their exclusive or; y if c, else z.     *)
And(x, y, z) == <<<<-x, y>>, <<-x, z>>, <<x, -y, -z>>>>
Xor(x, y, z) == <<<<-x, y, z>>, <<-x, -y, -z>>, <<x, -y, z>>, <<x, y, -z>>>>
Ite(x, c, y, z) == <<<<-x, -c, y>>, <<-x, c, z>>, <<x, -c, -y>>, <<x, c, -z>>>>

MCScenarios ==
    {\* gates: a clause uses the output, the next call has a clause on its inputs
     [calls |-> <<Call(And(1, 2, 3) \o <<<<1, 4>>>>, <<>>, {}, 4),
                  Call(<<<<-1, -2>>>>, <<-4>>, {}, 2)>>,
      options |-> {"elim"}],
     [calls |-> <<Call(Xor(1, 2, 3) \o <<<<1, 4>>>>, <<>>, {4}, 3),
                  Call(<<<<-1, -2>>>>, <<>>, {}, 1)>>,
      options |-> {"elim"}],
     [calls |-> <<Call(Ite(1, 2, 3, 4) \o <<<<1, -2, 3>>>>, <<>>, {}, 5)>>,
      options |-> {"elim", "subsume"}],
     \* resolving strengthens the clauses of a gate
     [calls |-> <<Call(And(1, 2, 3) \o <<<<-1, -2, 4>>, <<1, 3, 4>>, <<2, 4>>>>, <<>>, {}, 4),
                  Call(<<<<-4, 1>>>>, <<3>>, {}, 2)>>,
      options |-> {"elim", "instantiate"}],
     \* equivalent variables, one of them frozen
     [calls |-> <<Call(<<<<1, -2>>, <<-1, 2>>, <<2, -3>>, <<-2, 3>>, <<1, 3, 4>>>>, <<3>>, {}, 3),
                  Call(<<<<-1, -4>>>>, <<4>>, {}, 2)>>,
      options |-> {"decompose", "block", "elim"}],
     \* a variable is equivalent to its negation
     [calls |-> <<Call(<<<<1, 2>>, <<1, -2>>, <<-1, 3>>, <<-1, -3, 4>>>>, <<-4>>, {}, 2),
                  Call(<<<<-3, -1>>>>, <<>>, {}, 2),
                  Call(<<<<4>>>>, <<>>, {}, 1)>>,
      options |-> {"decompose", "probe"}],
     \* blocked, covered and globally blocked clauses
     [calls |-> <<Call(<<<<1, 2>>, <<-1, 3>>, <<-2, 4>>, <<-3, -4, 1>>>>, <<>>, {4}, 3),
                  Call(<<<<-1>>>>, <<-3>>, {}, 1)>>,
      options |-> {"block", "cover", "condition"}],
     [calls |-> <<Call(<<<<1, 2, 3>>, <<1, 2, 4>>, <<-1, -2>>, <<-1, -3>>>>, <<>>, {2}, 2),
                  Call(<<<<1, -4>>>>, <<-2>>, {}, 1)>>,
      options |-> {"block"}],
     [calls |-> <<Call(<<<<1, 2, 3>>, <<-1, 2>>, <<-2, 3>>, <<-3, 4>>, <<1, -4>>>>, <<-2>>, {}, 4),
                  Call(<<<<-3, 2>>>>, <<-2, -4>>, {}, 1),
                  Call(<<<<-1, -3>>>>, <<>>, {}, 1)>>,
      options |-> {"cover", "condition", "elim"}],
     \* failed literals, hyper binary resolvents, vivification
     [calls |-> <<Call(<<<<-1, 2>>, <<-1, 3>>, <<-2, -3, 4>>, <<-4, 3, 2>>, <<-2, -4>>>>, <<>>, {}, 3)>>,
      options |-> {"probe", "vivify", "learn", "instantiate"}],
     [calls |-> <<Call(<<<<-1, 2>>, <<-1, 3>>, <<-2, -3, 4>>, <<1, 3, 4>>, <<1, 2, 3, 4>>>>, <<>>, {2}, 4),
                  Call(<<<<-4>>>>, <<2>>, {}, 2)>>,
      options |-> {"probe", "vivify", "learn", "elim"}],
     \* subsumption, ternary resolution, transitive reduction
     [calls |-> <<Call(<<<<1, 2, 3>>, <<-1, 2, 4>>, <<-2, 3>>, <<-3, 4>>, <<-2, 4>>>>, <<>>, {}, 3),
                  Call(<<<<-3>>>>, <<-4>>, {}, 1)>>,
      options |-> {"subsume", "ternary", "transred", "learn"}]}
=============================================================================
