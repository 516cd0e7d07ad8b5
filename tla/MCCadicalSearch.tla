-------------------------- MODULE MCCadicalSearch ---------------------------
(***************************************************************************)
(* The search on clauses over six variables, chosen so that decisions run  *)
(* into conflicts on several levels, whatever their order.                 *)
(***************************************************************************)
EXTENDS CadicalSearch

Call(add, assumed, n) == [add |-> add, assume |-> assumed, localsearch |-> n]

Budget(reduces, rephases, stabilizes, terminates) ==
    [reduce |-> reduces, rephase |-> rephases, stabilize |-> stabilizes,
     terminate |-> terminates]

(* An odd, or even, number of three literals is true: decisions run into    *)
(* conflicts several levels below them.                                     *)
Odd(x, y, z) == <<<<x, y, z>>, <<x, -y, -z>>, <<-x, y, -z>>, <<-x, -y, z>>>>
Even(x, y, z) == Odd(-x, y, z)

MCScenarios ==
    {\* assumptions that fail, then a refutation
     [calls |-> <<Call(Odd(1, 2, 3) \o Even(2, 3, 4), <<-1, 4>>, 0),
                  Call(<<<<1, -4>>>>, <<4, -1>>, 0),
                  Call(<<<<-1, 4>>>>, <<>>, 0)>>,
      budget |-> Budget(1, 0, 1, 1)],
     \* no decision order avoids a refutation on several levels
     [calls |-> <<Call(Odd(1, 2, 3) \o Even(3, 4, 5) \o Odd(2, 5, 6)
                       \o <<<<1, -4>>, <<-1, 4>>, <<-6>>>>, <<>>, 0)>>,
      budget |-> Budget(1, 0, 2, 0)],
     \* a unit is learned on a high level, and a clause of the next call is
     \* refuted by what it implies at the root level
     [calls |-> <<Call(<<<<-3, 1>>, <<-1, -3>>, <<3, -4>>, <<3, -5>>, <<2, 1, 3>>,
                         <<-2, 1>>, <<2, -1>>, <<-2, -1, 3>>>>, <<>>, 0),
                  Call(<<<<4, 5>>>>, <<>>, 0)>>,
      budget |-> Budget(1, 1, 2, 1)],
     \* a unit learned on a high level while a watched clause is satisfied on a
     \* lower one, and learned clauses can be reduced
     [calls |-> <<Call(<<<<-5, -6, 4>>, <<-5, -6, -4>>, <<3, -4>>, <<-3, 1>>, <<-1, -3>>,
                         <<3, 1, 6>>, <<2, 1, 3>>, <<-2, 1>>, <<2, -1>>, <<-2, -1, 3>>>>,
                       <<>>, 0)>>,
      budget |-> Budget(1, 0, 0, 0)],
     \* learned clauses are minimised
     [calls |-> <<Call(<<<<-6, 5>>, <<-3, -5, 1>>, <<-3, -4, -1>>, <<4, -6, 2>>,
                         <<4, -5, -2>>>>, <<6>>, 0)>>,
      budget |-> Budget(0, 0, 0, 0)],
     \* local search, also under assumptions that clash
     [calls |-> <<Call(<<<<4>>, <<-5>>, <<6>>, <<2, 3>>, <<-2, 3>>>>, <<4>>, 1),
                  Call(<<<<-3, 1>>, <<1, 2, 3>>>>, <<1, -3, 1, 4>>, 1),
                  Call(<<<<1, -1>>, <<2, -3>>>>, <<3, -2>>, 0),
                  Call(<<<<-3>>>>, <<2>>, 1)>>,
      budget |-> Budget(1, 1, 0, 1)]}

(* No local search is asked for; a conflict makes the search rephase.       *)
WalkScenarios ==
    {[calls |-> <<Call(<<<<-5, 4>>, <<-5, -4>>, <<1, 2>>, <<-2, 3>>>>, <<6>>, 0)>>,
      budget |-> Budget(0, 1, 0, 0)]}
=============================================================================
