# A verification project for Dino, an exact twin-width solver

Dino reads a graph, computes a contraction sequence of least width and prints
it. It takes the graph apart (connected components, components of the
complement, modules), solves what cannot be taken apart with one of three
methods, and puts the sequences together again. The last of the methods asks
the SAT solver CaDiCaL, whose source is part of the repository and by far its
largest part.

This directory holds TLA+ modules that model the program and the solver library
it links, TLC configurations that check them on small instances, and TLAPS
proofs, for every graph and every formula, of what matters most about the
program's algorithms, about the search of the SAT solver and about its
simplification.
`PROJECT.json` lists components, runs, the source lines of every definition,
hazards and theorems.

## 1. Inventory

The program (`src/src`):

| part | code | state | operations |
|---|---|---|---|
| Input reader | `main.cpp` 10-38 | the graph, the lines left | `read_next_line`, `read_graph` |
| Graph object | `graph.cpp` 3-99, 455-469 | matrix `g`, `deg`, `m`, `labels` | constructor, `add_edge`, `remove_edge`, queries |
| Contraction | `graph.cpp` 471-488, 576-594 | red graph `H`, `removed` | `contraction_edges`, `width(seq)` |
| Greedy bounds | `graph.cpp` 490-574 | `H`, `removed`, `best_choice`, `seq` | `greedy_upper_bound`, `greedy_lower_bound` |
| Modular partition | `graph.cpp` 232-301 | the partition `Q`, the queues `K`, `L` | one refinement step per vertex and part |
| Decomposition | `graph.cpp` 148-199, 303-411 | list `decomposition`, `modular_tree` | `decompose` (recursive), `subgraphs`, `complement`, `quotient`, `prime_decomposition` |
| Recomposition, main | `graph.cpp` 413-453, `main.cpp` 40-80 | `seq`, `max_width`, `rep` | `contract_and_recompose`, `recompose`, the final assertion |
| Tree solver | `solver.cpp` 17-92 | `cs`, the recursion | `solve_tree`, `tree_contractor` |
| Solver front end | `solver.cpp` 94-109 | `cs` | `solve`: which method a graph goes to |
| SAT search | `solver.cpp` 345-376 | `lb`, `ub`, `best` | the binary search over widths |
| SAT encoding | `solver.cpp` 120-343 | variables o, p, a, r and the clauses | build the formula, decode a model |
| Totalizer | `sat_solver.cpp` | `index`, `constraints`, clauses | `add_auxiliary_constraints`, `add_cardinality_constraints` |
| Elimination order | `directed_graph.cpp` | `indeg`, `queue`, `order` | `topological_order` |

The SAT solver (`src/cadical/src`):

| part | code | state | operations |
|---|---|---|---|
| User interface | `solver.cpp`, `external.cpp`, `assume.cpp` | clauses added, assumptions, frozen variables, the answer | `add`, `assume`, `freeze`, `solve`, `terminate`, `val`, `failed` |
| Propagation, decisions | `propagate.cpp`, `backtrack.cpp`, `decide.cpp`, `queue.cpp` | trail, control stack, levels, reasons, watches, decision queue | `search_assign`, `propagate`, `backtrack`, `decide` |
| Conflict analysis | `analyze.cpp`, `minimize.cpp` | the conflict, marks, the learned clause | find the level, resolve, minimise, bump, learn, jump back |
| Search loop | `internal.cpp`, `restart.cpp`, `reduce.cpp`, `rephase.cpp`, `lucky.cpp`, `collect.cpp` | limits, phases, mode, garbage | `cdcl_loop_with_inprocessing`, `lucky_phases`, `restart`, `rephase`, `reduce` |
| Local search | `walk.cpp`, `phases.cpp`, `watch.cpp` | complete assignment, broken clauses, one watch per clause | `walk_round`, `walk_flip_lit` |
| Clauses, extension stack | `clause.cpp`, `flags.cpp`, `extend.cpp`, `restore.cpp` | clauses, variable states, removed clauses with witnesses | `extend`, `restore_clauses`, `push_clause_on_extension_stack` |
| Subsumption | `subsume.cpp`, `deduplicate.cpp`, `transred.cpp`, `ternary.cpp` | clauses | one step of each technique |
| Elimination | `elim.cpp`, `gates.cpp`, `backward.cpp`, `instantiate.cpp` | the variable tried, its gate | `try_to_eliminate_variable`, `find_gate_clauses`, `instantiate_candidate` |
| Blocking | `block.cpp`, `cover.cpp`, `condition.cpp` | clauses | remove blocked, pure, covered, globally blocked clauses |
| Probing | `probe.cpp`, `decompose.cpp`, `vivify.cpp` | implication trees, representatives | `probe`, `decompose`, `vivify` |
| Checker | `checker.cpp` | clauses | accept a clause that propagation refutes |

How they interact: `main` reads the graph and calls `decompose`, which fills a
list of graphs and a tree of nodes. Each graph goes to `Solver::solve`: a single
vertex is done, a tree goes to `solve_tree`, everything else gets the two greedy
bounds; if they meet the greedy sequence is the answer, if not `solve_sat`
searches between them. `solve_sat` builds one formula, copies it for every
probe, adds the bounds to the copy, calls the SAT solver, and decodes a model by
a topological order. All methods return a list of pairs (p, u), "u is contracted
into p", whose width `Graph::width` measures by replaying it. `recompose`
relabels and concatenates the lists. CaDiCaL is a library with an incremental
interface: clauses and assumptions are added between calls of `solve`; a call
restores what earlier simplification removed and now matters, simplifies,
searches, and extends a model of the clauses that are left to all that were ever
added. `solve_sat` uses it for formulas solved once; the library promises more,
and the promise (`SatOracle`) is what is checked.

What is hard, and what makes each part correct:

- *Contraction.* The red graph is edited edge by edge, from the adjacency of
  two representatives in the original graph only. Correct: it always is the
  red graph of the partition reached.
- *Greedy bounds.* Every trial edits the shared red graph and edits it back.
  Correct: no trial leaves a trace, a cheapest contraction is committed, the
  bounds bracket the twin-width.
- *Modular partition.* Queues of parts, addressed by their first elements,
  change while parts are split. Correct: it ends with {x} and the maximal
  modules that avoid x.
- *Decomposition, recomposition.* Three numberings (parent, part, input) and
  representatives must stay aligned. Correct: the printed sequence contracts
  the whole input, and its width is the largest of the parts' widths, which is
  the twin-width of the input.
- *Tree solver.* Computes no width at all; optimal because the root is the end
  of a longest path.
- *SAT search, encoding, totalizer.* Rounding, off-by-one in bounds and outputs,
  variables without a time index, clauses stated for i < j only. Correct: a
  model decodes to a sequence within the bound, no model means the bound is too
  small, and the search returns exactly the twin-width.
- *Propagation and backtracking.* Chronological backtracking leaves literals of
  lower levels on the trail above literals of higher ones; levels are computed,
  not counted, and kept literals are propagated again. Correct: a completed
  propagation has missed no clause, and an assigned literal is implied by its
  reason at the level recorded for it.
- *Conflict analysis.* Several caches of "already seen" (poison, removable,
  per-level counts) decide which literals a learned clause may lose. Correct:
  unit propagation refutes its negation.
- *Local search.* Broken clauses and watches are updated incrementally while
  values flip. Correct: they are exact, and what a round claims, the search
  confirms.
- *Termination from outside.* `terminate()` may come from another thread at any
  point. Correct: the call ends with an answer that is right, and the solver can
  be used again.
- *Simplification.* A dozen techniques delete clauses that do not follow and
  leave a witness on one stack, in an order in which all of them must be undone
  together, over several calls. Correct: every model of what is left extends to a
  model of everything added, while nothing that a later clause or assumption
  makes wrong is left removed.

## 2. Modules

The program:

| module | models | remarks |
|---|---|---|
| `SimpleGraph` | `Graph` as a value, its queries | a graph is the set of its pairs |
| `Partitions`, `Trigraph` | nothing in the code | the abstract specification: contraction sequences as sequences of partitions |
| `Partitions` (`tww`) | nothing in the code | twin-width by exhaustive search, the reference for TLC |
| `RedGraph` | `contraction_edges`, the update its callers make, and `Graph::width` as a function | shared by all that replay a sequence or measure its width |
| `GraphObject` | the matrix and the counters under `add_edge`, `remove_edge` | justifies reading `degree` off the matrix |
| `Contraction` | `Graph::width`, one action per pair | refines `Trigraph` |
| `GreedyBounds` | both greedy bounds; a trial is two actions, apply and undo | part of `Solver` |
| `ModularPartition` | `modular_partition`, one action per step of its inner loop | |
| `Decomposition` | `decompose` and its helpers; one action per node and branch of `decompose` | the stack of pending calls is explicit |
| `Pipeline` | `read_graph`, `contract_and_recompose`, `recompose`, `main` | composes `GraphObject`, `Decomposition` and the solver's promise |
| `TreeSolver` | `solve_tree`, `tree_contractor`, one action per call and return | |
| `SatSearch` | the binary search, one action per iteration | the SAT solver is external: it answers truthfully |
| `Solver` | constructor and `solve` | composes `TreeSolver`, `GreedyBounds`, `SatSearch` |
| `TopologicalOrder` | `Digraph::topological_order`, one action per vertex popped | |
| `SatEncoding` | the clauses, the answer, the decoded sequence and its replay | a group of clauses is one predicate |
| `Totalizer` | the counter tree, its clauses, the bounds | clauses are sets of literals |

The SAT solver:

| module | models | remarks |
|---|---|---|
| `Clauses` | literals, clauses, unit propagation as a fixed point (the checker's test) | used by all modules below |
| `SatOracle` | nothing but the interface | the abstract specification of an incremental solver |
| `Propagation` | trail, levels, reasons, watches, queue; one action per watch visited | the watches of one literal are visited in any order |
| `ConflictAnalysis` | what a conflict does, in one action, with its minimisation and the jump | extends `Propagation` |
| `LocalSearch` | a round of random walk, one action per flip | extends `ConflictAnalysis` |
| `CadicalSearch` | calls of `solve`, lucky phases, the search loop, reduction, rephasing, termination | extends `LocalSearch`; refines `SatOracle` |
| `ClauseDatabase` | clauses between searches, root-level flushing, extension stack, variable states; one step of each form of subsumption | |
| `Elimination`, `Blocking`, `Probing` | one step of each other simplification technique | extend `ClauseDatabase` |
| `Inprocessing` | calls of `solve` with freezing, tainting, restoring and any mixture of techniques | composes the four; refines `SatOracle` |

`CadicalSearch` and `Inprocessing` are two views of one solver. The code calls
simplification only at the root level between two conflicts of the search, and
hands the search a plain set of clauses back. So the first view keeps the search
in all detail and never simplifies; the second keeps every simplification and
reduces the search to what the first shows of it: it learns clauses that
propagation verifies, forgets redundant ones, and answers.

History variables the code does not have: `cls` (the class a vertex stands for)
in `Contraction`, `tw` (the twin-width) in `SatSearch`, `Solver` and
`Pipeline`, `formula` (all clauses added) in the SAT solver's modules. Data that
no property tells apart is left out: labels inside the solver, the reverse
indices of the encoding's variables, clause memory, glue, statistics.

Where the code's order of iteration matters it is kept (`GreedyBounds` tries
pairs in the order of the loops and compares tuples; `ModularPartition` takes
parts from either end as the code does; the extension stack is processed in the
code's order; backtracking keeps the order of the trail). Where it does not, or
where it depends on numbers outside the model (scores, phases, schedules, limits,
random choices), all orders are allowed.

Pipeline replaces the solver by *any* full sequence of least width: what is
shown of the whole program therefore does not depend on which method solved a
part, and `Solver` shows that the methods keep that promise.

`SatEncoding` and `Totalizer` split `solve_sat`'s formula: the first states the
bounds as counts of true variables, the second shows that the clauses of the
totalizer mean exactly those counts (`lb - 1` from below, `ub` from above).

### The SAT solver's state and actions

`Propagation` keeps the assignment stack as one record `s`. `trail`, `control`,
`level`, `reason` and `propagated` are the code's. Of the VMTF queue, `place` is
the rank of every variable in bump order, `unassigned` the cached pointer, and
`beyond` the variables bumped after the one the pointer was last set to
(`queue.bumped`). `NextLiteral` takes the next
literal of the trail, the visits of its watches are actions of their own, and
`conflict` stops them, as in `propagate`. `backtrack` and `search_assign` are
operators on `s` because several handlers call them half-way.

In `CadicalSearch`, `pc` says where `Internal::solve` stands; in each value of it
that propagates, steps of propagation interleave with nothing but `Terminate`.
Reducing, rephasing, switching to stable mode and being terminated are due when
counters say so in the code; here each may be due at any time, at most `budget`
times in a run. A restart, and a switch of mode, becomes possible again with
the next conflict. A new call starts in unstable mode and with the limits of
restarts, rephasing and mode switches set anew, but keeps the limit of reductions
(`init_search_limits`): a reduction, and nothing else, may come before its first
conflict. When the analysis puts the literals of highest level of a
conflict in front (`Rewatch`), a literal that ties with an old watch may take its
place after a swap, as in `analyze.cpp`.

In `Inprocessing`, `status` is `Flags::status`; `extension` is the extension
stack as entries of a witness and a clause; `witness` the external witness bits;
`tainted` the external taint bits. Each technique may stop after each of its steps,
because limits may stop it there. Internal and external variables are the same:
compacting renames them.

`eliminating` says whether a round of elimination is under way and which variable
it tries, since on-the-fly strengthening may change the clauses before that is
decided. A round tries any number of variables. In it only the irredundant clauses
are connected (`elim_update`), so that units are propagated over them alone and
redundant clauses keep literals of fixed and eliminated variables. `EndRound`
drops those with an eliminated variable
(`mark_redundant_clauses_with_eliminated_variables_as_garbage`), connects the
others again and propagates. No other technique, and no search, runs inside a
round. Three things are simpler than in the code: a garbage collection in the middle
of a round (`elim.cpp:715-717`), which drops the same redundant clauses sooner, is
merged with the end of the round; the other clauses are reconnected at the
end of each round, where the code does so at the end of the phase, with only
`subsume_round`, `block` and `cover` between; and a round that has found a
refutation ends with the call.

`find_gate_clauses` marks the binary clauses of the side of the pivot that occurs less
often before those of the other, and takes a unit or an equivalence in any order, so it may
go on with a gate where a unit is waiting. `Probes` need not be roots any more when
their turn comes. `decompose` propagates over the binary clauses it is about to drop,
as the code does before it flushes them.

`Learn` adds any clause of at most `LearnedLength` literals that unit propagation
verifies. The length is a constant for TLC's sake; nothing depends on it.

## 3. Runs

| run | instance | shows |
|---|---|---|
| `contraction` | all graphs on 5 vertices, all sequences | the edited graph is the red graph of the partition; the width is the abstract one |
| `modular_partition` | every graph on 6 vertices the function can be called on, up to numbering, with a seventh vertex hung from it; graphs on 7 vertices in which a part waiting in `L` is split; every x | modules stay whole, parts end as modules, the queues name parts of the current partition, none twice, the loop ends |
| `tree_solver` | all labelled trees on 6 vertices with a seventh hung from it; all numberings of the smallest tree of width 2 (7 vertices) | the recursion collapses branch by branch; optimal except on stars |
| `solver` | graphs on 6 vertices that need each of the three methods | trials leave no trace, a cheapest contraction is committed, the search is called with bracketing bounds, its last call succeeds and it returns the optimum; the answer is the twin-width |
| `sat_search` | all bounds up to 12, every twin-width between | the search ends |
| `topological_order` | all oriented graphs on 4 vertices | the order, complete exactly if acyclic |
| `sat_encoding` | 7 graphs on 5 vertices, four pairs of bounds, all orders that end in n-1, all choices of larger parents | a model decodes to a legal sequence within the bound; no model means the twin-width is outside the bounds |
| `totalizer` | one list of up to 5 variables, two overlapping lists of up to 4 and 2 | outputs count exactly; bounds mean lb-1 .. ub |
| `pipeline` | graphs on 6 vertices that come apart in every way, as input files with comments, repeated edges, or too few lines | counters agree with the matrix; the solver gets what it needs; the printed sequence is full and optimal |
| `cadical_search` | six scenarios on up to 6 variables, one to four calls each | watches, levels, the queue's pointer, the walk's counters; learned clauses follow; every call is answered, and rightly |
| `inprocessing` | twelve scenarios on 4 variables, up to three calls each | clauses have active literals only, but for redundant ones inside a round of elimination; models extend; derived clauses follow; answers are right over several calls |
| `walk_phases` | one call, one rephase by local search | a *violation*, see below |

Why the bounds suffice. Five vertices give contractions in which a class of two
meets a class of two, and graphs of twin-width 0, 1 and 2: every case of
`contraction_edges` occurs along a sequence. Six vertices allow a component of
a complement inside a module inside a component, and parts of four vertices that
cannot be taken apart; seven are the fewest for a part to be split while it
waits in `L` and for a tree of width 2. Lists of 5 and 3 split unevenly at two
levels of the totalizer's tree. Twelve widths give four rounds of the search.

In `sat_encoding` the assignments the SAT solver tries are a part of all: the
red edges a contraction causes, with or without those of one origin, and the
free `r` variables used to reach the lower bound. Dropping or shifting a group
of clauses then admits one that breaks a property. Soundness for *all*
assignments is proved (section 4); that no model means the bound is too small is
only checked.

In `cadical_search` the formulas are small systems of parities and chains of
implications, chosen so that conflicts occur on several levels below the last
decision in every order of decisions, units are learned there, learned clauses
lose literals, and jumps are longer than `ChronoLevelLimit`. The code's limit
for chronological backtracking is 100 levels; it is a constant here and set to 1, so
that three levels are enough for literals to be assigned out of order. One
reduction, one rephase, two switches of mode and one termination per scenario
put each of them between any two other steps. In `inprocessing` each scenario
enables two to four techniques whose interplay it is about, takes up to five
steps per call (trying a variable, once begun, is finished beyond them, and so is a
round), learns clauses of up to three literals, and adds clauses or assumptions in the next call that use a
witness the other way round. Bounds of a run that are not obvious from its
`.cfg` are named in its MC module.

Deadlock is checked wherever stopping early would be an error: the modules
`Solver`, `TreeSolver`, `Pipeline`, `SatEncoding`, `Totalizer`, `CadicalSearch`
and `Inprocessing` stutter explicitly in their final state only. The loops of
`Contraction`, `SatSearch`, `TopologicalOrder` and `ModularPartition` end, and
their runs say `CHECK_DEADLOCK FALSE`.

Fairness: `WF_vars(Next)` in `SatSearch` and `ModularPartition`, for `Returns`:
the program runs on one thread until it returns, and the SAT solver always
answers (it gets no limit), so an enabled step is taken. `CadicalSearch` says:
either the solver is idle again and again, or a step of the solver (no
termination from outside, and no further flip of a walk) is taken again and
again. While a call is under way some such step is possible in every state, or
TLC would report a deadlock, so this is weak fairness of the solving thread; a
walk may always end because the code ends it by its own limit on the number of
propagations. Nothing is assumed of the other thread.

### Type invariants

Each module has one, `TypeOK`. It is an invariant of its own in the run
`contraction`; elsewhere it is the first conjunct of a deeper invariant
(`TrialUndone`, `BranchesCollapse`, `QueuesCurrent`, `ReadyForSolver`,
`WatchInvariant`, `ActiveOnly`, ...) or part of a proof.

### The violation

Rephasing by local search is meant to find phases that falsify few clauses
(`rephase.cpp:13`), and `copy_phases` to copy "'vals' to 'argument'"
(`internal.hpp:554`). `copy_phases` copies the *saved* phases to its argument,
and `walk_round` calls it with the saved phases themselves, so that the best
assignment of the walk is thrown away. `WalkExportsMinimum` fails in the run
`walk_phases`: the walk satisfies all clauses and the saved phases do not. Answers
stay right (phases are a heuristic; `cadical_search` lets them be anything).

### Read, and left as remarks

The program:

- `include/solver.hpp:6` promises the twin-width sequence of a connected graph.
  `solve` raises the lower bound to 1 and contracts trees by a scheme that does
  not reach 0 on stars, so a connected cograph would get a wrong answer. The
  program never passes one: `ReadyForSolver` in run `pipeline`.
- `include/sat_solver.hpp:14` says of `add_auxiliary_constraints` "will call only
  once per object"; `solve_sat` calls it for every pair (i, j) and the code
  supports that. `Totalizer` models repeated calls.
- The last call of the SAT solver is inside an `assert` (`solver.cpp:369`). The
  documented build defines no `NDEBUG`; with it, the formula would be decoded
  without having been solved. The models take the documented build.
- A blank line among the edges would leave `a` and `b` unread (`main.cpp:32`). The
  input format has none, and the model's files have none.
- The second half of `solve_tree` computes a caterpillar that nothing reads.

The SAT solver:

- `internal.cpp:629` admits a data race on `termination_forced`. The model takes
  reads and writes as atomic and lets the request come at any step.
- `restoreflush` is off by default: entries of the extension stack that the root
  level satisfies stay there when clauses are restored.
- While clauses are restored, a literal is tainted if its negation had a witness
  bit *before* the restoring; the bits are recomputed at its end.
- Freezing an eliminated variable reactivates it, but brings back only clauses
  whose witness is the negation of the literal frozen; the others stay on the
  stack, so that extending a model may still flip a frozen variable.
- `decompose` would leave a variable active whose representative is fixed, and still
  push its equivalence (`decompose.cpp:337`). The propagation before it runs over the
  binary clauses of the equivalence too, so that such a variable is fixed as well.
- Whether an if-then-else gate is found depends on the order of literals in the
  clauses; the model allows it to be missed.
- On-the-fly strengthening may take a clause away from a gate, and the substitution
  goes on with the clauses that are left (`elim.cpp:362-394`, `480-514`). That
  nothing is lost then is not said anywhere; `ExtensionReconstructs` covers it.
- `backward.cpp` sets `satisfied` for one clause and does not reset it for the next
  (lines 45 and 74); the state in which that would show is not reachable.
  `ternary.cpp` has the same with `assigned` (138 and 147), without effect.

## 4. Proofs

A module `XProofs` extends the module `X` and holds its theorems; `GraphLemmas`
has the facts about red graphs that three of them share.

| theorem | module | states, for every value of the constants |
|---|---|---|
| `TypeCorrect`, `RedGraphExact` | `ContractionProofs` | the red graph is simple, and exactly the red graph of the partition |
| `WidthImplementsTrigraph` | `ContractionProofs` | `Graph::width` implements `Trigraph` |
| `CountersAgree` | `ContractionProofs` | degree and edge counters agree with the matrix |
| `TrialsAreUndone` | `SolverProofs` | between two trials of the greedy bounds `H` is the red graph of the partition reached |
| `CommitsAreLeast` | `SolverProofs` | no other contraction would have given a smaller red degree |
| `QueuesStayCurrent` | `ModularPartitionProofs` | `K` and `L` name parts of the present partition, none twice, none in both |
| `ModulesSurvive`, `RefinementIsModular` | `ModularPartitionProofs` | no module that avoids x is split, and when the loop ends every part is a module |
| `SearchIsExact`, `EveryProbeHalves` | `SolverProofs` | the search by itself returns the twin-width, from all bounds that bracket it; every probe halves the interval |
| `SearchIsBracketed` | `SolverProofs` | the greedy bounds bracket the twin-width when the search starts from them |
| `FindsTwinWidthUnlessTree` | `SolverProofs` | `solve` returns a sequence of least width for every graph that is not a tree |
| `SearchReturnsOptimum`, `FinalCallSucceeds`, `GreedyWidthAsserted`, `GreedyChoiceAsserted` | `SolverProofs` | the assertions of `solve_sat` and of `greedy_upper_bound` hold on every graph |
| `SequenceDecoded`, `WidthBounded` | `SatEncodingProofs` | every model decodes to a legal sequence of width at most `ub` |
| `OrderIsTopological`, `AssertionIffAcyclic` | `TopologicalOrderProofs` | no edge goes backwards; the order is complete exactly if there is no cycle |
| `SearchInvariant` | `CadicalSearchProofs` | the inductive invariant of the search |
| `LevelsAreExact`, `QueuePointerIsSound` | `CadicalSearchProofs` | levels, heights and reasons agree although levels are left out of order; a decision misses no variable |
| `WatchesAreInvariant`, `CollectionKeepsWatches` | `CadicalSearchProofs` | propagation misses no clause, after any backtracking and any garbage collection |
| `BrokenIsExact` | `CadicalSearchProofs` | the counters of local search are exact after every flip |
| `AssumptionsFail` | `CadicalSearchProofs` | what a walk says of the assumptions, deciding them confirms |
| `AnswersAreModels` | `CadicalSearchProofs` | with answer 10 the values are a model of all that was added and assumed |
| `SearchImplementsOracle` | `CadicalSearchProofs` | the search implements `SatOracle`: answer 10 has a model, and the failed assumptions of answer 20 are assumptions that contradict the formula |
| `OnlyActiveLiterals` | `InprocessingProofs` | between rounds of elimination clauses have active literals only, and in a round the irredundant ones; frozen variables are never gone, the root level is exactly the fixed variables |
| `ModelsAreReconstructed` | `InprocessingProofs` | one pass over the extension stack turns every model of what simplification left into a model of all that was ever added |
| `InprocessingImplementsOracle` | `InprocessingProofs` | the solver with its simplification implements `SatOracle`, over several calls |
| `InprocessingInvariant` | `InprocessingProofs` | the inductive invariant behind the three; like them, for every formula, all calls, and learned clauses of any length (every `LearnedLength`) |

Assumptions: V is finite (`VFinite`), the inputs are simple graphs
(`InputsSimple`), the widths are natural numbers (`WidthsNat`); for the encoding
also that V is 0 .. n-1 (`VNumbered`) and that bounds and assignments have their
types (`BoundsTyped`, `TriedTyped`), and for `Solver` that V is 0 .. n-1 and not
empty, and that a graph with more than one vertex is connected like its complement
(`InputsCoconnected`): the constructor asserts the one, and the decomposition, the
only caller, sees to both (`ReadyForSolver`). `ModularPartition` needs at least two
vertices that are natural numbers (`VNaturals`) and graphs that are connected
like their complements (`InputsPrime`), which is when `decompose` calls it.
`TopologicalOrder` needs finitely many vertices (`VerticesFinite`) and no loops
(`DigraphsTyped`); the arcs of an elimination order have none. `CadicalSearch`
and `Inprocessing` need finitely many variables, positive numbers as in DIMACS (`VarsAssumption`),
and clauses and assumptions that are sequences of literals of them
(`ScenariosTyped`), and `Inprocessing` that `LearnedLength` is a number
(`LearnedLengthAssumption`). TLC evaluates all of them in the runs. Nothing is assumed of
the SAT solver where `SatEncoding` uses it but that a model satisfies the clauses.

*Contraction.* `RedExact` alone is not inductive: to know which red edges appear
one must know that a class is not empty, that classes are disjoint, and that
removed vertices have no red edges. The invariant is `Reduced`, which says all of
this of a graph, a red graph, the vertices removed and the classes, and
`ContractedReduced` that one update keeps it; neither mentions a variable, so the
greedy bounds use them too. The core is `GraphLemmas`: `UpdateEntries` says which entries
of the matrix an update sets, and `HomogeneousUnion` says that A ∪ B is homogeneous
to C exactly if A and B are and a vertex of each sees C alike, which is
why the adjacency of two representatives is enough. Degrees are then cardinalities
of corresponding sets (`DegreesAgree`), which gives the refinement.

*Graph object.* `ContractionProofs` takes the red graph `H` as an instance of
`GraphObject`; one added or removed edge changes two degrees by one (`EdgeSizes`).

*Greedy bounds.* During a trial `H` is not the red graph of any partition reached,
so the invariant speaks of `Shared`: `H` between two trials, and during one what
undoing it would give. `Shared` is `Reduced` to the present classes, and no trial
changes it, because every edge of the first list was there before and no edge of
the second was (`EditsUndone`). Then every measure is the width of
a partition (`ContractedDegree`), and `ChoiceLeast` says that `choice` is the
least of the pairs tried since the last contraction. That a pair is always tried
before one is performed (else the initial `(n, 0, 0)` would be) needs the number
of pairs of the sequence (`Counted`), and that no measure reaches n.

*Modular partition.* The invariant has five parts. `Shape` and `Partition`: types,
and the parts are disjoint and cover V. `Queues`: what `QueuesCurrent` states,
for the parts themselves; that parts can be told apart by their first element
(`FirstSeparates`) then makes the code's comparisons right. `Refining` is the
heart. When a part is split only the smaller half is used with all of its
vertices, so the other half is never asked directly whether it tells a part
apart. `Refining` says what is still owed between two parts A and B: nothing if
they are homogeneous to each other, and if not, then every vertex of one and one
vertex of the other serves, where a vertex serves a part if it does not tell its
members apart or is still going to split it (`Pending`, or its part waits in `K`
or `L`). A split preserves it because the half that is not queued inherits what
the whole part owed (`SplitQueues`, `ThreeParts`). At the end nothing is pending, so
all vertices of one part and one of the other serve, and that is homogeneous.
`Intact` is the theorem `ModulesSurvive`: a vertex outside a module does not tell
its members apart.

*SAT search.* By itself the search is started in whatever state its own initial
condition allows. `Bracketed`, `BestMatchesBound` and the final equation together
are inductive; `Midpoint` carries the arithmetic.

*Solver.* That `solve` finds the twin-width rests on the definition of twin-width in
`Partitions`, the least d such that d-bounded contractions `Reachable(g, d)` lead
from the singletons to one class. Three facts are needed of it. The sequence the
upper bound builds is one of those counted: its partition after k contractions is
in `Reachable(G, d)[k]` for every d that is at least the bound computed so far, and
replaying it with `width` gives the red graph and the bound at hand (`Performed`,
kept by `PerformedFurther`). Every sequence begins with a pair, and the lower bound
is at most the measure of every pair (`NoneLower`, `FirstPair`). And no sequence has
width 0, which is what raising the lower bound to 1 takes for granted (`WidthZero`):
before the last contraction there are two classes, of width 0 only if they are
homogeneous to each other, and then one of `G` and its complement has no edge
between them (`NotHomogeneous`). So when the bounds are there the twin-width is
`Between` them; they meet in it, or the search starts bracketed. `RunInv` holds what
is known of the bounds and `SolveInv` which of the three methods runs and what the
search has found; together with the invariant of the greedy bounds they are inductive.
`Reachable` and `Replayed` are recursive functions; `RecursionExists` builds them
once for all by induction up to a bound.
What the search takes from the SAT solver is the contract `Satisfiable` of
`SatSearch`. One half of it, that a model decodes to a sequence within the bound, is
proved of the encoding (`WidthBounded`). The other, that a sequence within the bounds
gives a model although the lower bound is forced on every vertex in every row, is only
checked, on five vertices (`UnsatisfiableIsWider`); the theorems about the search
depend on it.

*SAT encoding.* The width bound needs to know which red edges the model admits.
The invariant says: the removed vertices come before all present ones
(`Prefix`); every red edge among present vertices has its `a` variable, and some
row w, w removed, has its `r` variable for all of them (`RedForced`). An
elimination step moves to the row of the new vertex: old edges by the
persistence clauses, new ones by the symmetric difference and inheritance
clauses; the `a` variables follow by the bookkeeping clauses, which reach them
although they are stated for i < j only, because new edges end in a parent and
parents have larger numbers. `ParentDecoded` shows that the vertex that comes
last is n-1 (`LastExists`, by well-founded induction on cardinalities), so the
parent of every other vertex is found and is still present. The degree of a
vertex is then at most the count of a row, which the bounds limit.

*Topological order.* `Sorted` is not inductive without knowing why a vertex was
pushed: `Counted` says that the counter of a vertex is the number of its
predecessors outside the order, and that it is in the queue or in the order
exactly if that number is 0; `Once` keeps a vertex from being pushed twice. The
theorem about cycles needs both directions: with the queue empty every vertex left
out has a predecessor left out, so they are a set without a source; and in a
complete order the vertex of a set that comes first is a source of it.

*The search of the SAT solver.* `IInv` of `CadicalSearchProofs` has these parts,
and each is there because another one does not survive without it:

- `Stack`, about the assignment stack alone, so that its lemmas are about
  `search_assign` and `backtrack` and not about the steps that call them. No
  variable twice (`Single`); the control stack climbs (`Heights`); a literal may sit
  above the height of its level but never below (`Levels`); the other literals
  of a reason became false earlier and the level recorded is the largest of
  theirs (`Reasons`); a literal without a reason opens its level (`Decisions`). The
  last two are what the code relies on when it keeps literals of lower levels in
  `backtrack`: `CutBack` and `Retained` say which prefix stays where it was.
- `Queue`: variables have distinct places, and everything behind the pointer is
  assigned. The pointer moves up on unassigning only if the variable was bumped
  after the pointer was set, so the invariant needs that set, `beyond`.
- `Database`, `Visits`, `Watches`: two watches per clause; a visit is under way for
  the last propagated literal, which lies above the last decision; and `Guarded`:
  if a watch is false and was propagated, the clause has a true literal that is
  left no sooner, *whichever* level the search jumps back to. The usual wording,
  "the other watch is true at a level not higher", is not inductive with
  chronological backtracking, since a literal of a low level may sit high on the
  trail, be kept there and be propagated again: "left no sooner" is about places on
  the trail *or* levels. While a watch is visited its literal lies above the last
  decision, so that any true literal of the clause is enough then, as a blocking
  literal is.
- `Assumed`, `Phases`: where the search stands. The walk and the lucky strategies
  are only entered with complete propagation at the root level, and a collection
  only with an assignment that propagation extends without a conflict (`Extends`);
  that is why the code may ignore the result of `propagate` there, and why no
  watch is flushed. `Hopeless` is what a walk has found when it claims that the
  assumptions fail.
- `BrokenExact`, a property of a run that is inductive given `Phases`.
- `Formula`, `ModelFound`: the irredundant clauses and the root level imply all that
  was ever added; reduction and flushing forget only what they satisfy.
- `Follows`, the converse: every assignment that satisfies all that was added
  satisfies the clauses, learned ones included, the literals of the root level and
  every reason on the trail, and there is none if the empty clause was derived. The
  reasons are listed besides the clauses because no part of `IInv` says that a
  reason is still a clause of the database, and the argument needs no more.
- `Assumes`: a literal without a reason on one of the first levels is the assumption
  of that level, which is what `failing` relies on when it stops at such literals.
- `Calls`: a call is under way until it has an answer, and nothing is added to it
  once it searches.

Conflict analysis needs most: `AnalyzedRun` turns the recursive function that walks
the trail into a sequence of states with one step each; `Traced` says that the
literals seen and not yet resolved are those of the current level above the
place reached, and that the count of them is right. So the analysis ends at a first
unique implication point above which it never looks, the learned clause is false
but for it after the jump, and its level is the one recorded (`FlipAt`).

*Refinement of the incremental solver.* A learned clause follows because whatever
satisfies the reasons and falsifies the literals collected so far falsifies the
conflict too: `Blamed` carries this from one step of the analysis to the next
(`AnalysisSound`), and `Covering` does the same for a minimized clause
(`MinimizeSound`). The failed assumptions are found by the same argument run
from one literal: `BecauseSound` says that a literal holds in every assignment that
obeys the reasons and has the decisions its falsification was traced to. With
`FollowsNext`, which has one case for each way in which the stack may move
(`StackMoves`: something remains, is derived, decided, or flushed), this gives
`EmptyRefuted` and `FailingRefuted` for the two kinds of answer 20, and
`OracleStep` goes through the steps of the search: `BeginCall` and `AddClause` are the
oracle's, the steps that end a call are `Solve`, and all others leave the oracle's
variables alone.

*Simplification.* Every technique is shown to be a step `StepOK(es)` that pushes the
entries `es` on the extension stack: every assignment that satisfies all clauses
before satisfies all clauses after it (`Follows`) and the clauses of `es`; no
witness of `es` is frozen; active literals and root level keep their relation
(`Preserved`); and from every model of what the step leaves, the entries of `es` lead
back to a model of what there was (`Reconstructs`). Learning, flushing,
subsumption, probing and vivification push nothing and leave fewer models
(`PlainOK`). Of the others each has its own argument for `Reconstructs`:

- elimination needs that every pair of clauses with the pivot has its resolvent among
  the clauses that are left or is redundant. With a gate only pairs of a gate clause
  and another are resolved, which is enough because gate clauses resolve to nothing
  new and one of them always forces the pivot (`Defines`; `ElimOK`, which has to survive the
  deletions and strengthenings between two steps of an elimination);
- a blocked, pure or globally blocked clause is satisfied by flipping its witness,
  and no other clause is falsified by that;
- a covered clause is removed with one entry for each covered literal, so that the
  argument is about the whole list (`Covering`);
- an equivalence is two entries, one per direction, of which at most one flips.

Inside a round of elimination a redundant clause may hold literals that are fixed or
eliminated (`Unconnected`). So the lemmas about techniques are of two kinds: those that
assume `Open` hold in a round, too, and serve elimination; those that assume `Ready`,
`Open` and no round under way, serve the rest. `Reconstructs` is about the irredundant
clauses alone; that the redundant ones follow from all that was added is `SoundInv`.

`Inv` lifts this to the stack as it is after any number of steps of several
calls. It has to say more than that the whole stack reconstructs, because restoring
takes entries out of the middle: `Reconstructs` therefore speaks of every run that
visits a set `K` of the entries only, provided that the clauses of entries left
out hold at the top (`Kept`) and that no visited entry flips a literal of a clause
left out below it (`Closed`). What the code restores is then exactly such a set:
an entry stays only if its witness flips no literal of a new clause or of a clause
restored before, which is what tainting computes from the back of the stack to
the front, and `ReconstructsUntainted` says it in the middle of that pass
(`cursor` is the place it has reached). Composition is concatenation
(`ExtensionInv`). The other parts of `Inv`: `DatabaseInv` (types, active literals,
fixed variables), `StackInv` (an entry's witness satisfies its clause, witness bits
are set), `SoundInv` (models of all that was added satisfy all clauses there are, and
all clauses on the stack; if there is one, `unsat` is not set), `CallInv`,
`AssumptionsInv` (no entry could flip an assumption while the solver runs), and
`ElimInv`.

The refinement maps an answer to the oracle's: for 10 the model is the extension of
the assignment found (`ExtendedModel`), which satisfies `formula` by `ExtensionInv` and
the assumptions by `AssumptionsInv`; for 20 no assignment satisfies `formula` and the
failed assumptions, by `SoundInv`.

*Not stated by a run.* `CountersAgree` is about `GraphObject` on its own, under any
calls; run `pipeline` checks the same invariant, `CountersExact`, for the calls
that `read_graph` makes. `EveryProbeHalves` is an action property that only the
proof shows. `SearchInvariant`, `InprocessingInvariant` and `AnswersAreModels` state the inductive
invariants and the part `ModelFound` of the first; the run checks the latter as a part of the refinement
`ImplementsOracle`.

Only model-checked:

- liveness (`Returns`, `CallsAnswered`), which is out of the prover's reach;
- `LearnedByPropagation` and `DerivedByPropagation`, the checker's criterion, which is
  stronger than that a clause follows (proved as a part of `Follows` in both modules);
- `WalkExportsMinimum`, which fails;
- that the tree solver finds the optimum (`TreeOptimal`, and `FindsTwinWidth` for
  trees): it needs a theory of the twin-width of trees the code does not contain;
- the optimum that `Pipeline` prints, `MCSatEncoding.UnsatisfiableIsWider`, the
  completeness of the encoding;
- the totalizer and the decomposition, which are recursive: what they compute is
  an induction over data;
- the rest of the pipeline.

## 5. Not modelled

- `cografando.cc`, a separate program that prints random cographs for a test
  script; `is_bipartite`, `refine`, `perp`, `edges`, `adjacency_list` and
  `degree()`, which nothing calls.
- The cut-off `x*n >= 2e5` in `prime_decomposition`, which needs n > 447. The
  invariants of `ModularPartition` hold for each x separately.
- Of CaDiCaL: lookahead and cube generation, which nothing calls; compacting,
  which renames variables; the numbers behind limits, scores, glue, averages and
  phases, which the models replace by any choice; clause memory (arena, moving
  garbage collection); the proof tracer, and the checker but for its criterion;
  command line, parsers, options, `mobical`; copying and tracing a solver, and
  the checks of the API's own states.
- Eager subsumption looks at the last 20 learned clauses. No instance learns as
  many between two reductions, so the limit never bites.

## 6. Plan

Done, in this order: contraction and its refinement; graph object; greedy
bounds; SAT search; tree solver; the front end that composes the three;
topological order; modular partition; decomposition and pipeline; encoding and
totalizer; the proofs of section 4; the input reader, inside the pipeline; the
SAT solver's search and its refinement of `SatOracle`; its simplification, with
the extension stack and restoring, and the second refinement.

Next, for the model:

1. The elimination order inside `SatEncoding` by `INSTANCE TopologicalOrder`, so that
   the decoding is one chain from model to sequence.
2. `Decomposition` on seven vertices, with modules nested in modules.
3. `SatSearch` over `SatOracle`, with the copy of the solver made for every probe.

Next, for the proofs:

1. `Totalizer`: that one node of the tree adds (`Merge`), as a lemma over clauses
   in a module without recursion.
2. `SatEncoding`: completeness, from a contraction sequence with larger parents
   to a model.
