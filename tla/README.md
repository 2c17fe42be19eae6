# SCRAM in TLA+

SCRAM is a probabilistic risk analysis tool: it reads fault trees and event
trees, computes their minimal cut sets or prime implicants, and from them the
probability, importance and uncertainty of every top event. This directory holds
TLA+ models of its core logic, TLC configurations that check them on small
instances, and theorems that TLAPS proves for every value of the constants.

## 1. Inventory

Source files live in `src/` of the repository and are named without a line where
the whole file is meant; short names such as `bdd.h` are files of `src/src/`. All of
SCRAM's analysis is sequential: the hard behaviours are not threads but shared mutable graphs, memo tables, weak
references, setters that change one another's fields, and state that one analysis
must hand back unchanged to the next. The GUI adds signal cascades, an undo stack
and one background analysis thread.

| Component | State it keeps | Operations | What makes it correct |
|---|---|---|---|
| Settings builder (`settings.*`, `project.cc`, `scram.cc`) | one `Settings` object | setters with side effects, project file, command line | every legal order of setters leaves an object the analyses can run with |
| Vertex store (`bdd.h`: `Vertex`, `WeakIntrusivePtr`, `UniqueTable`) | intrusive reference counts, a hash table of weak pointers, its size and capacity | `FindOrAdd`, rehash, vertex destruction, `clear`, `Release` | no two live registered vertices have one signature; no pointer outlives its target on either side |
| Computation cache (`bdd.h`: `CacheTable`) | a lossy hash map from pairs of ids to results | `find`, `emplace`, `reserve`, rehash, `clear` | a hit is the result of that very key; the count of entries is right |
| BDD engine (`bdd.*`) | vertices, and/or caches, gate table, modules, marks | `Apply`, `ConvertGraph`, `CalculateConsensus`, `TestStructure`, `ClearMarks`, `Freeze` | the diagram is ordered, reduced, canonical and means the graph |
| ZBDD engine (`zbdd.*`) | set nodes, five operation caches, modules | `Apply`, `Minimize`, `Subsume`, `Prune`, `ConvertBdd`, `EliminateComplements`, product iteration, substitutions | the diagram holds exactly the minimal products within the order limit |
| MOCUS (`mocus.*`) | a ZBDD of partly expanded cut sets | worklist expansion, modules, minimisation | ends, and equals the ZBDD answer |
| Gate graph (`pdag.*`) | gates, arguments, parents, constants, null-gate list, marks and visit times | `AddArg`, `CoalesceGate`, `MakeConstant`, `JoinNullGate`, construction from the model | every change keeps the function of the root and the well-formedness of the graph |
| Preprocessor (`preprocessor.*`) | the gate graph, marks, orders | five phases of rewriting | each pass keeps the meaning of the root, module flags are true |
| Model and initializer (`initializer*.cc`, `model.*`, `element.h`, `event.*`, `cycle.*`) | tables of elements, node marks, usage flags | two-pass construction, validation, cycle detection | unique ids, no cycle accepted, no valid model refused |
| CCF groups (`ccf_group.*`) | members, factors per level, proxy gates | `AddMember`, `AddDistribution`, `AddFactor`, `Validate`, `ApplyModel` | protocol of calls, total probability of a member kept |
| Event trees (`event_tree_analysis.*`) | walk context, collected paths | sequence collection across forks, links and house-event instructions | each sequence gate is the union of its paths |
| Risk analysis driver (`risk_analysis.*`, `alignment.*`) | house-event states, mission time, results | runs per alignment phase, restoring the model | the model after a phase is the model before it |
| Probability, importance, uncertainty (`src/*_analysis.*`) | marks and cached values in BDD vertices, variable probabilities | traversals that flip a mark, probability over time, SIL fractions, sampling | a cached value is never stale; fractions of time add to one |
| Expressions (`expression*`) | sample caches of random deviates | `Sample`, `Reset`, `value`, `interval` | one sample per trial; the interval bounds the value |
| Reporter, serialization, XML (`reporter.*`, `serialization.*`, `xml*.h`) | streams | writing results and models | well-formed output |
| GUI (`src/gui/`) | Qt models, the undo stack, dialogs, a future of the running analysis | commands, proxies, settings dialog | undo restores the model; dialogs give legal settings |
| Scripts (`src/scripts/`) | generated fault trees | generator, fuzz tester, translators | outside the analysis core |

### How the components interact

```
 project file, command line, GUI dialogs --> Settings --+
                                                        v
 MEF input --> Initializer --> Model --> RiskAnalysis: one run per phase
                  | cycle check           | house events, mission time
                  v                       v
               CCF groups         event trees and fault trees
                                          | one PDAG per target
                                          v
               Pdag --> Preprocessor --> normalised graph with modules
                                          |
                   +----------------------+-------------------+
                   v                      v                   v
           BDD (unique table,      ZBDD from the graph     MOCUS (cut-set
           computation caches)            |                 containers)
                   |  conversion          |                   |
                   +--------------> ZBDD and its analysis <---+
                                          |
                   probability, importance, uncertainty --> Reporter
```

Components talk by direct calls. What they share, and what therefore can go
wrong between them, is mutable state: the house events and the mission time that
every phase changes (`risk_analysis.cc`), the graph that every pass rewrites in
place, the marks that every traversal of a graph or diagram expects to find
clear, the tables that are released while another conversion may still call into
them, and the mission time kept both in the model and in the settings.

### Hard behaviours

 - *Re-entrance.* `PropagateNullGate` calls itself from a loop over parents it
   changes; `AddArg` may clone and split the gate it is called on; a table is
   rehashed in the middle of the lookup that found it full.
 - *Lifetimes.* A gate dies with its last shared pointer and leaves its arguments;
   a vertex dies with its last intrusive pointer, and its table entry stays behind.
 - *Orders nobody chose.* Parents, arguments, phases and substitutions come in
   the order of hash tables and sorted maps; results must not depend on it.
 - *Partial failure.* Setters throw after they have changed another member; one of
   them is `noexcept`.
 - *Leaks between runs.* What one phase, target or time step leaves changed is
   wrong in the next.
 - *Boundaries.* A cut-off of zero, a K/N gate of one or of all, a mission shorter
   than a time step, a module that turns out to be constant.

Concurrency is confined to the GUI, which runs one analysis in a background
thread while it blocks the windows that could change the model; there is no
persistence, no protocol and no message loss.

## 2. Modules

`A <- B` reads "B EXTENDS A".

```
HashConsing   (abstract)   <~ refined by ~ UniqueTable <- UniqueTableProofs
CacheTable <- CacheTableProofs
Settings                       (its theorem is at its end)
CycleDetection <- CycleDetectionProofs
CycleDetection, CcfGroup <- Initializer <- DocumentProofs
DocumentProofs, CycleDetectionProofs <- InitializerProofs
RiskAnalysis <- EventTreeAnalysis <- RiskAnalysisProofs
PdagGates <- PdagConstruction <- Pdag
Pdag <- PdagNormalization, PdagModules, PdagMerging
PdagModules <- PdagDecomposition
PdagNormalization, PdagMerging, PdagDecomposition <- Preprocessor
NormalGraph, Bdd <- BddConstruction <- BddConstructionProofs ; NormalGraph, Zbdd <- ZbddModules
BddConstruction, ZbddModules <- BddAnalysis <- Quantification
ZbddModules <- Mocus <- CutSetEngines
MC*  instantiate the modules above for TLC
```

| Module | Code | State | Actions and operators |
|---|---|---|---|
| `Settings` | `settings.cc`, `project.cc`, the option part of `scram.cc` | the settings object, what has been thrown, where the reader is | one operator per setter with everything it changes besides its own member; `ProjectOptions`, `ProjectAnalysis`, `NoProject` and `CommandLine` walk the options in the order the code looks at them |
| `HashConsing` | what `UniqueTable` promises | signatures and ids | `Intern`, `Forget`, `Reset` |
| `UniqueTable` | `bdd.h`: `Vertex`, `WeakIntrusivePtr`, `UniqueTable` | live vertices with shape, reference count and outside holders; entries, expired ones, buckets, capacity, size | `Find` and `Add` are `FindOrAdd` with the rehash and the removal of expired entries on the chain; `Copy` and `Release` are pointers outside; `Destroy` is one destructor of the cascade; `Clear`, `ReleaseTable` |
| `CacheTable` | `bdd.h`: `CacheTable` | slots, capacity, size, and as history the latest result per key | `Emplace`, `EmplaceGrowing` (with the purge), `Reserve`, `Free`, `Clear`; `Hits` is `find` |
| `NormalGraph` | what the engines read of `pdag.h`; the orders of `preprocessor.cc` | none (operators) | topological order and the order for MOCUS, coherence, modules; reference: models, minimal cut sets, prime implicants of a graph |
| `Bdd`, `BddConstruction` | `bdd.cc`: `Apply`, `CalculateConsensus`, the constructor, `ConvertGraph` | stack of conversions, memo with counts of parents served, modules, root | `Descend`, `Recall`, `Combine`, `Finish`, `ConvertTrivial` |
| `Zbdd`, `ZbddModules` | `zbdd.cc`: `Apply`, `Minimize`, `Subsume`, `Prune`, `EliminateComplements`, modules, substitutions, product iteration, conversion from a graph | none (operators over values) | |
| `BddAnalysis` | `bdd.cc`: `Analyze`, `Freeze`; `zbdd.cc`: conversion from a BDD | adds: frozen, the ZBDD, the phase | `Construct`, `Convert`, `Analyze` |
| `Quantification` | `probability_analysis.cc`, `importance_analysis.cc`, `uncertainty_analysis.h`: the calculations with a BDD | adds: mark, probability and factor of every vertex, the mark in use, the probabilities of events in the analyzer and in the model, what is asked for next | `CreateAnalyzer`, `Total`, `Update` and `LastUpdate` over time, `CalculateMif`, `ImportanceAnalyzed`, `Sample`, `Sampled` |
| `Mocus` | `mocus.cc`, `zbdd.h`: `CutSetContainer` | stack of containers, one per `AnalyzeModule` | `Expand`, `Close`, `AnalyzeModule`, `Return`, `AnalyzeRoot`, `AnalyzeTrivial`, `Delegate` |
| `CutSetEngines` | `zbdd.cc`: `Zbdd::Zbdd`, `Analyze` | adds: which engine runs | composes MOCUS and the ZBDD engine over one analysis |
| `PdagGates` | `pdag.cc`, `pdag.h`: `Gate` | none; a graph is a value | one operator per member function: `AddArg`, `Duplicate`, `Complement`, `AddTrue`, `AddFalse`, `MakeConstant`, `Clone`, `JoinNullGate` |
| `PdagConstruction` | `pdag.cc`: the constructor, `ConstructGate` and its helpers | the model, the graph, the gates done, the stack of calls | `Construct`, `ConstructGate`, `AddVariable`, `AddGate`, `AddHouseEvent`, `Return` |
| `Pdag` | `pdag.cc`: `RemoveNullGates`, `PropagateNullGate`, `IsTrivial`, the life of gates | adds: what is left to do (`plan`), the state of the pass under way (`step`, `todo`, `memo`, `held`), the loop over null gates and the calls of the propagation | `ConstructGraph`, `RemoveNullGates`, `NextNull`, `JoinParent`, `Propagated`, `Removed`, `IsTrivial` |
| `PdagNormalization` | `preprocessor.cc`: `NormalizeGates`, `PropagateComplements` | as in `Pdag` | normalisation by negative, XOR and vote gates, one gate a step; the stack of calls that pushes complements down, with the gates it clones |
| `PdagModules` | `DetectModules` | as in `Pdag` | times of visits, modules found by them, new gates for arguments that are modules together |
| `PdagMerging` | `ProcessMultipleDefinitions`, `CoalesceGates`, `MergeCommonArgs`, `DetectDistributivity` | as in `Pdag` | replacement of equal gates, joining of gates of the same logic, each until nothing changes; candidates per module, their filter, options and groups, the common gate; absorbed candidates, the common factor, clones of members that others share |
| `PdagDecomposition` | `BooleanOptimization`, `DecomposeCommonNodes` | as in `Pdag` | the states that a failure of a common node gives to gates above it, redundant parents, destinations; ancestors within the graph of a destination, by the times of visits at the start of the pass |
| `Preprocessor` | the phases, `Run` of `Preprocessor` and of its subclasses for the engines | as in `Pdag` | `RunPhase` and `RunForEngine` write the plan, `Run` settles the graph or leaves the rest out; composes all passes |
| `CycleDetection` | `cycle.h`, `cycle.cc` | marks, stack of calls, the loop over the container, the report | `CheckCycle`, `ContinueConnector`, `Return`, `Report`, `Throw`, `Accept` |
| `CcfGroup` | `ccf_group.h`, `ccf_group.cc` | none; a group is a value, a probability a fraction of the group's distribution | `AcceptsMember`, `AcceptsDistribution`, `AcceptsFactor` say when a call throws, `WithMember`, `WithDistribution`, `WithFactor` what it changes; `IsValidGroup` is `Validate`, `Probabilities` and `CcfEvents` what `ApplyModel` makes |
| `Initializer` | `initializer.cc`, with the tables of `model.cc`, `fault_tree.cc`, `element.h` and the checks of `event.cc` | the documents, the stage and the place in it, the tables of the model, of paths and of components, the elements put off, what their definitions refer to, usage flags, CCF groups, top events, proxies; adds these to `CycleDetection`, whose graph it builds | `RegisterElement`, `RegisterCcfGroup`, `ProcessCcfMember`, `AddCcfGroup`, `DefineComponent`, `AddComponent`; `DefineGate`, `DefineParameter`, `DefineBasicEvent`, `DefineDistribution`, `DefineCcfFactor`; `SearchStep` and the ends of the two searches, `ValidateCcfGroups`; `SetupForAnalysis`, `CollectTopEvents`, `ApplyModel` |
| `RiskAnalysis` | `risk_analysis.cc`, the time steps of `probability_analysis.cc`, the GUI's mission time | house events, both mission times, saved states, loops, results | `NextAlignment`, `NextPhase`, `Enter`, `Apply`, `AnalyzeTarget`, `Step`, `LastStep`, `Conclude`, `Leave`, `Restore`, `Return` |
| `EventTreeAnalysis` | `event_tree_analysis.cc`, its loop in `risk_analysis.cc` | adds: the forest, the initiating event, the context of tests, the stack of collectors, the sequences | `EnterBranch`, `EnterPath`, `LeaveFork`, `EnterSequence`, `RegisterSequence`; `VisitSetHouseEvent`, `VisitCollectFormula`, `VisitIfThenElse`, `VisitLink`, `ReturnFromLink`; `CollectSequences`, `AnalyzeSequence`, `StartRun`, and `Drive` for the steps of the driver that are not about sequences. The reference of `SequencesMeanTheirPaths` is recursive and stands in `MCRiskAnalysis`, out of the way of the proofs |

Conventions. Recursive functions of the code whose intermediate states matter
(`ConvertGraph`, `AnalyzeModule`, `ConstructGate`, `PropagateNullGate`,
`PropagateComplements`, `CollectSequences`, `DetectCycle`) are stacks of frames; those whose result alone matters are operators over values: recursive functions over
vertices, pairs of functions and nodes in `Bdd` and `NormalGraph`, which have theorems
(`Apply`, `Meaning`, `Holds`), recursive operators in the others (`Minimize`). The
functions of `Bdd` have all diagrams with at most `MaxOrder` variables on a path as
their domain. In `Bdd` and `Zbdd` a vertex *is*
its value: this is what the unique table promises, and `UniqueTable` is where the
promise is checked and proved. In the same way the memo tables of `Apply` are left
out of the calculus because `CacheTable` shows that a hit is what would be computed
again. The passes of the preprocessor share four variables, for no two of them
overlap: `plan` is the program counter between passes, `step` the one within a
pass, `todo` the nodes its loop has ahead, `memo` its locals and `held` the gates
that a local keeps alive. An operator whose comment begins "Seeded defect" is a plausible bug beside
the definition it replaces: it shows that the properties of the run can tell.

## 3. Runs

All passing runs check deadlock except `settings` (the program stops after an
exception) and `unique_table` (the ids are used up).

| Run | Distinct states | What is enumerated | What it shows |
|---|---|---|---|
| `settings` | 405 867 | every project file and command line: each option absent or with each value, a time step that is refused, one that disables, one that counts | `Consistent`: prime implicants go with the BDD and without approximation, importance, uncertainty and levels only with a probability, levels only with a time step |
| `settings_terminate` | violation | the same | `AlgorithmNeverTerminates` fails |
| `unique_table` | 217 225 | two indices, three vertices (ids 2 to 4), capacities 2, 5, 11, one outside pointer each | `PointersAgree`, `Reduced`, `CountsExact`, `SizeExact`, and `ConsesSignatures`: the table refines `HashConsing` |
| `cache_table` | 27 140 | six keys that collide in every way, capacities 3, 5, 7 | `HitsAreCurrent`, `SizeExact`, `LatestSurvives` |
| `bdd_analysis` | 77 125 | some 1500 graphs, limits 0 to 3, minimal cut sets and prime implicants, every order of arguments; nine of the graphs quantified, with every probability 0 or 1 of every event at every point in time and in every sample | `Canonical` (ordered, reduced, no two for one function), `MeansTheGraph`, `MemoServesParents` for the diagram; `NoCallAfterFreeze`, `NothingSpurious` (with the cut-off), `LostOnlyAtUnityModules` for the analysis; `QuantitiesCurrent`: no calculation takes what another one left in a vertex |
| `bdd_cut_off` | violation | one graph, limit 1 | `NothingLost` fails |
| `engines` | 38 572 | 7600 combinations of graph, limit 0 to 4, substitutions and engine | MOCUS: `ExpandsEachGateOnce`, `ExpansionKeepsMeaning`; both: `DiagramSound`, `FindsMinimalCutSets`, `SubstitutionsSettle` |
| `preprocessor` | 184 074 | 426 models, CCF gates analyzed or not, two orders of nodes (858 initial states); every order of parents and of options; for the BDD engine and for cut sets | `MeansTheModelSoFar`, `ParentsAgree`, `FlagsTrue`, `ModulesIndependent` throughout; `AssertionsHold` and `LeavesWellFormed` between the steps of passes; `ReadyForEngine` at the end, and `Ends` |
| `pdag_twice` | violation | one model | `MeansTheModel` fails |
| `initialization` | 234 750 | some 12 000 inputs: every graph of three gates with up to two arguments (in one tree, in two, around a component) and of three parameters, repeated ones included; names, roles and references around nested components; numbers of arguments; CCF groups of the four models with factors in every order of levels | `MarksOnStack`, `AcceptsOnlyAcyclic`, `ReportsACycle` of the searches for cycles; `AcceptsExactlyValid`: documents are accepted exactly if they are valid, by a definition that follows the manual and knows nothing of passes and tables, but for two kinds of documents which the definition names (`MemberOverlooked`, `SingleLevelGroup`) and `MCInitializerDisputed` shows; `ReadyForAnalysis`: references mean what they should by scope, overlooked members aside, usage flags are right, top events are the gates no other needs, CCF events replace a member with the member's probability; `Concludes` |
| `risk_analysis` | 1 110 352 | no, one or two alignments, three phases, two house events, two forests of two event trees and a top event, mission time 0 or 8, time step 0 or 3, both drivers | `Restored`, `ComputedInContext`, `TimesAgreeInBatch`, `Complete`, and `SequencesMeanTheirPaths` |
| `risk_gui` | violation | the same, driver `gui` | `TimesAgree` fails |

### Bounds and why they are enough

 - *Unique table.* Three live vertices suffice for a shared child, a cascade of two
   destructors, an expired entry before and behind a live one on one chain and a
   vertex that comes back under a new id; two rehashes with entries dropped and
   kept. `MaxId` bounds ids, `MaxHeld` the outside pointers to one vertex.
 - *Cache.* Keys 1, 4, 7 collide at capacity 3 and part at 5, 2 and 7 collide at 5
   only, so that a rehash both separates and joins. `MaxRequest` bounds `reserve`.
 - *Graphs of the engines.* Three to five variables and two or three gates below
   the root: every combination of shared arguments, complements at variables and
   (for the BDD) at gates and the root, modules beside and inside modules, a
   module that negations make unity, a gate with three parents, and the trivial
   graphs. The reference is the truth table, so that a result is right or wrong
   without appeal to another engine.
 - *Order of variables.* `MaxOrder` is at least the number of nodes of each sample graph.
   `GraphsAssumption` says of the graphs what preprocessing sees to (`Prepared`), and TLC
   evaluates it on every one of them before it begins.
 - *Quantification.* Nine graphs: modules beside and inside modules, a module under a
   complement, gates that share their arguments, a complemented root, a graph that is a
   constant. Probabilities are 0 or 1: what is calculated is linear in the probability
   of each event, and two such functions agree everywhere if they agree there.
 - *Models of the preprocessor.* Five families. In the first, a gate passes an event
   on, turns constant or stays, and each connective above meets the same node
   twice, with the other sign, or a constant. In the second, three gates share one
   another and events, with and without complements: these have common arguments
   to merge and to take out, several definitions, common nodes to optimise and to
   decompose, modules that a pass makes and breaks. The others are votes over the
   same events with a module of both signs, rules, and a CCF gate. Every action of
   every pass fires; the order of arguments and of nodes is taken both ways. The
   same properties were checked on 2160 models of the second kind (some
   1 060 000 states), which takes longer than a run here may; the run has a choice of them.
 - *Initialization.* Three nodes have self-loops, cycles of two and three, diamonds, a tail
   before a cycle, and repeated arguments; the theorems lift the bound for one search. A
   component within a fault tree, with elements of one name and of every kind and role within it,
   around it and in the model, has every outcome of a lookup. CCF groups have two or
   three members and up to three factors, with every sequence of levels, given or not;
   the factors of an alpha model are not all zero, for the code divides by their sum.
 - *Risk analysis.* Two phases in one alignment and two alignments, an event set
   in one phase and not in the next, one set twice to the same state; mission
   times that are zero, shorter than, equal to and no multiple of the step.
 - *Event trees.* Two initiating events, the tree of one linking to that of the other:
   forks below forks, one branch that both paths of a fork come to, instructions
   before, between and after what is collected, tests on initiating and on
   functional events, a functional event of one name in both trees, a path without
   formulas beside one with. House events are set by the path, by the phase, by both.

### Fairness

SCRAM's analysis is one thread, and a sequential program goes on while it can: this
is weak fairness of the whole next step, and all that the end of a loop needs.
`Initializer` states it as `WF_all_vars(InitializerNext)`, under which `Concludes` says that
every input is refused or ready in the end, the searches for cycles included
(`CycleDetection` alone has `WF_vars(Next)`). In `Preprocessor` some action is
enabled in every state and only the last one, `Preprocessed`, changes nothing, so
that weak fairness of `Next` is `[]<>Finished_ \/ []<><<TRUE>>_vars`; stated so, TLC
need not evaluate ENABLED over the whole gate algebra. `Ends` then says that
the propagation of null gates, the passes that start all over as long as they change something, and the
phases come to an end. Elsewhere the end of an operation is checked as the absence of
deadlock before the final state together with what must hold there
(`Complete`, `FindsMinimalCutSets`).

### Disagreements between the code and what is said of it

 - `settings_terminate`: `--zbdd` or `--mocus` over a project with prime
   implicants throws inside a `noexcept` setter (`settings.cc:31`).
 - `bdd_cut_off`: the conversion from a BDD cuts off at a module that may be unity
   (`zbdd.cc:307`) and loses cut sets within the limit.
 - `risk_gui`: the GUI initializes the model with other settings than it
   analyzes it with; the two mission times differ where `probability_analysis.cc:201`
   asserts that they agree.
 - `pdag_twice`: a vote gate of two that meets one of its arguments again keeps the
   other one (`pdag.cc:368`), against the comment on that line. The unit test
   `pdag.DuplicateArgAtleastToNull` has what the code does.

Configurations beside the list of runs show further ones; each stops at the
invariant it names.

| Configuration | Module | Invariant | What happens |
|---|---|---|---|
| `MCSettingsAbsent` | `MCSettings` | `AbsentOptionsKeepProject` | flags of the project file are overwritten by the absence of a command-line flag (`scram.cc:222`) |
| `MCRiskAnalysis` with `Instructions <- ConflictingInstructions` | `MCRiskAnalysis` | `Restored` | a phase that sets a house event twice, to two states, does not get it back: the states are restored in the order in which they were saved (`risk_analysis.cc:61`) |
| `MCEnginesTrivial` | `MCCutSetEngines` | `AnalyzesWithinLimit` | a graph of one event ignores a limit of zero (`zbdd.cc:77`) |
| `MCEnginesTrivial` | `MCCutSetEngines` | `FindsCutSetsAsked` | MOCUS does not apply substitutions to a graph of one event (`mocus.cc:40`) |
| `MCImportanceSign` | `MCBddAnalysis` | `FactorsAsDefined` | the importance factor of a diagram whose root is complemented has the wrong sign (`importance_analysis.cc:81`); the definition is in `doc/theory.rst:288`, and the calculators by cut sets follow it (`importance_analysis.h:154`) |
| `MCPreprocessorAssertions` | `MCPreprocessor` | `NullGatesRemoved` | the filter of candidates for merging makes null gates and returns when one candidate is left (`preprocessor.cc:1134`); they stay where the next steps assert that there are none (`preprocessor.cc:1109`, `preprocessor.cc:1517`) |
| `MCPreprocessorAssertions`, with `-continue` | `MCPreprocessor` | `RootIsModule` | coalescing after the detection of modules makes another gate the root, which is no module where merging asserts that it is (`preprocessor.cc:1072`) |
| `MCInitializerDisputed` | `MCInitializer` | `ReferencesFollowRoles` | members of CCF groups are in no table by path (`initializer.cc:1237`): a reference from a component to a private member of its group is followed to a public event of that name (`initializer.cc:1302`), where references are to follow roles and scopes (`doc/input_file.rst:49`, `initializer.h:357`) |
| `MCInitializerDisputed`, with `-continue` | `MCInitializer` | `OneFactorIsEnough` | an alpha or phi group whose one factor is of level 1 passes `Validate` and stops in `ApplyModel`, which asserts that there is more than one probability (`ccf_group.cc:151`), where one factor is to be enough for every model (`doc/common_cause_analysis.rst:20`) |

## 4. Theorems

TLAPS checks the theorems of eight modules. Each but `DocumentProofs`, which has the lemmas
about documents, states an inductive invariant (`IInv`; `LoopInv` and `InitializerInv` beside
it, `Building` and `Serving` for the diagrams, `Sound` for the settings),
that it holds at first, that every action keeps it, one step per action, and what follows.

| Module | Assumptions | Results |
|---|---|---|
| `Settings` | time steps are integers with 0 among them | `SettingsConsistent`: type correctness and `Consistent`; the invariant is inductive once it is stated with the types of the settings, and one lemma over all setters serves every option of both drivers |
| `UniqueTableProofs` | indices, terminals and capacities are numbers, hash values natural, growth stays in `Capacities` | `StaysReduced`, `NothingDangles`, `ReferenceCountsExact`, `TableSizeExact`, and `ImplementsHashConsing`: initial states map to initial states, each action to a step or a stutter of `HashConsing` |
| `CacheTableProofs` | capacities are positive, hash values natural | `NeverConfuses`, `CountsItsEntries`, and `NewestIsKept`: a result is found at once after it was stored, also by the call that makes the table grow (`LatestSurvives`) |
| `BddConstructionProofs` | the graphs are such as preprocessing hands over (`GraphsAssumption`): finite, gates with AND or OR and with indices of their own, no argument beside its complement, a topological order that numbers every node up to `MaxOrder`, gates after their arguments | `SpecCanonical`, `SpecMeansTheGraph`, `SpecMemoServesParents`: the three properties of the construction, in every order of arguments and with modules anywhere; `ApplyCombines`: `Apply` of two diagrams is a diagram and means both, or either; `OneDiagramPerMeaning`: diagrams are canonical; `ConsensusMeans`: the consensus holds where the function does whatever its top variable |
| `CycleDetectionProofs` | graphs map nodes to sequences of nodes | `MarkedOnStack`, `Soundness`, `Completeness` of one search over all nodes; the lemmas under them are about a search over any container, with the marks that an earlier search has left (`SearchInv`), which is what `InitializerProofs` takes from here |
| `DocumentProofs` | the documents are such as the schema allows (`InputsAssumption`) | `LookupFinds`: in documents that are well named, `GetEntity` and `GetEvent` find one element or none (`Found`); `FoundAsMeant`: that is what the reference means, unless it is an overlooked member of a CCF group; `ValidAsMeant`: what is valid as found is valid as meant, and the other way round, but for the exceptions; paths, roles, places of group members, levels of factors |
| `InitializerProofs` | the same, and no element has arguments at first | `AcceptsValidDocuments`: `AcceptsExactlyValid`, for all documents; `ReadyAsMeant`: what is ready has the references (but to overlooked members), flags of usage, top events and combinations of CCF members that the documents mean; `CyclesOfDocuments`: the three properties of the searches, over the graphs that documents give |
| `RiskAnalysisProofs` | no phase sets one house event to two states (`Agreeable`), for the first two | `HandsBackTheModel`, `ComputesInContext`; `StepsStartInAgreement` (`TimesAgreeInBatch`) and `LeavesNothingOut` (`Complete`) need no hypothesis. They are of the driver alone, whose targets come in any order; `TreesImplementDriver` shows that the runs with event trees implement it (a step of the walk stutters, the walk chooses among the orders), and `KeptWithTrees` that these keep all four properties, which is what the run `risk_analysis` checks |

Why the invariants are stronger than the properties:

 - *Unique table.* That no two live vertices share a signature needs that a search
   finds what is registered: every entry is in the bucket of its signature
   (`Placed`), and every vertex made since the last `clear` is registered
   (`Tracked`). `Reduced` alone says nothing of the table.
 - *Cache.* `HitsAreCurrent` speaks of what `find` can reach, but a rehash moves
   entries a search would miss; the invariant has all entries current (`Current`) and
   in the place of their keys. `LatestSurvives` needs no invariant: whatever the
   table was, the new result is put into its slot after all else that the call does.
 - *Diagrams.* The argument has three layers. (1) What `Apply`, `Meaning`, `Structured` and `Holds`
   are is given by recursive functions, and a function defined by recursion exists and is
   what its equation says if its steps go down a rank: `RankedRecursion` shows it once, with the
   fact that a set of numbers has a least one in the place of induction. (2) The *diagrams* over a set of
   prototypes, one for each order (`Diagrams`), are the vertices whose paths climb in the order and
   whose branches differ. They are closed under `Made` (`MadeIsDiagram`), under `Apply`
   (`ApplyCombines`, over the sum of both ranks) and under complement; two of one meaning are one: they have
   the same top variable, for one that only the first has on top would not matter to it, and then
   branches of one meaning; the mark of a function is that of its high branch,
   for the high edge carries none (`OneDiagramPerMeaning`). (3) `Building` says of a state of
   the walk that all it holds are such diagrams: the function that a frame keeps for an argument means the
   argument, its result means what the arguments used so far come to, the memo and the
   table mean their gates (`Expanded`: with proxies read as the modules), and each gate of the
   stack is an argument that the one below it waits for. `Canonical` alone says nothing of what a function means,
   and `MeansTheGraph` nothing of the functions on the stack.
 - *Memo.* `Serving` ties three things together: the gates of the stack ascend in the
   topological order and are not converted; a gate is converted exactly if some parent has taken its
   result; and it is in the memo if some have and some have not. A gate that is not in the
   memo and yet converted would have served all its parents, but the one that asks has not
   taken it: so `Descend` never converts a gate twice.
 - *Cycles.* The marks are on the stack, each call waits at the argument above it
   (`Linked`), arguments already passed are permanent (`Visited`), what is permanent
   is closed under arguments and acyclic. A cycle among accepted nodes would
   need a first node to become permanent with an argument that is not. For
   completeness, a report on its way out is a path of distinct nodes whose closing
   node is still on the stack (`IsOpen`).
   A container, not all nodes, is what has been tried, so that a
   second search may start among permanent marks: all that is permanent is acyclic and
   closed, whichever search it is from.
 - *Risk analysis.* Every saved state is the one the model was given, every event
   that differs from it has been saved, and in the restoring loop is still ahead;
   while instructions are applied, the states are those of the prefix behind. The
   hypothesis `Agreeable` is needed: `ConflictingInstructions` is the counterexample
   without it.
 - *Loops of the driver.* `Complete` speaks of the end, the invariant (`LoopInv`) of every
   moment: the results so far are those of the runs that are over (`Runs`), of the targets
   behind in this run (`TargetsAnalyzed`) and of the times behind in this target, and
   the phases and alignments ahead are those missing (`PhasesCovered`). Times ascend in
   steps and do not pass the mission time (`StepsAscend`), and the settings hold the time of the phase
   (`SettingsFollow`), from which `TimesAgreeInBatch` follows.
 - *Initialization.* `InitializerInv` says what every stage has established for the next.
   While entries are registered, the tables are those of the entries behind
   (`RegisteredTo`): nothing private is in the model, ids are distinct and names are within
   components, an element is in the table of paths, or another of its kind and path, and a
   group has its members so far. Components and groups get into the tables of names at
   their ends only (`Listing`). At the end of the documents this makes them well named
   (`TablesNamed`) and no path has two elements (`ElementsByPath`), so that what
   the second pass looks up is one element or none (`LookupFinds`). The invariant speaks of
   what is found (`Found`, `ValidAsFound`), not of what the manual means (`Meant`, `Valid`): the code goes
   by the former, and where both differ (`Overlooks`, `SingleLevelGroup`) only the former decides.
   The theorems come from it by `FoundAsMeant` and `ValidAsMeant`. While elements are defined (`Underway`),
   those behind are defined by what is found, the others are untouched, and the group at hand has the factors
   up to the child at hand, each in the place of its level (`Factored`): that `AddFactor` refuses no
   factor and `Validate` finds no gap is that every level is given once and none left out
   (`ValidGroup`). The graph is then that of the documents (`GraphFound`), and a cycle
   found in it is one of elements of one kind (`CycleMeans`), an accepted graph one without
   (`AcyclicMeans`). From the set up on, gates have no marks (`Collected`) and members are
   replaced by combinations (`Replaced`); that a proxy gate has two arguments or more is
   that the group has a level above the first (`ProxyGates`). What throws is in
   each step matched with the part of `ValidAsFound` that fails. `InitializerInv` is no invariant of
   a listed run, for TLC is slow at it; it holds in every state that the documents of
   `MCInitializer` with names, scopes and groups lead to.
   Paths, roles and the gates among arguments are recursive functions over the entries or over a sequence; that
   they have the values that their definitions unfold to (`Recursion`), and what holds of all
   entries (`UpTo`), is argued by the least number for which it does not, as the theorems of
   induction are out of reach.

### Only model-checked

ZBDDs, MOCUS, the gate graph, the preprocessor and the walk of event trees are
defined by recursion over data with RECURSIVE operators, and modules with these are out of
the reach of the installed provers. For BDDs the
recursion is written with functions and the induction argued by least numbers (`Least`,
`Climbing`), at some length. The others could be
treated in the same way; graphs that change while a pass walks them are the harder part. The analysis on top of the diagram
(`BddAnalysis`, `Quantification`) rests on `Zbdd` and stays with TLC for the same reason; so do
the assumptions on the graphs, which TLC evaluates for the samples and which nothing
derives from `Preprocessor`. Of `ReadyForAnalysis`
the last part, `ProbabilitiesKept`, is about sums and products folded over sets, for which the
same holds: that the events of a beta-factor, MGL or alpha-factor group come to the
probability of the member is checked for groups of two and three members only. Liveness
(`Ends`, `Concludes`) and everything about ENABLED stay with TLC too.

## 5. Not modelled

Formatting, parsing and logging (reporter, serialization, XML, options), containers
with direct unit tests, random numbers and statistics of samples, floating-point
probabilities, painting and dialogs of the GUI, and the scripts. SCRAM is written in
C++; the files ending in `.ts` (`src/gui/translations/`) are Qt's translation
catalogues, XML tables of messages in 31 languages, and have no behaviour to model.

What the models leave out of the code they do cover:

 - *Initialization*: event trees, alignments, substitutions and extern libraries, expressions
   but for the parameters in them (their values and domains are taken to be proper), nested
   formulas, the checks of the XML schema, removal and renaming of elements, which the GUI
   calls, and the usage flags of parameters that CCF factors refer to. Documents with a reference
   that overlooks a member of a CCF group are modelled, but `AcceptsExactlyValid` says nothing of them
   (`MemberOverlooked`): whether they are accepted depends on what else has the name of the member.
 - *CCF groups*: where `ApplyModel` asserts that there is more than one probability
   (`ccf_group.cc:151`), the build without assertions goes on until the OR of a proxy gate throws for
   its number of arguments (`ccf_group.cc:180`). The model has the latter.
 - *Risk analysis*: the random seed and the flags of sequences made of expressions only.
 - *Event trees*: paths that collect expressions and tests on expressions other than
   the states of initiating and functional events. Rules and blocks stand for the instructions they
   consist of. A path that collects no formula adds nothing to its sequence
   (`event_tree_analysis.cc:116`), so that beside paths with formulas the sequence
   leaves it out; `SequencesMeanTheirPaths` states this.
 - *Preprocessor*: the ranking of options to merge is a nondeterministic choice; other
   orders follow the indices of nodes, up or down; marks and counts of nodes are sets; a
   pass that goes through the graph in topological order takes gates whose arguments
   are done. The branch of the decomposition
   that clones a parent does nothing: it uses the clone only if that is constant or a null
   gate (`preprocessor.cc:2263`, `preprocessor.cc:2342`), and a clone of a gate that
   still has the node and others is neither.
   The orders of nodes for the engines are in `NormalGraph`.
 - *Gate graph*: substitutions that are not declarative are inputs of `CutSetEngines`.
 - *Quantification*: the rare-event and the min-cut upper bound approximations over
   products, the statistics of samples, the partition into integrity levels, and the
   sample caches of deviates, which give each trial its probabilities.
 - *ZBDD*: the marks and counts of vertices (`CountProducts`, `ClearMarks`), and the
   iterator's stack.

Seen while reading and outside the models: `PartitionY` counts a probability on the
bound of two buckets in both (`probability_analysis.cc:104`); a new model in the GUI
has a mission time of 0.

## 6. Plan

Done: settings, tables, BDD, ZBDD, MOCUS, gate graph, cycle detection, driver; then the
preprocessor, the event trees, the quantification with a BDD, the initializer and CCF
groups. What is left, the most important first:

 1. **The rest of quantification**: the partition of time into levels over small
    rationals; sample caches of deviates.
 2. **The rest of the initializer**: event trees with their branches, rules and links (two
    more searches for cycles), alignments whose fractions add to one, substitutions.
 3. **The graphs between preprocessor and engines**: the sample graphs of the runs
    `bdd_analysis` and `engines` shown to be among the results of `Preprocessor`.
 4. **GUI undo stack**, if there is room.

Theorems to prove next, in this order: that `JoinNullGate` and the other operators of
`PdagGates`, which has no RECURSIVE operator, keep every node's parents
(`ParentsAgree`); that `Numbered` gives the order that `Prepared` asks for, for every acyclic graph;
that the context of the tests is that of the forks above in the same tree, the
part of `SequencesMeanTheirPaths` that needs no recursion; the marks of the
quantification; and the operations of `Zbdd`, with recursive functions in the place of
its operators.
