----------------------------- MODULE Preprocessor -----------------------------
(***************************************************************************)
(* Preprocessing of a PDAG (src/src/preprocessor.cc): what is done, in     *)
(* which order, and what holds in between.  The first three phases are for *)
(* the BDD engine, two more for cut sets.  Before each pass the graph is   *)
(* settled, and the rest is left out for a trivial one.                    *)
(***************************************************************************)
EXTENDS PdagNormalization, PdagMerging, PdagDecomposition

Init == PdagInit

(* pdag::Transform.                                                        *)
Transform(works) == FlattenSeq([i \in DOMAIN works |-> <<"settle">> \o works[i]])

(* RunPhaseTwo.                                                            *)
PhaseTwo ==
  Transform(<< <<"definitions">>, <<"detect modules">>, <<"coalesce">>,
               <<"mark and", "merge and", "mark or", "merge or">>, <<"distribute">>,
               <<"detect modules">>, <<"gather common", "optimize">>, <<"time visits", "decompose">>,
               <<"detect modules">>, <<"coalesce">>, <<"detect modules">> >>)

(* What a phase consists of.                                               *)
Phase(name) ==
  CASE name = "phase one" ->
         (IF graph.nulls = <<>> THEN <<>> ELSE <<"remove nulls", "settle">>)
         \o (IF graph.coherent THEN <<>> ELSE <<"normalize partly">>)
    [] name = "phase two" -> PhaseTwo
    [] name = "phase three" ->
         IF graph.normal THEN <<>> ELSE <<"normalize fully", "mark normal", "settle", "phase two">>
    [] name = "phase four" ->
         IF graph.coherent THEN <<>> ELSE <<"propagate complements", "settle", "phase two">>
    [] name = "phase five" ->
         <<"coalesce common", "settle", "phase two", "settle", "coalesce common", "settle">>

Phases == {"phase one", "phase two", "phase three", "phase four", "phase five"}

RunPhase ==
  /\ plan /= <<>> /\ Head(plan) \in Phases
  /\ ContinueWith(Phase(Head(plan)))
  /\ UNCHANGED <<model_vars, graph, null_vars>>

(* Preprocessor::Run.                                                      *)
Run ==
  /\ At("construct", "") /\ graph.root /= 0
  /\ ContinueWith(Transform(<< <<"phase one">>, <<"phase two">>, <<"phase three">> >>)
                  \o <<"settle", "choose">>)
  /\ UNCHANGED <<model_vars, graph, null_vars>>

(* CustomPreprocessor: for a BDD the graph is ready, for cut sets not yet. *)
RunForEngine ==
  /\ At("choose", "")
  /\ \/ ContinueWith(<<"mark coherence">>)
     \/ ContinueWith(<<"phase four", "settle", "phase five", "mark coherence", "for cut sets">>)
  /\ UNCHANGED <<model_vars, graph, null_vars>>

(* RunPhaseThree.                                                          *)
MarkNormal ==
  /\ At("mark normal", "")
  /\ graph' = [graph EXCEPT !.normal = TRUE]
  /\ ContinueWith(<<>>)
  /\ UNCHANGED <<model_vars, null_vars>>

CoherentGate(g, i) == g.type[i] \in {"and", "or", "atleast", "null"} /\ \A a \in g.args[i] : a > 0

MarkCoherence ==
  /\ At("mark coherence", "")
  /\ graph' = [graph EXCEPT !.coherent =
                 ~graph.complement /\ \A i \in Living(graph) : CoherentGate(graph, i)]
  /\ ContinueWith(<<>>)
  /\ UNCHANGED <<model_vars, null_vars>>

Finished_ == plan \in {<<>>, <<"for cut sets">>}

Preprocessed == Finished_ /\ UNCHANGED vars

Next ==
  \/ ConstructGraph \/ Run \/ RunPhase \/ RunForEngine \/ MarkNormal \/ MarkCoherence
  \/ NullStep \/ NormalizationStep \/ ModuleStep \/ SharingStep \/ MergingStep \/ DistributionStep
  \/ OptimizationStep \/ DecompositionStep \/ Preprocessed

(* The program goes on until it is done: weak fairness of Next, which is   *)
(* enabled in every state, and changes nothing only then.                  *)
Fairness == []<>Finished_ \/ []<><<TRUE>>_vars

Spec == Init /\ [][Next]_vars /\ Fairness
-----------------------------------------------------------------------------
Built == graph.root /= 0

(* pdag.h:66: every node knows the living gates it is an argument of, and  *)
(* only those; calls under way hold null gates, each an argument of the    *)
(* next call's no more.                                                    *)
ParentsAgree ==
  /\ Built => graph.root \in Living(graph)
  /\ graph.module \subseteq Living(graph)
  /\ \A n \in DOMAIN graph.parents :
       graph.parents[n] = {i \in Living(graph) : {n, -n} \cap graph.args[i] /= {}}
  /\ \A i \in Living(graph) :
       graph.type[i] \in Types /\ {Abs(a) : a \in graph.args[i]} \subseteq DOMAIN graph.parents
  /\ \A j \in DOMAIN propagating : propagating[j] \in Living(graph) /\ graph.type[propagating[j]] = "null"
  /\ ~At("remove nulls", "removing") => pending = <<>> /\ propagating = <<>>

(* Steps that only together change nothing.                                *)
Unfinished == plan /= <<>> /\ step \in {"propagating", "redundant"}

(* preprocessor.h:18, pdag.h:33: the graph means what the model means, with*)
(* the rules that apply, from its construction on and after every step of  *)
(* a pass, but for those that only together change nothing.                *)
MeansTheModel ==
  Built /\ ~Unfinished =>
    \A true \in SUBSET model.basics : GraphHappens(graph, true) = TopHappens(true)

(* The same up to the first join that pdag.cc:368 gets wrong.              *)
MeansTheModelSoFar == ~misjoined => MeansTheModel

(* pdag.h:544, AddArg and what it calls: whatever parent is next, it may   *)
(* take the argument of the null gate.                                     *)
JoinsAccepted ==
  propagating /= <<>> =>
    /\ Cardinality(graph.args[Null]) = 1
    /\ \A p \in graph.parents[Null] :
         LET place == Place(graph, Null, p)
         IN Accepts(EraseArg(graph, p, place), p, Passed(graph, place))

(* preprocessor.cc:1838, 1887: on the way up from a common node there is   *)
(* one module, where the states of the gates above the node are known.     *)
OneModuleAbove ==
  At("optimize", "") /\ Left /= {} /\ IsCommon(NextCommon) =>
    Cardinality(AncestorsOf(graph, NextCommon) \cap graph.module) = 1

(* preprocessor.cc:1754: the gates that share arguments are the host's own *)
(* when these are taken out.                                               *)
MembersOwned ==
  At("distribute", "distributing") /\ memo.group /= <<>> /\ Shared = {} =>
    \A m \in Option_.parents : graph.parents[m] = {memo.host}

(* preprocessor.cc:453: gates below a destination are compared with it by  *)
(* the times of visits, so that no destination is newer than these.        *)
DestinationsTimed ==
  At("decompose", "decomposing") /\ memo.frames /= <<>> => Bottom \in DOMAIN memo.visits

(* The assertions of the passes about the graph they get from each other   *)
(* and from what they have done so far: preprocessor.cc:453, 854, 891, 942,*)
(* 1754, 1838, 1887, pdag.h:544.                                           *)
AssertionsHold ==
  JoinsAccepted /\ ArgumentsAccepted /\ OneModuleAbove /\ MembersOwned /\ DestinationsTimed

WellFormedGate(g, i) ==
  LET n == Cardinality(g.args[i])
  IN /\ ~Constant(g, i)
     /\ g.type[i] \in {"null", "not"} => n = 1
     /\ g.type[i] = "xor" => n = 2
     /\ g.type[i] = "atleast" => g.min[i] > 1 /\ n > g.min[i]
     /\ g.type[i] \in {"and", "or", "nand", "nor"} => n > 1

(* preprocessor.cc:271, 311, SANITY_ASSERT: the removal of null gates      *)
(* leaves a trivial graph, or one of well-formed gates without constants   *)
(* and without null gates.                                                 *)
LeavesWellFormed ==
  plan = <<>> \/ (step = "" /\ Head(plan) \in (Phases \cup {"choose", "for cut sets"}) \ {"phase one"}) =>
    \/ Trivial(graph) /\ ~graph.complement
    \/ /\ \A i \in Living(graph) : WellFormedGate(graph, i) /\ graph.type[i] /= "null"
       /\ graph.parents[graph.root] = {}
       /\ graph.nulls = <<>>

(* pdag.h:886, 895: a graph flagged coherent has no complement and no gate *)
(* that negates; one flagged normal has only AND and OR gates but for what *)
(* passes through.                                                         *)
FlagsTrue ==
  Built =>
    /\ graph.coherent =>
         /\ ~graph.complement
         /\ \A i \in Living(graph) :
              /\ graph.type[i] \in {"and", "or", "atleast", "null"}
              /\ \A a \in graph.args[i] : a < 0 => a = -kConstant
    /\ graph.normal => \A i \in Living(graph) : graph.type[i] \in {"and", "or", "null"}

(* preprocessor.cc:836: what is below a gate flagged as a module has no    *)
(* parent outside.                                                         *)
Below(g, i) == (UNION {{Abs(a) : a \in g.args[j]} : j \in Reached(g, {i})}) \ {kConstant}

ModulesIndependent ==
  step = "" /\ held = {} =>
    \A i \in graph.module : \A n \in Below(graph, i) : graph.parents[n] \subseteq Reached(graph, {i})

(* mocus.cc:54, zbdd.cc:160, preprocessor.h:18: what is left for an engine *)
(* is a module, and for cut sets only AND and OR gates, complements being  *)
(* down at the variables, and no two in a row that could be one.           *)
ReadyForEngine ==
  Finished_ /\ ~Trivial(graph) =>
    /\ graph.root \in graph.module
    /\ plan = <<"for cut sets">> =>
         /\ ~graph.complement
         /\ \A i \in Living(graph) :
              /\ graph.type[i] \in {"and", "or"}
              /\ \A a \in GateArgs(graph, i) :
                   a > 0 /\ (a \in graph.module \/ graph.type[a] /= graph.type[i])

(* preprocessor.cc:482, 685, 747, 803, 1098, 1517, 1780, 2101: passes assert*)
(* that no null gates are left.  The filter of candidates for merging may  *)
(* leave some where it leaves nothing to merge (cc:1134).                  *)
Passes ==
  {"definitions", "detect modules", "coalesce", "coalesce common", "mark and", "distribute",
   "gather common", "time visits", "normalize partly", "normalize fully"}

NullGatesRemoved == step = "" /\ plan /= <<>> /\ Head(plan) \in Passes => graph.nulls = <<>>

(* preprocessor.cc:1072: the root is a module when modules are gathered.   *)
(* Coalescing may make another gate the root after the modules are found.  *)
RootIsModule == MergePlan => graph.root \in graph.module

(* preprocessor.cc:340, 347, 407: passes that start all over as long as    *)
(* they change something come to an end, and so does all of it.            *)
Ends == <>Finished_
=============================================================================
