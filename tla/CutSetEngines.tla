---------------------------- MODULE CutSetEngines ----------------------------
(***************************************************************************)
(* The two engines that work on sets of products: MOCUS, and the ZBDD made *)
(* straight from the graph (src/src/zbdd.cc, Zbdd::Zbdd and Analyze).      *)
(* Whichever made the diagram, its analysis ends in the same code.         *)
(***************************************************************************)
EXTENDS Mocus

VARIABLE engine    \* "mocus" or "zbdd"

allvars == <<vars, engine>>

-----------------------------------------------------------------------------
ZbddInit ==
  /\ graph \in Graphs
  /\ order = TopologicalOrder(graph)
  /\ settings \in {[limit |-> limit, prime_implicants |-> FALSE, gate_index_bound |-> 0] : limit \in Limits}
  /\ stack = <<>> /\ expanded = <<>> /\ zbdd = <<>>
  /\ phase = "start"

EnginesInit == \/ engine = "mocus" /\ Init
               \/ engine = "zbdd" /\ ZbddInit

MocusStep ==
  /\ engine = "mocus"
  /\ AnalyzeTrivial \/ AnalyzeRoot \/ Expand \/ Close \/ AnalyzeModule \/ Return
  /\ UNCHANGED engine

(* The constructor of Zbdd from a graph.                                   *)
Construct ==
  /\ engine = "zbdd" /\ phase = "start"
  /\ zbdd' = <<FromGraph(settings, graph, order)>>
  /\ phase' = "delegate"
  /\ UNCHANGED <<graph, order, settings, stack, expanded, engine>>

Analyze == Delegate /\ UNCHANGED engine

EnginesNext == MocusStep \/ Construct \/ Analyze \/ (Reported /\ UNCHANGED engine)

EnginesSpec == EnginesInit /\ [][EnginesNext]_allvars

-----------------------------------------------------------------------------
ProductsOf(z) == {ToSet(p) : p \in ToSet(Products(z))}

(* zbdd.cc:89: the analysis starts on a diagram within the limit.          *)
AnalyzesWithinLimit ==
  phase = "delegate" => MaxSetOrder(zbdd[1].root) <= settings.limit

(* zbdd.cc:844, 133: the diagram and its modules are minimal, ordered,     *)
(* free of constant proxies and, unless trivial, within their limits.      *)
DiagramSound ==
  zbdd /= <<>> => Sound(zbdd[1]) /\ (IsTrivial(graph) \/ CutOff(zbdd[1]))

(* mocus.h:55, zbdd.cc:87: what is reported are the minimal cut sets within*)
(* the limit, with the substitutions of the graph applied to them.         *)
FindsCutSetsAsked ==
  phase = "analyzed" => ProductsOf(zbdd[1]) = CutSetsAsked(graph, settings.limit)

(* The same but for the early return of MOCUS for trivial graphs           *)
(* (mocus.cc:40), which applies no substitution; the iterator yields every *)
(* product once (zbdd.h:262).                                              *)
FindsMinimalCutSets ==
  phase = "analyzed" =>
    /\ (engine = "mocus" /\ IsTrivial(graph)) \/ ProductsOf(zbdd[1]) = CutSetsAsked(graph, settings.limit)
    /\ Cardinality(ProductsOf(zbdd[1])) = Len(Products(zbdd[1]))

(* doc/substitutions.rst: the application of all substitutions must be     *)
(* idempotent regardless of their order.                                   *)
SubstitutionsSettle ==
  phase = "analyzed" /\ engine = "zbdd" =>
    /\ ProductsOf(ApplySubstitutions(zbdd[1], graph.substitutions)) = ProductsOf(zbdd[1])
    /\ ProductsOf(Analyzed(FromGraph(settings, graph, order), Reverse(graph.substitutions)))
         = ProductsOf(zbdd[1])
=============================================================================
