-------------------------------- MODULE Mocus --------------------------------
(***************************************************************************)
(* The MOCUS engine (src/src/mocus.cc, src/src/zbdd.h, CutSetContainer).   *)
(* A container holds intermediate cut sets in which gates still stand for  *)
(* their cut sets; the gate at the top is expanded until none is left.     *)
(* Modules are not expanded: each is analyzed in a container of its own,   *)
(* by a recursion that the stack makes explicit.                           *)
(***************************************************************************)
EXTENDS ZbddModules

CONSTANTS
  Graphs,    \* the graphs preprocessing can hand over
  Limits     \* the limits on the order of products

VARIABLES
  graph, order, settings,
  stack,     \* one frame for each AnalyzeModule that has begun
  expanded,  \* the gates expanded so far, in order (history)
  zbdd,      \* zbdd_: empty before the result of the recursion
  phase      \* "start", "generate", "delegate", "analyzed"

vars == <<graph, order, settings, stack, expanded, zbdd, phase>>

-----------------------------------------------------------------------------
k == settings

Top == Head(stack)

ConvertGate(g) == FoldedBy(k, graph.type[g], {Leaf(k, graph, order, a) : a \in graph.args[g]})

Merge(vertex, cut_sets) == ApplyOr(k, vertex, cut_sets, k.limit)

(* A module's container when its own gate has been converted.              *)
Frame(g) ==
  [gate |-> g, root |-> Merge(kEmpty, ConvertGate(g)), known |-> GateArgs(graph, g),
   todo |-> {}, expanding |-> TRUE, modules |-> NoModules]

(* GetNextGate: the gate at the top of the cut sets, 0 if there is none.   *)
NextGate(vertex) ==
  IF ~vertex.terminal /\ IsGate(k, vertex) /\ ~vertex.module THEN vertex.index ELSE 0

-----------------------------------------------------------------------------
Init ==
  /\ graph \in Graphs
  /\ settings \in {[limit |-> limit, prime_implicants |-> FALSE,
                    gate_index_bound |-> IF IsTrivial(graph) THEN 0 ELSE Min(Gates(graph)) - 1] :
                      limit \in Limits}
  /\ order = IF IsTrivial(graph) THEN TopologicalOrder(graph) ELSE InvertOrder(graph)
  /\ stack = <<>>
  /\ expanded = <<>>
  /\ zbdd = <<>>
  /\ phase = "start"

(* Analyze of a trivial graph leaves everything to the ZBDD engine's       *)
(* constructor, and calls no more of it.                                   *)
AnalyzeTrivial ==
  /\ phase = "start" /\ IsTrivial(graph)
  /\ zbdd' = <<FromTrivial(k, graph, order)>>
  /\ phase' = "analyzed"
  /\ UNCHANGED <<graph, order, settings, stack, expanded>>

AnalyzeRoot ==
  /\ phase = "start" /\ ~IsTrivial(graph)
  /\ stack' = <<Frame(graph.root)>>
  /\ phase' = "generate"
  /\ UNCHANGED <<graph, order, settings, expanded, zbdd>>

(* Seeded defect: the cut sets without the gate are lost.                  *)
ExpandedAlone(node) == ApplyAnd(k, ConvertGate(node.index), node.high, k.limit)

(* The cut sets with the gate are taken out, combined with the gate's own, *)
(* and merged with the rest.                                               *)
Expanded(node) ==
  Merge(node.low, ApplyAnd(k, ConvertGate(node.index), node.high, k.limit))

(* Seeded defect: the arguments of an expanded gate are not recorded.      *)
KnownBefore(frame, g) == frame.known

Known(frame, g) == frame.known \cup GateArgs(graph, g)

(* One round of the loop.                                                  *)
Expand ==
  /\ stack /= <<>> /\ Top.expanding
  /\ NextGate(Top.root) /= 0
  /\ stack' = <<[Top EXCEPT !.root = Expanded(@), !.known = Known(Top, NextGate(Top.root))]>>
              \o Tail(stack)
  /\ expanded' = Append(expanded, NextGate(Top.root))
  /\ UNCHANGED <<graph, order, settings, zbdd, phase>>

(* No gate is left to expand: what remains are modules to be analyzed.     *)
Close ==
  LET whole == WithoutComplements(k, graph, Top.gate, Minimize(k, Top.root))
  IN
  /\ stack /= <<>> /\ Top.expanding
  /\ NextGate(Top.root) = 0
  /\ stack' = <<[Top EXCEPT !.root = whole, !.expanding = FALSE, !.todo = ModulesIn(whole)]>>
              \o Tail(stack)
  /\ UNCHANGED <<graph, order, settings, expanded, zbdd, phase>>

Join(frame, m, diagram) ==
  [frame EXCEPT !.todo = {p \in @ : p.index /= m},
                !.modules = [i \in DOMAIN @ \cup {m} |-> IF i = m THEN diagram ELSE @[i]]]

NextModule == CHOOSE p \in Top.todo : \A q \in Top.todo : p.index <= q.index

(* No product of the module fits beside those of its surroundings.         *)
IsOut(p) == ModuleLimit(k, Top.root, p.index) = 0 /\ p.coherent

(* The next module gets a container of its own, unless it is out.          *)
AnalyzeModule ==
  /\ stack /= <<>> /\ ~Top.expanding /\ Top.todo /= {}
  /\ stack' = IF IsOut(NextModule)
              THEN <<Join(Top, NextModule.index, Diagram(k, kEmpty, NoModules))>> \o Tail(stack)
              ELSE <<Frame(NextModule.index)>> \o stack
  /\ UNCHANGED <<graph, order, settings, expanded, zbdd, phase>>

(* All modules are joined: constant ones go, and the container is handed   *)
(* to the module that asked for it, or becomes the result.                 *)
Return ==
  LET joined == WithModules(k, Top.root, Top.modules)
      container == [joined EXCEPT !.root = Minimize(k, @)]
  IN
  /\ stack /= <<>> /\ ~Top.expanding /\ Top.todo = {}
  /\ IF Len(stack) = 1
     THEN stack' = <<>> /\ zbdd' = <<container>> /\ phase' = "delegate"
     ELSE /\ stack' = <<Join(stack[2], Top.gate, container)>> \o Tail(Tail(stack))
          /\ UNCHANGED <<zbdd, phase>>
  /\ UNCHANGED <<graph, order, settings, expanded>>

(* The analysis of the resulting diagram.                                  *)
Delegate ==
  /\ phase = "delegate"
  /\ zbdd' = <<Analyzed(zbdd[1], graph.substitutions)>>
  /\ phase' = "analyzed"
  /\ UNCHANGED <<graph, order, settings, stack, expanded>>

Reported == phase = "analyzed" /\ UNCHANGED vars

Next == AnalyzeTrivial \/ AnalyzeRoot \/ Expand \/ Close \/ AnalyzeModule \/ Return \/ Delegate \/ Reported

Spec == Init /\ [][Next]_vars

-----------------------------------------------------------------------------
(* zbdd.h:914, mocus.cc:71, 101: the order puts the gates to the top, so   *)
(* that when the loop ends none is left below and no gate is expanded a    *)
(* second time; and the gate to be expanded or analyzed next is found, for *)
(* the arguments of every gate expanded before were recorded.              *)
RECURSIVE Indices(_)
Indices(vertex) ==
  IF vertex.terminal THEN {} ELSE {vertex.index} \cup Indices(vertex.high) \cup Indices(vertex.low)

ExpandsEachGateOnce ==
  /\ stack /= <<>> =>
       /\ Top.expanding /\ NextGate(Top.root) /= 0 => NextGate(Top.root) \in Top.known
       /\ {p.index : p \in Top.todo} \subseteq Top.known
  /\ Cardinality(ToSet(expanded)) = Len(expanded)
  /\ \A i \in DOMAIN stack :
       ~stack[i].expanding => Indices(stack[i].root) \cap Gates(graph) \subseteq graph.modules

(* The truth of the intermediate cut sets when gates mean what they mean   *)
(* in the graph.                                                           *)
Covers(vertex, true) ==
  \E s \in Family(vertex) : \A l \in s : IF l < 0 THEN -l \notin true ELSE Holds(graph, l, true)

(* fta_algorithms.rst, rules 1 to 4, mocus.cc:74: every expansion keeps the*)
(* meaning of the intermediate cut sets; only the limit takes from them.   *)
ExpansionKeepsMeaning ==
  stack /= <<>> /\ Top.expanding =>
    \A true \in SUBSET Variables(graph) :
      /\ Covers(Top.root, true) => Holds(graph, Top.gate, true)
      /\ k.limit >= Cardinality(Variables(graph)) /\ Holds(graph, Top.gate, true) => Covers(Top.root, true)
=============================================================================
