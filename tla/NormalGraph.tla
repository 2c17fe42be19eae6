----------------------------- MODULE NormalGraph -----------------------------
(***************************************************************************)
(* The graph an analysis engine is given: a PDAG after preprocessing       *)
(* (src/src/pdag.h, src/src/preprocessor.cc).  Its gates are AND and OR,   *)
(* an argument is a signed index, negative for a complement.  A graph is a *)
(* record of the maps                                                      *)
(*   type : gate -> "and", "or"       args : gate -> set of signed indices *)
(* the set of the gates marked as modules, the root, the complement of the *)
(* whole, and the sequence of the substitutions to be applied to products. *)
(* A trivial graph has one gate, of type "null", whose argument is a       *)
(* variable or the constant, which has index 1.                            *)
(***************************************************************************)
EXTENDS Integers, FiniteSets, Sequences, SequencesExt

Abs(i) == IF i < 0 THEN -i ELSE i

kConstant == 1

Gates(graph) == DOMAIN graph.args
Nodes(graph) == Gates(graph) \cup UNION {{Abs(a) : a \in graph.args[g]} : g \in Gates(graph)}
Variables(graph) == Nodes(graph) \ (Gates(graph) \cup {kConstant})
Parents(graph, n) == {g \in Gates(graph) : n \in graph.args[g] \/ -n \in graph.args[g]}
GateArgs(graph, g) == {a \in graph.args[g] : Abs(a) \in Gates(graph)}
VariableArgs(graph, g) == {a \in graph.args[g] : Abs(a) \in Variables(graph)}
IsTrivial(graph) == graph.type[graph.root] = "null"

(* A node with all the nodes below it.                                     *)
Below(graph, n) ==
  LET Reached[m \in Nodes(graph)] ==
        {m} \cup IF m \in Gates(graph) THEN UNION {Reached[Abs(a)] : a \in graph.args[m]} ELSE {}
  IN Reached[n]

(* What the module flag promises: nothing outside of the gate's subgraph   *)
(* uses a node of the subgraph, the gate itself excepted.                  *)
IsModule(graph, g) ==
  \A n \in Below(graph, g) \ {g} : Parents(graph, n) \subseteq Below(graph, g)

(* MarkCoherence.                                                          *)
Coherent(graph, g) ==
  LET Marked[h \in Gates(graph)] ==
        /\ \A a \in graph.args[h] : a > 0
        /\ \A a \in GateArgs(graph, h) : Marked[Abs(a)]
  IN Marked[g]

(* The truth of a node when exactly the variables of the set are true.     *)
Holds(graph, n, true) ==
  LET Happens[m \in Nodes(graph)] ==
        IF m \notin Gates(graph) THEN m = kConstant \/ m \in true
        ELSE IF graph.type[m] = "and" THEN \A a \in graph.args[m] : (a < 0) /= Happens[Abs(a)]
        ELSE \E a \in graph.args[m] : (a < 0) /= Happens[Abs(a)]
  IN Happens[n]

ModelsOf(graph, n) == {true \in SUBSET Variables(graph) : Holds(graph, n, true)}

Truth(graph, true) == graph.complement /= Holds(graph, graph.root, true)

GraphCoherent(graph) == ~graph.complement /\ Coherent(graph, graph.root)

(* OrderArguments: those with more parents first, ties by index.           *)
OrderArguments(graph, S) ==
  SetToSortSeq(S, LAMBDA m, n : \/ Cardinality(Parents(graph, m)) > Cardinality(Parents(graph, n))
                                \/ /\ Cardinality(Parents(graph, m)) = Cardinality(Parents(graph, n))
                                   /\ m < n)

(* TopologicalOrder: arguments come before their gate, gates before        *)
(* variables.  The nodes are listed in the order they are numbered.        *)
Numbered(graph) ==
  LET Listed[g \in Gates(graph), listed \in Seq(Nodes(graph))] ==
        LET below == OrderArguments(graph, {Abs(a) : a \in GateArgs(graph, g)})
            leaves == OrderArguments(graph, {Abs(a) : a \in VariableArgs(graph, g)})
            withGates == FoldLeft(LAMBDA list, n : Listed[n, list], listed, below)
            fresh == SelectSeq(leaves, LAMBDA n : n \notin ToSet(withGates))
        IN IF g \in ToSet(listed) THEN listed ELSE Append(withGates \o fresh, g)
  IN Listed[graph.root, <<>>]

TopologicalOrder(graph) ==
  LET list == Numbered(graph)
  IN [n \in ToSet(list) |-> CHOOSE i \in DOMAIN list : list[i] = n]

(* Seeded defect: the gates come to the top as they are.                   *)
ShiftedOrder(graph) ==
  LET order == TopologicalOrder(graph)
      plain == Gates(graph) \ graph.modules
      shift == Cardinality(plain)
  IN [n \in DOMAIN order |->
        IF n \in plain
        THEN Cardinality({g \in plain : order[g] <= order[n]})
        ELSE shift + order[n]]

(* InvertOrder, for MOCUS: the gates to be expanded come to the top, in the*)
(* opposite order; modules and variables keep their order below them.      *)
InvertOrder(graph) ==
  LET order == TopologicalOrder(graph)
      plain == Gates(graph) \ graph.modules
      shift == Cardinality(plain)
  IN [n \in DOMAIN order |->
        IF n \in plain
        THEN Cardinality({g \in plain : order[g] >= order[n]})
        ELSE shift + order[n]]

-----------------------------------------------------------------------------
(* The reference answers.                                                  *)
Models(graph) == {true \in SUBSET Variables(graph) : Truth(graph, true)}

Minimal(family) == {s \in family : \A t \in family : t \subseteq s => t = s}

Within(family, limit) == {s \in family : Cardinality(s) <= limit}

(* Minimal cut sets: the least sets of events that are models on their own.*)
MinimalCutSets(graph, limit) == Within(Minimal(Models(graph)), limit)

(* What substitutions make of a family of products: where the hypothesis is*)
(* part of a product, the target replaces the source.                      *)
Replaced(substitutions, product) ==
  LET active == {s \in ToSet(substitutions) : s.hypothesis \subseteq product}
  IN (product \ UNION {s.source : s \in active}) \cup ({s.target : s \in active} \ {0})

AllReplaced(substitutions, family, limit) ==
  Within(Minimal({Replaced(substitutions, p) : p \in family}), limit)

(* The answer without prime implicants.                                    *)
CutSetsAsked(graph, limit) ==
  IF graph.substitutions = <<>>
  THEN MinimalCutSets(graph, limit)
  ELSE AllReplaced(graph.substitutions, MinimalCutSets(graph, limit), limit)

(* Prime implicants: the least consistent products of literals that imply  *)
(* the root.                                                               *)
Implicants(graph) ==
  {p \in SUBSET (Variables(graph) \cup {-v : v \in Variables(graph)}) :
     /\ \A l \in p : -l \notin p
     /\ \A true \in SUBSET Variables(graph) :
          (\A l \in p : IF l > 0 THEN l \in true ELSE -l \notin true) =>
            Truth(graph, true)}

PrimeImplicants(graph, limit) == Within(Minimal(Implicants(graph)), limit)
=============================================================================
