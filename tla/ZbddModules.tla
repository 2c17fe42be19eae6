----------------------------- MODULE ZbddModules -----------------------------
(***************************************************************************)
(* Diagrams with modules (src/src/zbdd.cc, src/src/zbdd.h).  A diagram is a*)
(* record of its settings, its root and its joined modules, diagrams of    *)
(* their own under the index of their proxy.  Each module works under a    *)
(* limit of its own: what the products around its proxies leave.           *)
(***************************************************************************)
EXTENDS NormalGraph, Zbdd

Diagram(k, root, modules) == [k |-> k, root |-> root, modules |-> modules]

NoModules == [i \in {} |-> 0]

Adjusted(k, limit) == [k EXCEPT !.limit = limit]

Roots(modules) == [m \in DOMAIN modules |-> modules[m].root]

ProxyIndices(root) == {m.index : m \in ModulesIn(root)}

Proxy(root, i) == CHOOSE m \in ModulesIn(root) : m.index = i

(* The settings of a joined module: what its surroundings leave.           *)
ModuleSettings(k, root, i) == Adjusted(k, ModuleLimit(k, root, i))

(* Nothing of a module that adds to every product can be within the limit. *)
LeavesNothing(k, root, i) ==
  ModuleLimit(k, root, i) = 0 /\ Proxy(root, i).coherent /\ i > 0

Nothing(k) == Diagram(k, kEmpty, NoModules)

(* Seeded defect: proxies of constant modules stay.                        *)
WithConstantModules(k, root, modules) == Diagram(k, root, modules)

(* The diagram with its modules joined and the proxies of constants gone.  *)
WithModules(k, root, modules) ==
  Diagram(k, EliminateConstantModules(k, root, Roots(modules)), modules)

(* Analyze up to the substitutions: the result of Prune is not assigned.   *)
RECURSIVE Minimized(_)
Minimized(z) ==
  [z EXCEPT !.root = Minimize(z.k, @),
            !.modules = [m \in DOMAIN @ |-> Minimized(@[m])]]

-----------------------------------------------------------------------------
(* Seeded defect: the low branch is taken with the node still in place.    *)
RECURSIVE ProductsUnpopped(_, _, _, _)
ProductsUnpopped(z, vertex, product, limit) ==
  CASE vertex.terminal -> IF vertex.value THEN <<product>> ELSE <<>>
    [] ~vertex.terminal /\ Len(product) >= limit -> <<>>
    [] OTHER ->
         LET module == z.modules[vertex.index]
             within == IF vertex.module
                       THEN ProductsUnpopped(module, module.root, product, limit)
                       ELSE <<Append(product, vertex.index)>>
         IN FlattenSeq([i \in DOMAIN within |->
              ProductsUnpopped(z, vertex.high, within[i], limit)
              \o ProductsUnpopped(z, vertex.low, within[i], limit)])

(* The products the iterator generates from a vertex, in its order, when   *)
(* the product has been built so far; the limit is that of the whole.      *)
RECURSIVE ProductsFrom(_, _, _, _)
ProductsFrom(z, vertex, product, limit) ==
  CASE vertex.terminal -> IF vertex.value THEN <<product>> ELSE <<>>
    [] ~vertex.terminal /\ Len(product) >= limit -> <<>>
    [] OTHER ->
         LET module == z.modules[vertex.index]
             within == IF vertex.module
                       THEN ProductsFrom(module, module.root, product, limit)
                       ELSE <<Append(product, vertex.index)>>
         IN FlattenSeq([i \in DOMAIN within |-> ProductsFrom(z, vertex.high, within[i], limit)])
            \o ProductsFrom(z, vertex.low, product, limit)

Products(z) == ProductsFrom(z, z.root, <<>>, z.k.limit)

-----------------------------------------------------------------------------
(* In the order of the diagrams that hold substituted products every       *)
(* variable has its index as its order.                                    *)
Reordered(k, l) ==
  Single(k, [index |-> l, order |-> IF l < 0 THEN -l ELSE l, module |-> FALSE, coherent |-> FALSE])

Conjoined(k, literals) ==
  FoldLeft(LAMBDA product, l : ApplyAnd(k, product, Reordered(k, l), k.limit), kBase, literals)

(* Seeded defect: the first substitution that applies is the only one.     *)
SubstituteFirst(k, substitutions, product) ==
  LET active == SelectSeq(substitutions, LAMBDA s : s.hypothesis \subseteq ToSet(product))
      s == Head(active)
  IN IF active = <<>>
     THEN Conjoined(k, product)
     ELSE Conjoined(k, SelectSeq(product, LAMBDA l : l \notin s.source)
                         \o IF s.target = 0 THEN <<>> ELSE <<s.target>>)

(* A product without the sources and with the targets of the substitutions *)
(* whose hypotheses it contains.                                           *)
Substitute(k, substitutions, product) ==
  LET active == SelectSeq(substitutions, LAMBDA s : s.hypothesis \subseteq ToSet(product))
      removed == UNION {s.source : s \in ToSet(active)}
      added == SelectSeq([i \in DOMAIN active |-> active[i].target], LAMBDA t : t /= 0)
  IN Conjoined(k, SelectSeq(product, LAMBDA l : l \notin removed) \o added)

ApplySubstitutions(z, substitutions) ==
  IF substitutions = <<>>
  THEN z
  ELSE [z EXCEPT !.root =
         Minimize(z.k, FoldLeft(LAMBDA root, product :
                                  ApplyOr(z.k, root, Substitute(z.k, substitutions, product), z.k.limit),
                                kEmpty, Products(z)))]

Analyzed(z, substitutions) == ApplySubstitutions(Minimized(z), substitutions)

-----------------------------------------------------------------------------
(* A diagram and the diagrams joined in it, at any depth.                  *)
RECURSIVE Everywhere(_)
Everywhere(z) == {z} \cup UNION {Everywhere(z.modules[m]) : m \in DOMAIN z.modules}

(* TestStructure of a diagram and its modules: minimal roots, ordered, and *)
(* no proxy of a constant.                                                 *)
Sound(z) ==
  \A d \in Everywhere(z) :
    /\ WellFormed(d.root)
    /\ Minimize(d.k, d.root) = d.root
    /\ \A m \in ModulesIn(d.root) : ~d.modules[m.index].root.terminal

(* The assertions about cut-offs: no limit falls below zero and no diagram *)
(* exceeds its own; so a coherent module, which adds to every product, is  *)
(* always left an order of at least one.                                   *)
CutOff(z) ==
  \A d \in Everywhere(z) :
    /\ d.k.limit >= 0
    /\ MaxSetOrder(d.root) <= d.k.limit
    /\ \A m \in ModulesIn(d.root) :
         m.coherent /\ m.index > 0 => ModuleLimit(d.k, d.root, m.index) > 0
-----------------------------------------------------------------------------
(* The constructors from a graph whose complements stand at variables only.*)
(* The memo of ConvertGraph, which is that of the BDD, is left to module   *)
(* BddConstruction.                                                        *)

(* The single literal of an argument, or the proxy of a gate.              *)
Leaf(k, graph, order, a) ==
  Single(k, [index |-> a, order |-> order[Abs(a)],
             module |-> a \in graph.modules,
             coherent |-> a \in Gates(graph) /\ Coherent(graph, a)])

RECURSIVE ConvertGraph(_, _, _, _)
ConvertGraph(k, graph, order, g) ==
  FoldedBy(k, graph.type[g],
    {IF a \in Gates(graph) \ graph.modules
     THEN ConvertGraph(k, graph, order, a)
     ELSE Leaf(k, graph, order, a) : a \in graph.args[g]})

(* Seeded defect: the complements stay where they are.                     *)
KeptComplements(k, graph, g, vertex) == Minimize(k, vertex)

(* Cut sets of a gate without negative literals, minimal.                  *)
WithoutComplements(k, graph, g, vertex) ==
  Minimize(k, IF Coherent(graph, g) THEN vertex ELSE EliminateComplements(k, vertex))

RECURSIVE FromGate(_, _, _, _)
FromGate(k, graph, order, g) ==
  LET whole == WithoutComplements(k, graph, g, ConvertGraph(k, graph, order, g))
  IN WithModules(k, whole,
       [i \in ProxyIndices(whole) |->
          IF LeavesNothing(k, whole, i)
          THEN Nothing(k)
          ELSE FromGate(ModuleSettings(k, whole, i), graph, order, i)])

(* A constant or a single variable, whose complement counts as unity.      *)
FromTrivial(k, graph, order) ==
  LET child == CHOOSE a \in graph.args[graph.root] : TRUE
  IN Diagram(k,
       CASE child = -kConstant -> kEmpty
         [] child = kConstant \/ child < 0 -> kBase
         [] OTHER -> Leaf(k, graph, order, child),
       NoModules)

FromGraph(k, graph, order) ==
  IF IsTrivial(graph) THEN FromTrivial(k, graph, order) ELSE FromGate(k, graph, order, graph.root)
=============================================================================
