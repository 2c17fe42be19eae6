--------------------------------- MODULE Zbdd ---------------------------------
(***************************************************************************)
(* The calculus of the zero-suppressed decision diagram (src/src/zbdd.cc): *)
(* families of products over signed indices.  A vertex is its value, as in *)
(* module Bdd; the memo tables, which are keyed by ids and limits, repeat  *)
(* what the operations would compute again.  Every operation takes the     *)
(* settings k of the diagram it works in:                                  *)
(*   limit             the largest order of a product                      *)
(*   prime_implicants  products keep their negative literals               *)
(*   gate_index_bound  in a container of MOCUS, indices above it are gates;*)
(*                     0 in every other diagram                            *)
(***************************************************************************)
EXTENDS Integers, FiniteSets, Sequences, SequencesExt

kBase == [terminal |-> TRUE, value |-> TRUE]
kEmpty == [terminal |-> TRUE, value |-> FALSE]

IsGate(k, node) ==
  IF k.gate_index_bound > 0 THEN node.index > k.gate_index_bound ELSE node.module

(* A node that can stand for the unity set does not add to the order of a  *)
(* product: a negative literal, or a gate that is not a coherent module.   *)
MayBeUnity(k, node) ==
  /\ ~k.prime_implicants
  /\ \/ node.index < 0
     \/ IsGate(k, node) /\ (~node.module \/ ~node.coherent)

Contribution(k, node) == IF MayBeUnity(k, node) THEN 0 ELSE 1

MaxSetOrder(vertex) == IF vertex.terminal THEN 0 ELSE vertex.max_set_order

(* FindOrAddVertex with the attributes of a prototype.                     *)
NewNode(k, like, high, low) ==
  [terminal |-> FALSE, index |-> like.index, order |-> like.order,
   module |-> like.module, coherent |-> like.coherent, high |-> high, low |-> low,
   max_set_order |->
     LET through == MaxSetOrder(high) + Contribution(k, like)
     IN IF through >= MaxSetOrder(low) THEN through ELSE MaxSetOrder(low)]

GetReducedVertex(k, like, high, low) ==
  IF high = low \/ high = kEmpty \/ low = kBase THEN low ELSE NewNode(k, like, high, low)

Single(k, like) == NewNode(k, like, kBase, kEmpty)

(* Variables are ordered by their order, a literal before its complement.  *)
Same(n, m) == n.order = m.order /\ n.index = m.index
Before(n, m) == n.order < m.order \/ (n.order = m.order /\ n.index > m.index)

-----------------------------------------------------------------------------
(* Seeded defect: the low branch of the smaller family is not tried.       *)
RECURSIVE SubsumeHigh(_, _, _)
SubsumeHigh(k, high, low) ==
  CASE low.terminal -> IF low.value THEN kEmpty ELSE high
    [] high.terminal -> high
    [] Before(low, high) -> SubsumeHigh(k, high, low.low)
    [] OTHER ->
         LET subhigh == IF Same(high, low)
                        THEN SubsumeHigh(k, high.high, low.high)
                        ELSE SubsumeHigh(k, high.high, low)
             sublow == SubsumeHigh(k, high.low, IF Same(high, low) THEN low.low ELSE low)
         IN IF subhigh = kEmpty THEN sublow ELSE NewNode(k, high, subhigh, sublow)

(* The products of high that contain no product of low.                    *)
RECURSIVE Subsume(_, _, _)
Subsume(k, high, low) ==
  CASE low.terminal -> IF low.value THEN kEmpty ELSE high
    [] high.terminal -> high
    [] Before(low, high) -> Subsume(k, high, low.low)
    [] OTHER ->
         LET subhigh == IF Same(high, low)
                        THEN Subsume(k, Subsume(k, high.high, low.high), low.low)
                        ELSE Subsume(k, high.high, low)
             sublow == Subsume(k, high.low, IF Same(high, low) THEN low.low ELSE low)
         IN IF subhigh = kEmpty THEN sublow ELSE NewNode(k, high, subhigh, sublow)

RECURSIVE Minimize(_, _)
Minimize(k, vertex) ==
  IF vertex.terminal
  THEN vertex
  ELSE LET low == Minimize(k, vertex.low)
           high == Subsume(k, Minimize(k, vertex.high), low)
       IN IF high = kEmpty THEN low ELSE NewNode(k, vertex, high, low)

(* Seeded defect: a vertex is handed on without regard to the cut-off.     *)
Unpruned(k, vertex, limit) == vertex

RECURSIVE Prune(_, _, _)
Prune(k, vertex, limit) ==
  CASE limit < 0 -> kEmpty
    [] vertex.terminal -> vertex
    [] vertex.max_set_order <= limit -> vertex
    [] OTHER -> GetReducedVertex(k, vertex,
                  Prune(k, vertex.high, limit - Contribution(k, vertex)),
                  Prune(k, vertex.low, limit))

(* Seeded defect: contradictory products are kept.                         *)
Contradictory(node, high) == high

(* A product cannot hold a literal and its complement: what stands below   *)
(* the literal loses the complement.                                       *)
Consistent(node, high) ==
  IF ~high.terminal /\ high.order = node.order THEN high.low ELSE high

RECURSIVE ApplyOr(_, _, _, _)
ApplyOr(k, one, two, limit) ==
  CASE limit < 0 -> kEmpty
    [] one = kBase \/ two = kBase -> kBase
    [] one.terminal -> Prune(k, two, limit)
    [] two.terminal -> Prune(k, one, limit)
    [] one = two -> Prune(k, one, limit)
    [] Before(two, one) -> ApplyOr(k, two, one, limit)
    [] OTHER ->
         LET limit_high == limit - Contribution(k, one)
         IN IF one.order = two.order /\ one.index /= two.index
                 /\ one.high.terminal /\ two.high.terminal
            THEN kBase
            ELSE Minimize(k, GetReducedVertex(k, one,
                   Consistent(one, IF Same(one, two)
                                   THEN ApplyOr(k, one.high, two.high, limit_high)
                                   ELSE Prune(k, one.high, limit_high)),
                   ApplyOr(k, one.low, IF Same(one, two) THEN two.low ELSE two, limit)))

(* (x f1 + f0)(x g1 + g0) = x (f1 (g1 + g0) + f0 g1) + f0 g0               *)
RECURSIVE ApplyAnd(_, _, _, _)
ApplyAnd(k, one, two, limit) ==
  CASE limit < 0 -> kEmpty
    [] one = kEmpty \/ two = kEmpty -> kEmpty
    [] one.terminal -> Prune(k, two, limit)
    [] two.terminal -> Prune(k, one, limit)
    [] one = two -> Prune(k, one, limit)
    [] Before(two, one) -> ApplyAnd(k, two, one, limit)
    [] OTHER ->
         LET limit_high == limit - Contribution(k, one)
             high == CASE Same(one, two) ->
                            ApplyOr(k,
                              ApplyAnd(k, one.high, ApplyOr(k, two.high, two.low, limit_high), limit_high),
                              ApplyAnd(k, one.low, two.high, limit_high),
                              limit_high)
                       [] one.order = two.order -> ApplyAnd(k, one.high, two.low, limit_high)
                       [] OTHER -> ApplyAnd(k, one.high, two, limit_high)
             low == ApplyAnd(k, one.low, IF Same(one, two) THEN two.low ELSE two, limit)
         IN Minimize(k, GetReducedVertex(k, one, Consistent(one, high), low))

ApplyBy(k, type, one, two) ==
  IF type = "and" THEN ApplyAnd(k, one, two, k.limit) ELSE ApplyOr(k, one, two, k.limit)

(* The sorted fold of ConvertGraph and of ConvertGate: terminals come      *)
(* first, then the vertices of the highest order.                          *)
FoldedBy(k, type, vertices) ==
  LET Rank(v) == IF v.terminal THEN -1 ELSE -v.order
      sorted == SortSeq(SetToSeq(vertices), LAMBDA v, w : Rank(v) < Rank(w))
  IN FoldLeft(LAMBDA result, v : ApplyBy(k, type, result, v), Head(sorted), Tail(sorted))

-----------------------------------------------------------------------------
(* Negative literals count as unity in minimal cut sets, those of modules  *)
(* that are not coherent excepted.                                         *)
RECURSIVE EliminateComplements(_, _)
EliminateComplements(k, vertex) ==
  IF vertex.terminal
  THEN vertex
  ELSE LET high == EliminateComplements(k, vertex.high)
           low == EliminateComplements(k, vertex.low)
       IN IF vertex.index < 0 /\ ~(vertex.module /\ ~vertex.coherent)
          THEN ApplyOr(k, high, low, k.limit)
          ELSE Minimize(k, GetReducedVertex(k, vertex, high, low))

(* roots: the roots of the module diagrams that have been joined.          *)
RECURSIVE WithoutConstantModules(_, _, _)
WithoutConstantModules(k, vertex, roots) ==
  IF vertex.terminal
  THEN vertex
  ELSE LET high == WithoutConstantModules(k, vertex.high, roots)
           low == WithoutConstantModules(k, vertex.low, roots)
       IN IF vertex.module /\ roots[vertex.index].terminal
          THEN IF roots[vertex.index].value THEN ApplyOr(k, high, low, k.limit) ELSE low
          ELSE Minimize(k, GetReducedVertex(k, vertex, high, low))

EliminateConstantModules(k, vertex, roots) ==
  IF \E m \in DOMAIN roots : roots[m].terminal
  THEN WithoutConstantModules(k, vertex, roots)
  ELSE vertex

(* GatherModules: the least order of a product from a vertex down, -1 when *)
(* there is none,                                                          *)
RECURSIVE MinOrder(_, _)
MinOrder(k, vertex) ==
  IF vertex.terminal
  THEN IF vertex.value THEN 0 ELSE -1
  ELSE LET through == MinOrder(k, vertex.high) + Contribution(k, vertex)
           around == MinOrder(k, vertex.low)
       IN IF around = -1 \/ through <= around THEN through ELSE around

(* what is left for a module between the products above and below it,      *)
RECURSIVE ModuleOrders(_, _, _, _)
ModuleOrders(k, vertex, index, current) ==
  IF vertex.terminal
  THEN {}
  ELSE (IF vertex.module /\ vertex.index = index
        THEN {k.limit - MinOrder(k, vertex.high) - current}
        ELSE {})
       \cup ModuleOrders(k, vertex.high, index, current + Contribution(k, vertex))
       \cup ModuleOrders(k, vertex.low, index, current)

(* and the modules a diagram refers to.                                    *)
RECURSIVE ModulesIn(_)
ModulesIn(vertex) ==
  IF vertex.terminal
  THEN {}
  ELSE (IF vertex.module THEN {[index |-> vertex.index, coherent |-> vertex.coherent]} ELSE {})
       \cup ModulesIn(vertex.high) \cup ModulesIn(vertex.low)

(* Seeded defect: the tightest place of the proxy decides.                 *)
TightestLimit(k, root, index) ==
  LET orders == ModuleOrders(k, root, index, 0)
  IN CHOOSE n \in orders : \A m \in orders : n <= m

(* The widest place of the proxy decides.                                  *)
ModuleLimit(k, root, index) ==
  LET orders == ModuleOrders(k, root, index, 0)
  IN CHOOSE n \in orders : \A m \in orders : m <= n

-----------------------------------------------------------------------------
(* The family a vertex stands for, proxies of modules as plain indices.    *)
RECURSIVE Family(_)
Family(vertex) ==
  IF vertex.terminal
  THEN IF vertex.value THEN {{}} ELSE {}
  ELSE {p \cup {vertex.index} : p \in Family(vertex.high)} \cup Family(vertex.low)

(* TestStructure of a minimal diagram.                                     *)
RECURSIVE WellFormed(_)
WellFormed(vertex) ==
  vertex.terminal \/
    /\ vertex.high /= kEmpty /\ vertex.high /= vertex.low
    /\ vertex.high.terminal \/ vertex.order < vertex.high.order
    /\ vertex.low.terminal \/ Before(vertex, vertex.low)
    /\ WellFormed(vertex.high) /\ WellFormed(vertex.low)
=============================================================================
