--------------------------- MODULE BddConstruction ---------------------------
(***************************************************************************)
(* The constructor of Bdd (src/src/bdd.cc): ConvertGraph walks the graph   *)
(* below the root and builds the function of every gate from the functions *)
(* of its arguments.  The result of a gate with several parents waits in a *)
(* memo that counts the parents it has served; a module is kept on its own *)
(* and stands in its parents as a proxy variable.                          *)
(*                                                                         *)
(* The recursion is an explicit stack.  A frame holds the arguments still  *)
(* to be converted, the functions ready to be combined and, once the first *)
(* is taken, the result so far.                                            *)
(***************************************************************************)
EXTENDS NormalGraph, Bdd

CONSTANT Graphs   \* the graphs preprocessing can hand over

(* What preprocessing has seen to: gates and their arguments have indices  *)
(* of their own, a constant is left in trivial graphs only, no argument    *)
(* meets its complement in a gate, and the topological order numbers every *)
(* node, gates after their arguments.                                      *)
Prepared(g) ==
  /\ Gates(g) \subseteq Nat \ {0, kConstant} /\ IsFiniteSet(Gates(g))
  /\ g.root \in Gates(g) /\ g.modules \subseteq Gates(g) /\ g.complement \in BOOLEAN
  /\ \A h \in Gates(g) :
       /\ g.args[h] \subseteq Int \ {0} /\ IsFiniteSet(g.args[h]) /\ g.args[h] /= {}
       /\ \A a \in GateArgs(g, h) : TopologicalOrder(g)[Abs(a)] < TopologicalOrder(g)[h]
  /\ TopologicalOrder(g) \in [Gates(g) \cup Variables(g) -> 1..MaxOrder]
  /\ IF IsTrivial(g)
     THEN /\ Gates(g) = {g.root} /\ ~g.complement
          /\ \E a \in g.args[g.root] : g.args[g.root] = {a} /\ Abs(a) /= g.root
     ELSE \A h \in Gates(g) :
            /\ g.type[h] \in {"and", "or"}
            /\ \A a \in g.args[h] : Abs(a) /= kConstant /\ -a \notin g.args[h]

ASSUME GraphsAssumption == \A g \in Graphs : Prepared(g)

VARIABLES
  graph, order,
  stack,
  gates,      \* the memo: gate -> [function, count]
  modules,    \* modules_: gate -> function
  converted,  \* the gates whose conversion has finished (history)
  root        \* root_: the empty sequence before the end, then one function

vars == <<graph, order, stack, gates, modules, converted, root>>

-----------------------------------------------------------------------------
IsModuleGate(n) == n \in graph.modules

Prototype(n) ==
  [index |-> n, order |-> order[n], module |-> IsModuleGate(n),
   coherent |-> n \in Gates(graph) /\ Coherent(graph, n)]

Frame(g) ==
  [gate |-> g,
   todo |-> GateArgs(graph, g),
   args |-> [a \in VariableArgs(graph, g) |-> Function(a < 0, Literal(Prototype(Abs(a))))],
   result |-> <<>>]

Top == Head(stack)

(* Seeded defect: a complemented argument is taken as it is.               *)
ArgumentAsIs(a, res) ==
  IF IsModuleGate(Abs(a))
  THEN Function(a < 0, Literal(Prototype(Abs(a))))
  ELSE res

(* What an argument adds to its parent, given the function of its gate.    *)
Argument(a, res) ==
  IF IsModuleGate(Abs(a))
  THEN Function(a < 0, Literal(Prototype(Abs(a))))
  ELSE Negate(a < 0, res)

Receives(frame, a, res) ==
  [frame EXCEPT !.todo = @ \ {a},
                !.args = [b \in DOMAIN @ \cup {a} |-> IF b = a THEN Argument(a, res) ELSE @[b]]]

Taken(frame, a) == [b \in DOMAIN frame.args \ {a} |-> frame.args[b]]

(* The comparison of the sort: terminals first, then the highest order.    *)
Precedes(f, h) ==
  IF h.vertex.terminal
  THEN f.vertex.terminal
  ELSE IF f.vertex.terminal THEN TRUE ELSE f.vertex.order >= h.vertex.order

-----------------------------------------------------------------------------
Init ==
  /\ graph \in Graphs
  /\ order = TopologicalOrder(graph)
  /\ stack = IF IsTrivial(graph) THEN <<>> ELSE <<Frame(graph.root)>>
  /\ gates = [g \in {} |-> 0]
  /\ modules = [g \in {} |-> 0]
  /\ converted = {}
  /\ root = <<>>

(* Seeded defect: the entry goes one parent too early.                     *)
ServedShort(g) ==
  IF gates[g].count + 2 >= Cardinality(Parents(graph, g))
  THEN [h \in DOMAIN gates \ {g} |-> gates[h]]
  ELSE [gates EXCEPT ![g].count = @ + 1]

(* The memo after it has served one more parent of a gate.                 *)
Served(g) ==
  IF gates[g].count + 1 = Cardinality(Parents(graph, g))
  THEN [h \in DOMAIN gates \ {g} |-> gates[h]]
  ELSE [gates EXCEPT ![g].count = @ + 1]

(* An argument whose gate is in the memo.                                  *)
Recall ==
  /\ stack /= <<>>
  /\ \E a \in Top.todo :
       /\ Abs(a) \in DOMAIN gates
       /\ stack' = <<Receives(Top, a, gates[Abs(a)].function)>> \o Tail(stack)
       /\ gates' = Served(Abs(a))
  /\ UNCHANGED <<graph, order, modules, converted, root>>

(* An argument whose gate has to be converted first.                       *)
Descend ==
  /\ stack /= <<>>
  /\ \E a \in Top.todo :
       /\ Abs(a) \notin DOMAIN gates
       /\ stack' = <<Frame(Abs(a))>> \o stack
  /\ UNCHANGED <<graph, order, gates, modules, converted, root>>

(* Seeded defect: the result of the first arguments is not replaced.       *)
CombineBeside ==
  /\ stack /= <<>>
  /\ Top.todo = {}
  /\ \E a \in DOMAIN Top.args :
       /\ \A b \in DOMAIN Top.args : Precedes(Top.args[a], Top.args[b])
       /\ stack' = <<[Top EXCEPT !.args = Taken(Top, a), !.result = Append(@, Top.args[a])]>> \o Tail(stack)
  /\ UNCHANGED <<graph, order, gates, modules, converted, root>>

(* The next function in the order of the sort is applied to the result.    *)
Combine ==
  /\ stack /= <<>>
  /\ Top.todo = {}
  /\ \E a \in DOMAIN Top.args :
       /\ \A b \in DOMAIN Top.args : Precedes(Top.args[a], Top.args[b])
       /\ LET f == Top.args[a]
              res == IF Top.result = <<>> THEN f
                     ELSE Apply(graph.type[Top.gate], Top.result[1], f)
          IN stack' = <<[Top EXCEPT !.args = Taken(Top, a), !.result = <<res>>]>> \o Tail(stack)
  /\ UNCHANGED <<graph, order, gates, modules, converted, root>>

(* All arguments are in: the gate is registered as a module, remembered    *)
(* for its other parents, and handed to the one that asked for it.         *)
Finish ==
  LET g == Top.gate
      res == Top.result[1]
      asker == stack[2]
      a == CHOOSE b \in asker.todo : Abs(b) = g
  IN
  /\ stack /= <<>>
  /\ Top.todo = {} /\ DOMAIN Top.args = {}
  /\ modules' = IF IsModuleGate(g)
                THEN [h \in DOMAIN modules \cup {g} |-> IF h = g THEN res ELSE modules[h]]
                ELSE modules
  /\ gates' = IF Cardinality(Parents(graph, g)) > 1
              THEN [h \in DOMAIN gates \cup {g} |->
                      IF h = g THEN [function |-> res, count |-> 1] ELSE gates[h]]
              ELSE gates
  /\ converted' = converted \cup {g}
  /\ IF Len(stack) = 1
     THEN stack' = <<>> /\ root' = <<Negate(graph.complement, res)>>
     ELSE /\ stack' = <<Receives(asker, a, res)>> \o Tail(Tail(stack))
          /\ UNCHANGED root
  /\ UNCHANGED <<graph, order>>

(* The constructor on a trivial graph: a constant or a single variable.    *)
ConvertTrivial ==
  LET child == CHOOSE a \in graph.args[graph.root] : TRUE
  IN
  /\ IsTrivial(graph) /\ root = <<>>
  /\ root' = <<IF Abs(child) = kConstant
               THEN Function(child < 0, kOne)
               ELSE Function(child < 0, Literal(Prototype(Abs(child))))>>
  /\ UNCHANGED <<graph, order, stack, gates, modules, converted>>

(* The diagram stays as it was constructed.                                *)
Constructed == root /= <<>> /\ UNCHANGED vars

Next == Recall \/ Descend \/ Combine \/ Finish \/ ConvertTrivial \/ Constructed

Spec == Init /\ [][Next]_vars

-----------------------------------------------------------------------------
Around ==
  (UNION {{stack[i].args[a] : a \in DOMAIN stack[i].args} \cup ToSet(stack[i].result) : i \in DOMAIN stack})
    \cup {gates[g].function : g \in DOMAIN gates}
    \cup {modules[g] : g \in DOMAIN modules}
    \cup ToSet(root)

(* What a vertex branches on: variables and proxies of modules.            *)
Branches == (Variables(graph) \cup graph.modules) \ {graph.root}

(* bdd.cc:99, 346: complement edges, reduction and the order of variables  *)
(* make diagrams canonical, whatever was combined with what: all are       *)
(* ordered and reduced, and two functions of the same meaning are one      *)
(* vertex and one complement mark.                                         *)
Canonical ==
  /\ \A f \in Around : Structured(f.vertex)
  /\ Cardinality({Meaning(f, Branches) : f \in Around}) = Cardinality(Around)

(* What a function means with its proxies read as the modules of the graph *)
(* they stand for.                                                         *)
Expanded(f) ==
  LET meaning == Meaning(f, Branches)
      Proxies(true) == {m \in graph.modules \ {graph.root} : Holds(graph, m, true)}
  IN {true \in SUBSET Variables(graph) : true \cup Proxies(true) \in meaning}

(* bdd.cc:179-184: what the memo and the table of modules hold for a gate  *)
(* is that gate's function, and the root is the graph's.                   *)
MeansTheGraph ==
  /\ \A g \in DOMAIN gates : Expanded(gates[g].function) = ModelsOf(graph, g)
  /\ \A g \in DOMAIN modules : Expanded(modules[g]) = ModelsOf(graph, g)
  /\ root /= <<>> => Expanded(root[1]) = Models(graph)

(* A parent that has already taken the function of a gate.                 *)
HasTaken(p, g) ==
  \/ p \in converted
  \/ \E i \in DOMAIN stack : stack[i].gate = p /\ {g, -g} \cap stack[i].todo = {}

(* bdd.cc:145: the memo keeps the result of a gate exactly while it has    *)
(* served some of its parents and not all, and counts those it has served. *)
MemoServesParents ==
  \A g \in Gates(graph) \ {graph.root} :
    LET taken == {p \in Parents(graph, g) : HasTaken(p, g)}
    IN /\ g \in DOMAIN gates <=> (taken /= {} /\ taken /= Parents(graph, g))
       /\ g \in DOMAIN gates => gates[g].count = Cardinality(taken)

=============================================================================
