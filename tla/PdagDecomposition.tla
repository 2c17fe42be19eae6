--------------------------- MODULE PdagDecomposition ---------------------------
(***************************************************************************)
(* The passes on nodes with several parents, common nodes                  *)
(* (src/src/preprocessor.cc).  BooleanOptimization: where the failure of a *)
(* node decides gates above it, the node joins those gates, and is a       *)
(* constant for the parents that have nothing more to tell.                *)
(* DecomposeCommonNodes: x & f(x) is x & f(TRUE), for the parents of x that*)
(* nobody needs but a gate that has x itself.  The times of visits tell    *)
(* which these are, and stay what they were when the pass began.           *)
(***************************************************************************)
EXTENDS PdagModules

(* GatherCommonNodes, gates before variables.                              *)
CommonNodes == {n \in DOMAIN graph.parents \ {kConstant} : Cardinality(graph.parents[n]) > 1}

NextCommon ==
  IF Left \cap Living(graph) /= {} THEN First(Left \cap Living(graph)) ELSE First(Left)

IsCommon(n) == Cardinality(graph.parents[n]) > 1

BooleanOptimization ==
  /\ At("gather common", "")
  /\ graph' = [graph EXCEPT !.module = @ \cup {graph.root}]
  /\ plan' = Tail(plan)
  /\ todo' = CommonNodes
  /\ UNCHANGED <<model_vars, step, memo, held, null_vars>>

-----------------------------------------------------------------------------
(* MarkAncestors: up to the module, and no further.                        *)
RECURSIVE Ancestors(_, _)
Ancestors(g, S) ==
  LET next == S \cup UNION {g.parents[i] : i \in S \ g.module}
  IN IF next = S THEN S ELSE Ancestors(g, next)

AncestorsOf(g, n) == Ancestors(g, g.parents[n])

(* DetermineGateState: 1 for failure, -1 for success, 0 for neither.       *)
State(type, min, n, failures, successes) ==
  LET Decided(failing, succeeding) ==
        IF failures >= failing THEN 1 ELSE IF successes >= succeeding THEN -1 ELSE 0
  IN CASE failures + successes = 0 -> 0
       [] failures + successes > 0 /\ type \in {"null", "not"} ->
            IF type = "null" THEN Decided(1, 1) ELSE -Decided(1, 1)
       [] failures + successes > 0 /\ type \in {"or", "nor"} ->
            IF type = "or" THEN Decided(1, n) ELSE -Decided(1, n)
       [] failures + successes > 0 /\ type \in {"and", "nand"} ->
            IF type = "and" THEN Decided(n, 1) ELSE -Decided(n, 1)
       [] failures + successes > 0 /\ type = "atleast" -> Decided(min, n - min + 1)
       [] failures + successes > 0 /\ type = "xor" ->
            IF failures + successes < 2 THEN 0 ELSE IF failures = 1 THEN 1 ELSE -1

(* PropagateState: the states of ancestors when the node fails.            *)
States(g, n, above) ==
  LET state[i \in above \cup {n}] ==
        IF i = n THEN 1
        ELSE LET known == {a \in g.args[i] : Abs(a) \in above \cup {n}}
                 Of(sign) == Cardinality({a \in known : state[Abs(a)] = IF a > 0 THEN sign ELSE -sign})
             IN State(g.type[i], g.min[i], Cardinality(g.args[i]), Of(1), Of(-1))
  IN state

(* CollectStateDestinations, from the module down as far as the state does *)
(* not decide.                                                             *)
RECURSIVE Undecided(_, _, _)
Undecided(g, state, S) ==
  LET next == S \cup {a \in UNION {{Abs(b) : b \in g.args[i]} : i \in S} :
                        a \in DOMAIN state /\ state[a] = 0}
  IN IF next = S THEN S ELSE Undecided(g, state, next)

Decided(g, n, state, i) ==
  {a \in {Abs(b) : b \in g.args[i]} : a \in DOMAIN state \ {n} /\ state[a] /= 0}

(* CollectRedundantParents: a destination that has the node already stays, *)
(* and is no destination.                                                  *)
Destined(state) == IF state = 1 THEN "or" ELSE "and"

Collides(g, n, state, p) ==
  g.type[p] = Destined(state[p]) /\ Place(g, n, p) = state[p] * n

(* What the failure of a node tells: where to and who needs it no more.    *)
Propagation_(g, n) ==
  LET above == AncestorsOf(g, n)
      module == Only(above \cap g.module)
      state == States(g, n, above)
      passed == IF state[module] = 0 THEN Undecided(g, state, {module}) ELSE {}
      decided == IF state[module] = 0 THEN UNION {Decided(g, n, state, i) : i \in passed} ELSE {module}
      number == IF state[module] /= 0 THEN 1
                ELSE FoldSet(LAMBDA i, k : k + Cardinality(Decided(g, n, state, i)), 0, passed)
      total == FoldSet(LAMBDA i, k : k + Cardinality(g.parents[i]), Cardinality(g.parents[n]),
                       {i \in above : state[i] /= 0 /\ Cardinality(g.parents[i]) > 1})
      colliding == {p \in g.parents[n] \cap decided : Collides(g, n, state, p)}
      redundant == g.parents[n] \ (passed \cup colliding)
  IN [node |-> n, module |-> module, state |-> state,
      redundant |-> IF number > 0 /\ number < total THEN redundant ELSE {},
      destinations |-> decided \ colliding]

-----------------------------------------------------------------------------
(* ProcessCommonNode.                                                      *)
ProcessCommonNode ==
  /\ At("optimize", "") /\ Left /= {}
  /\ LET n == NextCommon
         found == Propagation_(graph, n)
     IN /\ todo' = todo \ {n}
        /\ IF ~IsCommon(n) \/ found.redundant = {}
           THEN UNCHANGED <<step, memo, held>>
           ELSE /\ step' = "redundant"
                /\ memo' = found
                /\ held' = {n, found.module} \cap Living(graph)
  /\ UNCHANGED <<model_vars, graph, plan, null_vars>>

(* Gate::ProcessConstantArg.                                               *)
ConstantArg(g, p, n, state) ==
  LET place == Place(g, n, p)
      erased == EraseArg(g, p, place)
  IN IF state /= (place < 0) THEN AddTrue(erased, p) ELSE AddFalse(erased, p)

(* A redundant parent sees a node that never fails.                        *)
ProcessRedundantParent ==
  /\ At("optimize", "redundant") /\ memo.redundant \cap Living(graph) /= {}
  /\ LET p == First(memo.redundant \cap Living(graph))
     IN /\ graph' = Held(ConstantArg(graph, p, memo.node, FALSE), held)
        /\ memo' = [memo EXCEPT !.redundant = @ \ {p}]
  /\ UNCHANGED <<model_vars, plan, step, todo, held, null_vars>>

Targets == memo.destinations \cap Living(graph)

(* ProcessStateDestinations: the node joins a gate that it decides.        *)
Joins(g, n, target) == AddArg(g, target, memo.state[target] * n)

(* Or the two join a new gate in the place of the old one.                 *)
Above(g, n, target) ==
  LET new == Next_(g)
      made == Inserted(Created(g, Destined(memo.state[target]), 0), new, memo.state[target] * n)
      Place_(a) == IF Abs(a) = target THEN Signed(a < 0, new) ELSE a
      moved == [made EXCEPT
        !.module = IF target \in @ THEN (@ \ {target}) \cup {new} ELSE @,
        !.root = IF @ = target THEN new ELSE @,
        !.args = [i \in DOMAIN @ |-> {Place_(a) : a \in @[i]}],
        !.parents[new] = made.parents[target],
        !.parents[target] = {}]
  IN Inserted(moved, new, target)

ProcessStateDestination ==
  /\ At("optimize", "redundant") /\ memo.redundant \cap Living(graph) = {} /\ Targets /= {}
  /\ LET target == First(Targets)
         reused == graph.type[target] = Destined(memo.state[target])
     IN /\ graph' = Held(IF reused THEN Joins(graph, memo.node, target)
                                   ELSE Above(graph, memo.node, target), held)
        /\ memo' = [memo EXCEPT !.destinations = @ \ {target}]
  /\ UNCHANGED <<model_vars, plan, step, todo, held, null_vars>>

CommonNodeProcessed ==
  /\ At("optimize", "redundant") /\ memo.redundant \cap Living(graph) = {} /\ Targets = {}
  /\ Interrupted
  /\ memo' = <<>>
  /\ UNCHANGED <<model_vars, graph, todo, held, null_vars>>

Optimized ==
  /\ At("optimize", "") /\ Left = {}
  /\ ContinueWith(<<>>)
  /\ UNCHANGED <<model_vars, graph, null_vars>>

OptimizationStep ==
  \/ BooleanOptimization \/ ProcessCommonNode \/ ProcessRedundantParent
  \/ ProcessStateDestination \/ CommonNodeProcessed \/ Optimized

-----------------------------------------------------------------------------
DecomposeCommonNodes ==
  /\ At("time visits", "")
  /\ plan' = Tail(plan)
  /\ todo' = CommonNodes
  /\ memo' = [visits |-> AssignTiming(graph)]
  /\ UNCHANGED <<model_vars, graph, step, held, null_vars>>

(* MarkDestinations: gates above the parents, up to the module.            *)
Descending(n) ==
  UNION {graph.parents[i] : i \in AncestorsOf(graph, n) \ graph.module}

Destinations(n) == {p \in graph.parents[n] \cap Descending(n) : graph.type[p] \in Grouping}

(* DecompositionProcessor.                                                 *)
ProcessNode ==
  /\ At("decompose", "") /\ Left /= {}
  /\ LET n == NextCommon
     IN /\ todo' = todo \ {n}
        /\ IF ~IsCommon(n) \/ Destinations(n) = {}
           THEN UNCHANGED <<step, memo, held>>
           ELSE /\ step' = "decomposing"
                /\ memo' = memo @@ [node |-> n, descending |-> Descending(n), state |-> FALSE,
                                    left |-> Destinations(n), marked |-> {}, frames |-> <<>>]
                /\ held' = {n} \cap Living(graph)
  /\ UNCHANGED <<model_vars, graph, plan, null_vars>>

Deciding(s) == At("decompose", "decomposing") /\ s = (memo.frames = <<>>)

Ancestry(i) == [gate |-> i, unseen |-> {Abs(a) : a \in GateArgs(graph', i)}]

Bottom == memo.frames[Len(memo.frames)].gate

(* A destination that is still there, and still has the node.              *)
IsDestination(p) == p \in Living(graph) /\ p \in graph.parents[memo.node]

ProcessDestination ==
  /\ Deciding(TRUE) /\ memo.left /= {}
  /\ LET p == First(memo.left)
         state == (graph.type[p] \in {"and", "nand"}) = (Place(graph, memo.node, p) > 0)
         rest == [memo EXCEPT !.left = @ \ {p}]
     IN /\ graph' = graph
        /\ memo' = IF IsDestination(p)
                   THEN [rest EXCEPT !.state = state, !.marked = {p}, !.frames = <<Ancestry(p)>>]
                   ELSE rest
  /\ UNCHANGED <<model_vars, plan, step, todo, held, null_vars>>

(* IsAncestryWithinGraph: all ways up lead to the root, by the times of the*)
(* pass; gates that came later have none.                                  *)
Timed(i, root) ==
  /\ {i, root} \subseteq DOMAIN memo.visits
  /\ EnterTime(memo.visits, i) > EnterTime(memo.visits, root)
  /\ LastVisit(memo.visits, i) < ExitTime(memo.visits, root)

(* Seeded defect: the gate is visited within the graph, whoever holds it.  *)
TimedWithin(i, root) == i = root \/ Timed(i, root)

RECURSIVE Within(_, _)
Within(i, root) == i = root \/ (Timed(i, root) /\ \A p \in graph.parents[i] : Within(p, root))

(* ProcessAncestors, one gate argument: a parent of the node that is within*)
(* the graph takes the constant.  Another is to be cloned, but the clone is*)
(* not used: no clone is a null gate (RegisterToClear).                    *)
ProcessAncestors ==
  /\ Deciding(FALSE) /\ Head(memo.frames).unseen /= {}
  /\ LET i == First(Head(memo.frames).unseen)
         within == Within(i, Bottom)
         seen == [memo EXCEPT !.frames[1].unseen = @ \ {i}]
         enters == i \in memo.descending \ memo.marked /\ within
     IN /\ graph' = IF i \in graph.parents[memo.node] /\ within
                    THEN Held(ConstantArg(graph, i, memo.node, memo.state), held \cup {Bottom})
                    ELSE graph
        /\ memo' = IF enters
                   THEN [seen EXCEPT !.marked = @ \cup {i}, !.frames = <<Ancestry(i)>> \o @]
                   ELSE seen
  /\ UNCHANGED <<model_vars, plan, step, todo, held, null_vars>>

(* All are seen: a gate that leads to the node no more loses its mark.     *)
LeaveAncestor ==
  /\ Deciding(FALSE) /\ Head(memo.frames).unseen = {}
  /\ LET i == Head(memo.frames).gate
         leads == \/ i \in graph.parents[memo.node]
                  \/ \E a \in GateArgs(graph, i) : Abs(a) \in memo.descending
     IN memo' = [memo EXCEPT !.frames = Tail(@),
                             !.descending = IF leads THEN @ ELSE @ \ {i}]
  /\ UNCHANGED <<model_vars, graph, plan, step, todo, held, null_vars>>

NodeDecomposed ==
  /\ Deciding(TRUE) /\ memo.left = {}
  /\ Interrupted
  /\ memo' = [visits |-> memo.visits]
  /\ UNCHANGED <<model_vars, graph, todo, held, null_vars>>

Decomposed ==
  /\ At("decompose", "") /\ Left = {}
  /\ ContinueWith(<<>>)
  /\ UNCHANGED <<model_vars, graph, null_vars>>

DecompositionStep ==
  \/ DecomposeCommonNodes \/ ProcessNode \/ ProcessDestination \/ ProcessAncestors
  \/ LeaveAncestor \/ NodeDecomposed \/ Decomposed
=============================================================================
