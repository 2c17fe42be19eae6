--------------------------------- MODULE Pdag ---------------------------------
(***************************************************************************)
(* The life of a PDAG (src/src/pdag.h, src/src/pdag.cc): it is constructed *)
(* from a model and rewritten pass by pass; between passes gates that only *)
(* pass their argument through are taken out, constants with them, and the *)
(* root is settled.  A gate lives as long as a parent, the root, or a call *)
(* under way holds it.                                                     *)
(***************************************************************************)
EXTENDS PdagConstruction

VARIABLES
  plan,           \* what is left to do, in order
  step,           \* where the work at the head of the plan is, "" at its start
  todo,           \* what that work has yet to visit
  memo,           \* what it has found
  held,           \* the gates that its locals hold
  pending,        \* what is left of the loop over null_gates_
  propagating,    \* the gates of the calls of PropagateNullGate, innermost first
  misjoined,      \* an at-least gate of two has met a duplicate (history)
  descending      \* which node comes first where the code's containers decide

model_vars == <<model, ccf, nodes, calls, descending>>

null_vars == <<pending, propagating, misjoined>>

pass_vars == <<step, todo, memo, held>>

vars == <<model_vars, graph, plan, pass_vars, null_vars>>

First(S) ==
  CHOOSE n \in S : \A o \in S : IF descending THEN Abs(n) >= Abs(o) ELSE Abs(n) <= Abs(o)

GateArgs(g, i) == {a \in g.args[i] : Abs(a) \in Living(g)}

(* What is left to visit of what is still there, and the gates whose gate  *)
(* arguments are done.                                                     *)
Left == todo \cap DOMAIN graph.parents

Ready == {i \in Left : \A a \in graph.args[i] : Abs(a) \notin todo}

At(work, s) == plan /= <<>> /\ Head(plan) = work /\ step = s

(* The work at the head of the plan is over; first something else.         *)
ContinueWith(first) ==
  /\ plan' = first \o Tail(plan)
  /\ step' = "" /\ todo' = {} /\ memo' = <<>> /\ held' = {}

(* The work at the head is interrupted by a removal of null gates; the     *)
(* gates its locals hold are there until the removal is over.              *)
Interrupted == plan' = <<"remove nulls">> \o plan /\ step' = ""

PdagInit ==
  /\ ConstructInit
  /\ plan = <<"construct">>
  /\ step = "" /\ todo = {} /\ memo = <<>> /\ held = {}
  /\ pending = <<>> /\ propagating = <<>>
  /\ misjoined = FALSE
  /\ descending \in BOOLEAN

ConstructGraph ==
  /\ At("construct", "")
  /\ Construct \/ ConstructGate \/ AddVariable \/ AddGate \/ AddHouseEvent \/ Return
  /\ UNCHANGED <<plan, pass_vars, null_vars, descending>>

-----------------------------------------------------------------------------
(* RemoveNullGates: gates that become null from now on are not registered, *)
(* for they are propagated at once.                                        *)
RemoveNullGates ==
  /\ At("remove nulls", "") /\ graph.nulls /= <<>>
  /\ pending' = graph.nulls
  /\ graph' = [graph EXCEPT !.registers = FALSE]
  /\ step' = "removing"
  /\ UNCHANGED <<model_vars, plan, todo, memo, held, propagating, misjoined>>

(* The next gate of the loop; one that has died is skipped.                *)
NextNull ==
  /\ At("remove nulls", "removing") /\ propagating = <<>> /\ pending /= <<>>
  /\ pending' = Tail(pending)
  /\ propagating' = IF Head(pending) \in Living(graph) THEN <<Head(pending)>> ELSE <<>>
  /\ UNCHANGED <<model_vars, graph, plan, pass_vars, misjoined>>

Null == Head(propagating)

(* Where a node is an argument of a parent: GetArgSign.                    *)
Place(g, n, p) == IF n \in g.args[p] THEN n ELSE -n

(* Seeded defect: a parent that becomes null is not propagated in turn.    *)
PropagatesNone(g, p) == FALSE

Propagates(g, p) == g.type[p] = "null"

MeetsItself(p, a) ==
  graph.type[p] = "atleast" /\ Cardinality(graph.args[p]) = 3 /\ a \in graph.args[p]

(* One round of PropagateNullGate: a parent takes the argument in the place*)
(* of the gate.                                                            *)
JoinParent ==
  /\ propagating /= <<>>
  /\ \E p \in graph.parents[Null] :
       LET joined == JoinNullGate(graph, p, Place(graph, Null, p))
           waiting == IF Propagates(joined, p) THEN <<p>> \o propagating ELSE propagating
       IN /\ graph' = Held(joined, ToSet(waiting) \cup held)
          /\ propagating' = waiting
          /\ misjoined' = (misjoined \/ MeetsItself(p, Passed(graph, Place(graph, Null, p))))
  /\ UNCHANGED <<model_vars, plan, pass_vars, pending>>

(* No parent is left: the call returns and lets the gate go.               *)
Propagated ==
  /\ propagating /= <<>> /\ graph.parents[Null] = {}
  /\ propagating' = Tail(propagating)
  /\ graph' = Held(graph, ToSet(Tail(propagating)) \cup held)
  /\ UNCHANGED <<model_vars, plan, pass_vars, pending, misjoined>>

(* The loop is over, and the work that asked for it goes on.               *)
Removed ==
  /\ \/ At("remove nulls", "") /\ graph.nulls = <<>>
     \/ At("remove nulls", "removing") /\ propagating = <<>> /\ pending = <<>>
  /\ graph' = Held([graph EXCEPT !.nulls = <<>>, !.registers = TRUE], {})
  /\ plan' = Tail(plan) /\ step' = "" /\ held' = {}
  /\ UNCHANGED <<model_vars, todo, memo, null_vars>>

-----------------------------------------------------------------------------
RootIsNull(g) == g.type[g.root] = "null"

RootArg(g) == Only(g.args[g.root])

(* What IsTrivial answers for its readers.                                 *)
Trivial(g) == RootIsNull(g) /\ Abs(RootArg(g)) \notin Living(g)

(* IsTrivial: a gate below a null root becomes the root.  The root of a    *)
(* trivial graph takes the complement.                                     *)
Settled(g) ==
  CASE RootIsNull(g) /\ ~Trivial(g) ->
         [g EXCEPT !.root = Abs(RootArg(g)), !.complement = @ /= (RootArg(g) < 0)]
    [] Trivial(g) /\ g.complement ->
         [NegateArgs(g, g.root) EXCEPT !.complement = FALSE]
    [] OTHER -> g

(* The null root is to be the only one.  Nothing is done to a trivial graph*)
(* any more.                                                               *)
IsTrivial ==
  /\ At("settle", "")
  /\ IF RootIsNull(graph) /\ graph.nulls /= <<>>
     THEN Interrupted /\ UNCHANGED graph
     ELSE /\ graph' = Held(Settled(graph), {})
          /\ plan' = IF Trivial(graph) THEN <<>> ELSE Tail(plan)
          /\ UNCHANGED step
  /\ UNCHANGED <<model_vars, todo, memo, held, null_vars>>

NullStep == RemoveNullGates \/ NextNull \/ JoinParent \/ Propagated \/ Removed \/ IsTrivial
=============================================================================
