---------------------------- MODULE CycleDetection ----------------------------
(***************************************************************************)
(* The check for cycles in gates, parameters, branches, rules and links    *)
(* (src/src/cycle.h, src/src/cycle.cc).  The check is one template: it     *)
(* differs in the nodes it is given and in the order in which the          *)
(* connectors of a node yield the nodes at their other ends.               *)
(***************************************************************************)
EXTENDS Naturals, Sequences

CONSTANTS
  Nodes,     \* the nodes of the container
  Graphs     \* arguments of the nodes: what their connectors yield, in order

ASSUME GraphsAssumption == Graphs \subseteq [Nodes -> Seq(Nodes)]

VARIABLES
  args,      \* the graph under investigation
  mark,      \* the marks of the nodes
  stack,     \* the calls of DetectCycle: their nodes and the next arguments
  untried,   \* the nodes of the container the loop of CheckCycle has ahead
  cycle,     \* the report, in reverse
  phase      \* "search", "report" (returning TRUE), "cycle", "acyclic"

vars == <<args, mark, stack, untried, cycle, phase>>

-----------------------------------------------------------------------------
Top == stack[Len(stack)]

Calls == [node : Nodes, next : Nat \ {0}]

Call(n) == [node |-> n, next |-> 1]

(* The loop of the top call goes on with its next argument.                *)
Advanced(calls) ==
  IF calls = <<>> THEN calls ELSE [calls EXCEPT ![Len(calls)].next = @ + 1]

Popped == SubSeq(stack, 1, Len(stack) - 1)

Init ==
  /\ args \in Graphs
  /\ mark = [n \in Nodes |-> "clear"]
  /\ stack = <<>>
  /\ untried = Nodes
  /\ cycle = <<>>
  /\ phase = "search"

(* DetectCycle on the next node of the container.  No call is under way,   *)
(* so that no mark is temporary (MarksOnStack).                            *)
CheckCycle ==
  /\ phase = "search" /\ stack = <<>>
  /\ \E n \in untried :
       /\ untried' = untried \ {n}
       /\ \/ /\ mark[n] = "clear"
             /\ mark' = [mark EXCEPT ![n] = "temporary"]
             /\ stack' = <<Call(n)>>
          \/ /\ mark[n] = "permanent"
             /\ UNCHANGED <<mark, stack>>
  /\ UNCHANGED <<args, cycle, phase>>

(* Seeded defect: a node with a temporary mark counts as visited.          *)
ContinueBlind ==
  /\ phase = "search" /\ stack /= <<>>
  /\ Top.next <= Len(args[Top.node])
  /\ LET n == args[Top.node][Top.next] IN
     \/ /\ mark[n] = "clear"
        /\ mark' = [mark EXCEPT ![n] = "temporary"]
        /\ stack' = Append(stack, Call(n))
     \/ /\ mark[n] /= "clear"
        /\ stack' = Advanced(stack)
        /\ UNCHANGED mark
  /\ UNCHANGED <<args, untried, cycle, phase>>

(* Seeded defect: the loop does not go on after a visited node.            *)
ContinueStuck ==
  /\ phase = "search" /\ stack /= <<>>
  /\ Top.next <= Len(args[Top.node])
  /\ LET n == args[Top.node][Top.next] IN
     \/ /\ mark[n] = "clear"
        /\ mark' = [mark EXCEPT ![n] = "temporary"]
        /\ stack' = Append(stack, Call(n))
        /\ UNCHANGED <<cycle, phase>>
     \/ /\ mark[n] = "temporary"
        /\ cycle' = <<n>>
        /\ phase' = "report"
        /\ UNCHANGED <<mark, stack>>
     \/ /\ mark[n] = "permanent"
        /\ UNCHANGED <<mark, stack, cycle, phase>>
  /\ UNCHANGED <<args, untried>>

(* DetectCycle on the next argument of the top call: into a clear node,    *)
(* past a permanent one, and a temporary one closes a cycle.               *)
ContinueConnector ==
  /\ phase = "search" /\ stack /= <<>>
  /\ Top.next <= Len(args[Top.node])
  /\ LET n == args[Top.node][Top.next] IN
     \/ /\ mark[n] = "clear"
        /\ mark' = [mark EXCEPT ![n] = "temporary"]
        /\ stack' = Append(stack, Call(n))
        /\ UNCHANGED <<cycle, phase>>
     \/ /\ mark[n] = "temporary"
        /\ cycle' = <<n>>
        /\ phase' = "report"
        /\ UNCHANGED <<mark, stack>>
     \/ /\ mark[n] = "permanent"
        /\ stack' = Advanced(stack)
        /\ UNCHANGED <<mark, cycle, phase>>
  /\ UNCHANGED <<args, untried>>

(* Seeded defect: the mark stays temporary.                                *)
ReturnUnmarked ==
  /\ phase = "search" /\ stack /= <<>>
  /\ Top.next > Len(args[Top.node])
  /\ stack' = Advanced(Popped)
  /\ UNCHANGED <<args, mark, untried, cycle, phase>>

(* The top call returns FALSE.                                             *)
Return ==
  /\ phase = "search" /\ stack /= <<>>
  /\ Top.next > Len(args[Top.node])
  /\ mark' = [mark EXCEPT ![Top.node] = "permanent"]
  /\ stack' = Advanced(Popped)
  /\ UNCHANGED <<args, untried, cycle, phase>>

(* Seeded defect: every call on the way out adds its node.                 *)
ReportWhole ==
  /\ phase = "report" /\ stack /= <<>>
  /\ cycle' = Append(cycle, Top.node)
  /\ stack' = Popped
  /\ UNCHANGED <<args, mark, untried, phase>>

(* The top call returns TRUE; it adds its node unless the cycle is closed. *)
Report ==
  /\ phase = "report" /\ stack /= <<>>
  /\ cycle' = IF Len(cycle) = 1 \/ cycle[Len(cycle)] /= cycle[1]
              THEN Append(cycle, Top.node)
              ELSE cycle
  /\ stack' = Popped
  /\ UNCHANGED <<args, mark, untried, phase>>

Throw ==
  /\ phase = "report" /\ stack = <<>>
  /\ phase' = "cycle"
  /\ UNCHANGED <<args, mark, stack, untried, cycle>>

Accept ==
  /\ phase = "search" /\ stack = <<>> /\ untried = {}
  /\ phase' = "acyclic"
  /\ UNCHANGED <<args, mark, stack, untried, cycle>>

Ended == phase \in {"cycle", "acyclic"} /\ UNCHANGED vars

Next ==
  \/ CheckCycle \/ ContinueConnector \/ Return \/ Report \/ Throw \/ Accept
  \/ Ended

(* The check runs in one thread that is never held up.                     *)
Spec == Init /\ [][Next]_vars /\ WF_vars(Next)

-----------------------------------------------------------------------------
Arguments(n) == {args[n][i] : i \in DOMAIN args[n]}

Permanent == {n \in Nodes : mark[n] = "permanent"}

(* No cycle within a set: each of its parts has a node without arguments   *)
(* in that part.                                                           *)
Acyclic(set) ==
  \A part \in (SUBSET set) \ {{}} : \E n \in part : Arguments(n) \cap part = {}

(* A path against the arguments that ends where it starts and passes no    *)
(* other node twice.                                                       *)
IsCycle(path) ==
  /\ Len(path) > 1 /\ path[1] = path[Len(path)]
  /\ \A i \in 1..(Len(path) - 1) : path[i] \in Arguments(path[i + 1])
  /\ \A i, j \in 1..(Len(path) - 1) : path[i] = path[j] => i = j

(* The types of a search; a call is at an argument of its node or past     *)
(* all of them.                                                            *)
TypeOK ==
  /\ args \in Graphs
  /\ mark \in [Nodes -> {"clear", "temporary", "permanent"}]
  /\ stack \in Seq(Calls)
  /\ \A i \in DOMAIN stack : stack[i].next <= Len(args[stack[i].node]) + 1
  /\ untried \subseteq Nodes
  /\ cycle \in Seq(Nodes)
  /\ phase \in {"search", "report", "cycle", "acyclic"}

(* cycle.h:131-147: while the search goes on, the temporary marks are      *)
(* those of the calls under way, no node being in two, so that a           *)
(* temporary mark met again is a cycle and nothing else is.                *)
MarksOnStack ==
  phase = "search" =>
    /\ \A n \in Nodes :
         mark[n] = "temporary" <=> \E i \in DOMAIN stack : stack[i].node = n
    /\ \A i, j \in DOMAIN stack : stack[i].node = stack[j].node => i = j

(* initializer.cc:1384, cycle.h:215: a container that CheckCycle lets pass *)
(* has no cycle.                                                           *)
AcceptsOnlyAcyclic == phase = "acyclic" => Acyclic(Nodes)

(* cycle.h:126, 198: what is thrown is a cycle of the graph in reverse,    *)
(* closed, that passes no other node twice; so no graph without a cycle is *)
(* refused.                                                                *)
ReportsACycle == phase = "cycle" => IsCycle(cycle)
=============================================================================
