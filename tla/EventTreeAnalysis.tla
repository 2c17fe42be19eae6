-------------------------- MODULE EventTreeAnalysis --------------------------
(***************************************************************************)
(* Event tree analysis (src/src/event_tree_analysis.cc) as part of a run   *)
(* of the driver: for each initiating event the walk of its event tree     *)
(* collects formulas on the paths to sequences, and the gates made of them *)
(* are the targets.  The walk is a stack of collectors.                    *)
(*                                                                         *)
(* A branch is a record of instructions and a target: a fork on the states *)
(* of a functional event, another branch, or a sequence.  Instructions set *)
(* house events, collect a formula, depend on a test, or link to another   *)
(* event tree, which they do in sequences only.                            *)
(***************************************************************************)
EXTENDS RiskAnalysis, TLC

CONSTANTS
  BasicEvents,
  TreeOf,       \* the event trees of the initiating events
  Forests,      \* records of trees, their initial states by name, and of ...
                \* ... sequences, their instructions
  NoEvent

VARIABLES
  forest,
  ahead,               \* initiating events the run has ahead
  initiating,          \* the one under analysis, ...
  functionalEvents,    \* ... which with these is the context of tests
  collectors,          \* the walk, innermost first
  sequences            \* the paths to sequences of the initiating event

walkVars == <<ahead, initiating, functionalEvents, collectors, sequences>>

treeVars == <<forest, walkVars>>

-----------------------------------------------------------------------------
(* PathCollector, and a collector that starts a branch.  hidden are the    *)
(* functional events that a link under way puts aside.                     *)
NoPath == [formulas |-> <<>>, states |-> <<>>]

Collector(branch, path) ==
  [todo |-> branch.instructions, target |-> branch.target, path |-> path,
   linked |-> FALSE, hidden |-> <<>>]

(* Seeded defect: the formula keeps the house event, whatever the path has *)
(* made of it.                                                             *)
Kept(formula, states) == [basic |-> formula.basic, house |-> formula.house, clone |-> <<>>]

(* Clone: a house event with another state than it has now gives way to a  *)
(* constant; the others stay references.                                   *)
Cloned(formula, states) ==
  [basic |-> formula.basic, house |-> formula.house,
   clone |-> IF formula.house \in DOMAIN states /\ states[formula.house] /= house[formula.house]
             THEN <<states[formula.house]>> ELSE <<>>]

(* TestInitiatingEvent, TestFunctionalEvent; none fails outside the fork.  *)
Passes(test) ==
  IF test.kind = "initiating" THEN test.event = initiating
  ELSE test.event \in DOMAIN functionalEvents /\ functionalEvents[test.event] = test.state

-----------------------------------------------------------------------------
Current == Head(collectors)

Instruction == Head(Current.todo)

Follows(kind) ==
  /\ pc = "targets" /\ collectors /= <<>> /\ Current.hidden = <<>>
  /\ Current.todo /= <<>> /\ Instruction.kind = kind
  /\ UNCHANGED <<vars, forest, ahead, initiating, sequences>>

Goes(collector) == <<collector>> \o Tail(collectors)

Read == [Current EXCEPT !.todo = Tail(@)]

VisitSetHouseEvent ==
  /\ Follows("set")
  /\ collectors' = Goes([Read EXCEPT !.path.states = (Instruction.event :> Instruction.state) @@ @])
  /\ UNCHANGED functionalEvents

VisitCollectFormula ==
  /\ Follows("collect")
  /\ collectors' = Goes([Read EXCEPT !.path.formulas =
                           Append(@, Cloned(Instruction.formula, Current.path.states))])
  /\ UNCHANGED functionalEvents

VisitIfThenElse ==
  /\ Follows("test")
  /\ collectors' = Goes([Read EXCEPT !.todo =
                           (IF Passes(Instruction.test) THEN Instruction.then ELSE Instruction.else) \o @])
  /\ UNCHANGED functionalEvents

(* Seeded defect: the linked tree sees the functional events of this one.  *)
VisitLinkOpenly ==
  /\ Follows("link")
  /\ collectors' = <<Collector(forest.trees[Instruction.tree], Current.path)>>
                   \o Goes([Read EXCEPT !.linked = TRUE, !.hidden = <<functionalEvents>>])
  /\ UNCHANGED functionalEvents

(* The linked tree goes on with a copy of the path, and without the        *)
(* functional events of this tree.                                         *)
VisitLink ==
  /\ Follows("link")
  /\ collectors' = <<Collector(forest.trees[Instruction.tree], Current.path)>>
                   \o Goes([Read EXCEPT !.linked = TRUE, !.hidden = <<functionalEvents>>])
  /\ functionalEvents' = <<>>

ReturnFromLink ==
  /\ pc = "targets" /\ collectors /= <<>> /\ Current.hidden /= <<>>
  /\ functionalEvents' = Current.hidden[1]
  /\ collectors' = Goes([Current EXCEPT !.hidden = <<>>])
  /\ UNCHANGED <<vars, forest, ahead, initiating, sequences>>

-----------------------------------------------------------------------------
Reaches(kind) ==
  /\ pc = "targets" /\ collectors /= <<>> /\ Current.hidden = <<>>
  /\ Current.todo = <<>> /\ Current.target.kind = kind
  /\ UNCHANGED <<vars, forest, ahead, initiating>>

(* The same collector goes on in a named branch and in a sequence.         *)
EnterBranch ==
  /\ Reaches("branch")
  /\ LET branch == Current.target.branch
     IN collectors' = Goes([Current EXCEPT !.todo = branch.instructions, !.target = branch.target])
  /\ UNCHANGED <<functionalEvents, sequences>>

EnterSequence ==
  /\ Reaches("sequence")
  /\ collectors' = Goes([Current EXCEPT !.todo = forest.sequences[Current.target.name],
                                        !.target = [@ EXCEPT !.kind = "end"]])
  /\ UNCHANGED <<functionalEvents, sequences>>

(* A sequence with a link is no end.                                       *)
RegisterSequence ==
  /\ Reaches("end")
  /\ LET name == Current.target.name
         known == IF name \in DOMAIN sequences THEN sequences[name] ELSE <<>>
     IN sequences' = IF Current.linked THEN sequences
                     ELSE (name :> Append(known, Current.path)) @@ sequences
  /\ collectors' = Tail(collectors)
  /\ UNCHANGED functionalEvents

(* A fork: each path with a copy of the collector, in the state of the     *)
(* path.                                                                   *)
EnterPath ==
  /\ Reaches("fork") /\ Current.target.paths /= <<>>
  /\ LET path == Head(Current.target.paths)
     IN /\ functionalEvents' = (Current.target.event :> path.state) @@ functionalEvents
        /\ collectors' = <<Collector(path.branch, Current.path)>>
                         \o Goes([Current EXCEPT !.target.paths = Tail(@)])
  /\ UNCHANGED sequences

LeaveFork ==
  /\ Reaches("fork") /\ Current.target.paths = <<>>
  /\ functionalEvents' =
       [e \in DOMAIN functionalEvents \ {Current.target.event} |-> functionalEvents[e]]
  /\ collectors' = Tail(collectors)
  /\ UNCHANGED sequences

-----------------------------------------------------------------------------
(* The run takes up the next initiating event when the sequences of the    *)
(* last one are analyzed.                                                  *)
CollectSequences ==
  /\ pc = "targets" /\ collectors = <<>>
  /\ ~\E t \in targets \cap EventTrees : t[1] = initiating
  /\ \E event \in ahead :
       /\ ahead' = ahead \ {event}
       /\ initiating' = event
       /\ collectors' = <<Collector(forest.trees[TreeOf[event]], NoPath)>>
  /\ functionalEvents' = <<>>
  /\ sequences' = <<>>
  /\ UNCHANGED <<vars, forest>>

AnalyzeSequence ==
  /\ collectors = <<>>
  /\ AnalyzeTarget
  /\ target' \in EventTrees => target'[1] = initiating /\ target'[2] \in DOMAIN sequences
  /\ UNCHANGED treeVars

StartRun ==
  /\ Applied
  /\ ahead' = DOMAIN TreeOf /\ initiating' = NoEvent
  /\ UNCHANGED <<forest, functionalEvents, collectors, sequences>>

Drive ==
  /\ \/ NextAlignment \/ NextPhase \/ Enter \/ Apply \/ Step \/ LastStep \/ WithoutSteps
     \/ Conclude \/ Leave \/ Restore \/ Return \/ Done
  /\ UNCHANGED treeVars

TreesInit ==
  /\ Init
  /\ forest \in Forests
  /\ ahead = {} /\ initiating = NoEvent
  /\ functionalEvents = <<>> /\ collectors = <<>> /\ sequences = <<>>

TreesNext ==
  \/ VisitSetHouseEvent \/ VisitCollectFormula \/ VisitIfThenElse \/ VisitLink \/ ReturnFromLink
  \/ EnterBranch \/ EnterSequence \/ RegisterSequence \/ EnterPath \/ LeaveFork
  \/ CollectSequences \/ AnalyzeSequence \/ StartRun \/ Drive

TreesSpec == TreesInit /\ [][TreesNext]_<<vars, treeVars>>

-----------------------------------------------------------------------------
(* The gate of a sequence: any of its paths, all formulas of the path.     *)
(* Paths without formulas add nothing to it, unless all are such.          *)
FormulaHappens(formula, true) ==
  /\ formula.basic \in true
  /\ IF formula.clone = <<>> THEN house[formula.house] ELSE formula.clone[1]

GateHappens(paths, true) ==
  LET collecting == {i \in DOMAIN paths : paths[i].formulas /= <<>>}
  IN \/ collecting = {}
     \/ \E i \in collecting : \A j \in DOMAIN paths[i].formulas :
          FormulaHappens(paths[i].formulas[j], true)
=============================================================================
