----------------------------- MODULE RiskAnalysis -----------------------------
(***************************************************************************)
(* The driver of all analyses (src/src/risk_analysis.cc): it runs the      *)
(* model once for every phase of every alignment.  A run changes the house *)
(* events and the mission time of the model and of the settings, the       *)
(* quantification of a target moves the mission time through its time      *)
(* steps (src/src/probability_analysis.cc), and the run hands the model    *)
(* back to the next one.                                                   *)
(***************************************************************************)
EXTENDS Naturals, Sequences

CONSTANTS
  HouseEvents,
  Phases,
  NoPhase,        \* the context of a run without alignments
  Instructions,   \* the set-house-event instructions of a phase, in order
  Fraction,       \* the part of the mission time a phase takes, ...
  Whole,          \* ... in units of 1/Whole
  EventTrees,     \* targets: sequences of event trees and ...
  TopEvents,      \* ... top events of fault trees
  Alignments,     \* the possible tables of alignments, as sets of phases
  Drivers,        \* "batch": one settings object; "gui": see Init
  MissionTimes,   \* the possible mission times and ...
  TimeSteps       \* ... time steps, 0 for none

Targets == EventTrees \cup TopEvents

ASSUME RiskAssumption ==
  /\ NoPhase \notin Phases
  /\ Instructions \in [Phases -> Seq([event : HouseEvents, state : BOOLEAN])]
  /\ Fraction \in [Phases -> 1..Whole] /\ Whole \in Nat \ {0}
  /\ EventTrees \cap TopEvents = {}
  /\ Alignments \subseteq SUBSET SUBSET Phases
  /\ MissionTimes \subseteq Nat /\ TimeSteps \subseteq Nat
  /\ Drivers \subseteq {"batch", "gui"}

VARIABLES
  house,         \* states of the house events
  missionTime,   \* the mission time of the model and ...
  settingsTime,  \* ... of the settings
  timeStep, probability,   \* settings
  driver,        \* the program that runs the analysis
  alignments, phases,      \* what the loops of Analyze have ahead
  context,       \* the phase of the run
  initTime,      \* captured by the restorator of the run
  saved,         \* house_events: the states the run has replaced, in order
  place,         \* the next instruction, the next saved state to restore
  targets,       \* targets the run has ahead
  target,        \* the target under quantification
  totalTime,     \* the end of the time steps
  varsTime,      \* the time the variable probabilities p_vars_ are for
  points,        \* the times of p_time_, in order
  results,       \* fault tree analyses: targets, contexts, house events
  quantities,    \* the rest: targets, contexts and times
  pc,
  given          \* the model as given: its house events and mission time

modelVars == <<house, missionTime, settingsTime>>
loopVars == <<alignments, phases, context>>
runVars == <<initTime, saved, place>>
targetVars == <<targets, target, totalTime, varsTime, points>>
resultVars == <<results, quantities>>
fixedVars == <<timeStep, probability, driver, given>>

vars == <<modelVars, loopVars, runVars, targetVars, resultVars, fixedVars, pc>>

-----------------------------------------------------------------------------
Contexts == Phases \cup {NoPhase}

(* Fractions of the mission times in use are whole (MissionTimes).         *)
PhaseTime(time, phase) ==
  IF phase = NoPhase THEN time ELSE (Fraction[phase] * time) \div Whole

(* The command line initializes the model with the settings it analyzes it *)
(* with.  The GUI loads a project's model with the settings before those   *)
(* of the project (MainWindow::setProjectFile), and its settings dialog    *)
(* does not reach the model.                                               *)
Init ==
  /\ house \in [HouseEvents -> BOOLEAN]
  /\ driver \in Drivers
  /\ missionTime \in MissionTimes
  /\ settingsTime \in IF driver = "gui" THEN MissionTimes ELSE {missionTime}
  /\ timeStep \in TimeSteps /\ probability \in BOOLEAN
  /\ alignments \in Alignments /\ phases = {} /\ context = NoPhase
  /\ initTime = missionTime /\ saved = <<>> /\ place = 1
  /\ targets = {} /\ target \in Targets
  /\ totalTime = missionTime /\ varsTime = missionTime /\ points = <<>>
  /\ results = {} /\ quantities = {}
  /\ pc = IF alignments = {} THEN "enter" ELSE "next"
  /\ given = [house |-> house, time |-> missionTime]

(* Seeded defect: the loop goes on before the phases are through.          *)
NextAlignmentEarly ==
  /\ pc = "next"
  /\ \E phaseTable \in alignments :
       /\ alignments' = alignments \ {phaseTable}
       /\ phases' = phaseTable
  /\ UNCHANGED <<modelVars, context, runVars, targetVars, resultVars, fixedVars, pc>>

(* The loops over the alignments and their phases, tables in no order.     *)
NextAlignment ==
  /\ pc = "next" /\ phases = {}
  /\ \E phaseTable \in alignments :
       /\ alignments' = alignments \ {phaseTable}
       /\ phases' = phaseTable
  /\ UNCHANGED <<modelVars, context, runVars, targetVars, resultVars, fixedVars, pc>>

NextPhase ==
  /\ pc = "next"
  /\ \E phase \in phases : phases' = phases \ {phase} /\ context' = phase
  /\ pc' = "enter"
  /\ UNCHANGED <<modelVars, alignments, runVars, targetVars, resultVars, fixedVars>>

(* Seeded defect: the settings keep the mission time of the model.         *)
EnterModel ==
  /\ pc = "enter"
  /\ initTime' = missionTime
  /\ missionTime' = PhaseTime(missionTime, context)
  /\ saved' = <<>> /\ place' = 1
  /\ pc' = "apply"
  /\ UNCHANGED <<house, settingsTime, loopVars, targetVars, resultVars, fixedVars>>

(* RunAnalysis: the restorator captures the mission time, which becomes    *)
(* that of the context.                                                    *)
Enter ==
  /\ pc = "enter"
  /\ initTime' = missionTime
  /\ missionTime' = PhaseTime(missionTime, context)
  /\ settingsTime' = IF context = NoPhase THEN settingsTime ELSE missionTime'
  /\ saved' = <<>> /\ place' = 1
  /\ pc' = "apply"
  /\ UNCHANGED <<house, loopVars, targetVars, resultVars, fixedVars>>

HasInstruction ==
  pc = "apply" /\ context /= NoPhase /\ place <= Len(Instructions[context])

(* Seeded defect: the state is read after it has been replaced.            *)
ApplySwapped ==
  /\ HasInstruction
  /\ LET instruction == Instructions[context][place] IN
       /\ house' = [house EXCEPT ![instruction.event] = instruction.state]
       /\ saved' = IF house[instruction.event] = instruction.state THEN saved
                   ELSE Append(saved, instruction)
  /\ place' = place + 1
  /\ UNCHANGED <<missionTime, settingsTime, loopVars, initTime, targetVars,
                 resultVars, fixedVars, pc>>

(* An instruction of the phase: a state that changes is saved first.       *)
Apply ==
  /\ HasInstruction
  /\ LET event == Instructions[context][place].event
         state == Instructions[context][place].state
     IN \/ /\ house[event] /= state
           /\ saved' = Append(saved, [event |-> event, state |-> house[event]])
           /\ house' = [house EXCEPT ![event] = state]
        \/ /\ house[event] = state
           /\ UNCHANGED <<saved, house>>
  /\ place' = place + 1
  /\ UNCHANGED <<missionTime, settingsTime, loopVars, initTime, targetVars,
                 resultVars, fixedVars, pc>>

Applied ==
  /\ pc = "apply" /\ ~HasInstruction
  /\ targets' = Targets
  /\ pc' = "targets"
  /\ UNCHANGED <<modelVars, loopVars, runVars, target, totalTime, varsTime,
                 points, resultVars, fixedVars>>

-----------------------------------------------------------------------------
(* Fault tree analysis of a target reads the house events; sequences come  *)
(* before top events, tables in no order.  The analyzer of probabilities   *)
(* copies the probabilities of the variables at the mission time.          *)
AnalyzeTarget ==
  /\ pc = "targets"
  /\ \E t \in targets :
       /\ t \in TopEvents => targets \cap EventTrees = {}
       /\ targets' = targets \ {t}
       /\ target' = t
       /\ results' = results \cup {[target |-> t, context |-> context, house |-> house]}
  /\ points' = <<>>
  /\ \/ /\ probability
        /\ totalTime' = missionTime /\ varsTime' = missionTime
        /\ pc' = "quantify"
     \/ /\ ~probability
        /\ UNCHANGED <<totalTime, varsTime, pc>>
  /\ UNCHANGED <<modelVars, loopVars, runVars, quantities, fixedVars>>

(* The next time of the loop of CalculateProbabilityOverTime.              *)
NextTime == IF points = <<>> THEN 0 ELSE points[Len(points)] + timeStep

(* Seeded defect: the loop includes its bound.                             *)
StepOver ==
  /\ pc = "quantify" /\ timeStep > 0
  /\ NextTime <= totalTime
  /\ missionTime' = NextTime /\ varsTime' = NextTime
  /\ points' = Append(points, NextTime)
  /\ UNCHANGED <<house, settingsTime, loopVars, runVars, targets, target, totalTime,
                 resultVars, fixedVars, pc>>

Step ==
  /\ pc = "quantify" /\ timeStep > 0
  /\ NextTime < totalTime
  /\ missionTime' = NextTime /\ varsTime' = NextTime
  /\ points' = Append(points, NextTime)
  /\ UNCHANGED <<house, settingsTime, loopVars, runVars, targets, target, totalTime,
                 resultVars, fixedVars, pc>>

(* The update after the loop, at the end of the mission.                   *)
LastStep ==
  /\ pc = "quantify" /\ timeStep > 0
  /\ NextTime >= totalTime
  /\ missionTime' = totalTime /\ varsTime' = totalTime
  /\ points' = Append(points, totalTime)
  /\ pc' = "conclude"
  /\ UNCHANGED <<house, settingsTime, loopVars, runVars, targets, target, totalTime,
                 resultVars, fixedVars>>

WithoutSteps ==
  /\ pc = "quantify" /\ timeStep = 0
  /\ pc' = "conclude"
  /\ UNCHANGED <<modelVars, loopVars, runVars, targetVars, resultVars, fixedVars>>

(* Importance and uncertainty analyses take the variable probabilities as  *)
(* the time steps have left them.                                          *)
Conclude ==
  /\ pc = "conclude"
  /\ quantities' = quantities \cup
       {[target |-> target, context |-> context, points |-> points, time |-> varsTime]}
  /\ pc' = "targets"
  /\ UNCHANGED <<modelVars, loopVars, runVars, targetVars, results, fixedVars>>

-----------------------------------------------------------------------------
(* The restorator at the end of the run: the mission time, then the house  *)
(* events in the order of their changes.                                   *)
Leave ==
  /\ pc = "targets" /\ targets = {}
  /\ missionTime' = initTime /\ settingsTime' = initTime
  /\ place' = 1
  /\ pc' = "restore"
  /\ UNCHANGED <<house, loopVars, initTime, saved, targetVars, resultVars, fixedVars>>

(* Seeded defect: one saved state is restored and the others are not.      *)
RestoreOne ==
  /\ pc = "restore" /\ place <= Len(saved)
  /\ house' = [house EXCEPT ![saved[place].event] = saved[place].state]
  /\ place' = Len(saved) + 1
  /\ UNCHANGED <<missionTime, settingsTime, loopVars, initTime, saved, targetVars,
                 resultVars, fixedVars, pc>>

Restore ==
  /\ pc = "restore" /\ place <= Len(saved)
  /\ house' = [house EXCEPT ![saved[place].event] = saved[place].state]
  /\ place' = place + 1
  /\ UNCHANGED <<missionTime, settingsTime, loopVars, initTime, saved, targetVars,
                 resultVars, fixedVars, pc>>

(* The run ends, and the analysis with the last run.                       *)
Return ==
  /\ pc = "restore" /\ place > Len(saved)
  /\ pc' = "next"
  /\ UNCHANGED <<modelVars, loopVars, runVars, targetVars, resultVars, fixedVars>>

Done ==
  /\ pc = "next" /\ phases = {} /\ alignments = {}
  /\ UNCHANGED vars

Next ==
  \/ NextAlignment \/ NextPhase \/ Enter \/ Apply \/ Applied
  \/ AnalyzeTarget \/ Step \/ LastStep \/ WithoutSteps \/ Conclude
  \/ Leave \/ Restore \/ Return \/ Done

Spec == Init /\ [][Next]_vars

-----------------------------------------------------------------------------
(* risk_analysis.h:118, 120, risk_analysis.cc:55: a run finds the model as *)
(* it was given and leaves it so, for all that the runs before it and its  *)
(* time steps have changed.                                                *)
Restored ==
  pc \in {"next", "enter"} => house = given.house /\ missionTime = given.time

(* The states of the house events in a phase of a model with the initial   *)
(* states: an event has the state of the last instruction for it, and      *)
(* without one its initial state.                                          *)
InContext(states, phase, initial) ==
  \A e \in HouseEvents :
    LET named == {k \in DOMAIN Instructions[phase] : Instructions[phase][k].event = e}
    IN IF phase = NoPhase \/ named = {}
       THEN states[e] = initial[e]
       ELSE \E k \in named :
              /\ \A j \in named : j <= k
              /\ states[e] = Instructions[phase][k].state

(* risk_analysis.cc:77-80: a result labelled with a phase has been         *)
(* computed with the house events of that phase and no others.             *)
ResultsInContext == \A r \in results : InContext(r.house, r.context, given.house)

(* risk_analysis.cc:66-69: importance and uncertainty are computed for the *)
(* end of the phase's own mission, although the time steps have moved the  *)
(* mission time in between.                                                *)
TimesInContext ==
  \A q \in quantities : q.time = PhaseTime(given.time, q.context)

(* risk_analysis.cc:65-82: nothing of one phase reaches the results of     *)
(* another.                                                                *)
ComputedInContext == ResultsInContext /\ TimesInContext

(* probability_analysis.cc:201, an assertion: the settings and the model   *)
(* agree on the mission time wherever the time steps start.                *)
TimesAgree ==
  pc = "quantify" /\ points = <<>> /\ timeStep > 0 => settingsTime = missionTime

(* The same of the command line, through all changes of phase.             *)
TimesAgreeInBatch == driver = "batch" => TimesAgree

(* The points of the probability over time ascend strictly from 0 to the   *)
(* end of the mission.                                                     *)
Ascend(times, end) ==
  /\ times[1] = 0 /\ times[Len(times)] = end
  /\ \A i \in 1..(Len(times) - 1) : times[i] < times[i + 1]

(* risk_analysis.cc:43-50, 84-120, probability_analysis.cc:98, 125: when   *)
(* the analysis is over, every target has been analyzed in every phase, or *)
(* once in a model without, over all of the mission time.                  *)
Complete ==
  LET run == {r.context : r \in results} IN
  pc = "next" /\ phases = {} /\ alignments = {} =>
    /\ \A c \in run : {r.target : r \in {x \in results : x.context = c}} = Targets
    /\ \E table \in Alignments :
         run = IF table = {} THEN {NoPhase} ELSE UNION table
    /\ probability => {<<r.target, r.context>> : r \in results}
                      = {<<q.target, q.context>> : q \in quantities}
    /\ \A q \in quantities : q.points /= <<>> => Ascend(q.points, q.time)
=============================================================================
