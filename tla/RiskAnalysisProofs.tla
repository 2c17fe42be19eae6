-------------------------- MODULE RiskAnalysisProofs --------------------------
(***************************************************************************)
(* The driver of the analyses hands the model back and computes every      *)
(* result in its own phase, for all models in which no phase sets a house  *)
(* event to two states: with such a phase the driver does not.             *)
(***************************************************************************)
EXTENDS EventTreeAnalysis, SequenceTheorems, TLAPS

(* The instructions of a phase for one house event are the same.           *)
Agreeable ==
  \A phase \in Phases : \A j, k \in DOMAIN Instructions[phase] :
    Instructions[phase][j].event = Instructions[phase][k].event
      => Instructions[phase][j].state = Instructions[phase][k].state

Entries == [event : HouseEvents, state : BOOLEAN]

InRun == {"apply", "targets", "quantify", "conclude"}

Types ==
  /\ house \in [HouseEvents -> BOOLEAN]
  /\ alignments \subseteq SUBSET Phases /\ phases \subseteq Phases
  /\ context \in Contexts
  /\ saved \in Seq(Entries) /\ place \in Nat \ {0}
  /\ pc \in InRun \cup {"next", "enter", "restore"}
  /\ given.house \in [HouseEvents -> BOOLEAN]

(* What has been saved are the states the model was given with.            *)
SavedGiven ==
  pc \in InRun \cup {"restore"} =>
    /\ initTime = given.time
    /\ \A k \in 1..Len(saved) : saved[k].state = given.house[saved[k].event]

(* Whatever differs from the model as given has been saved ...             *)
ChangesSaved ==
  pc \in InRun =>
    \A e \in HouseEvents :
      house[e] /= given.house[e] => \E k \in 1..Len(saved) : saved[k].event = e

(* ... and is still to be restored.                                        *)
ChangesAhead ==
  pc = "restore" =>
    /\ missionTime = given.time
    /\ \A e \in HouseEvents :
         house[e] /= given.house[e] => \E k \in place..Len(saved) : saved[k].event = e

(* The instructions for an event the run has behind it.                    *)
Before(e) ==
  {k \in DOMAIN Instructions[context] : k < place /\ Instructions[context][k].event = e}

AppliedBefore ==
  pc = "apply" =>
    \A e \in HouseEvents :
      IF context = NoPhase \/ Before(e) = {}
      THEN house[e] = given.house[e]
      ELSE \E k \in Before(e) :
             /\ \A j \in Before(e) : j <= k
             /\ house[e] = Instructions[context][k].state

HouseInContext ==
  pc \in {"targets", "quantify", "conclude"} => InContext(house, context, given.house)

TimeInContext ==
  LET time == PhaseTime(given.time, context) IN
  /\ pc \in {"apply", "targets", "conclude"} => missionTime = time
  /\ pc = "quantify" =>
       /\ totalTime = time
       /\ timeStep = 0 => varsTime = time /\ missionTime = time
  /\ pc = "conclude" => varsTime = time

IInv ==
  /\ Types /\ Restored
  /\ SavedGiven /\ ChangesSaved /\ ChangesAhead
  /\ AppliedBefore /\ HouseInContext /\ TimeInContext
  /\ ResultsInContext /\ TimesInContext

(* How the sets of phases behind, under way and ahead take each other's    *)
(* place.                                                                  *)
LEMMA Rejoin ==
  ASSUME NEW A, NEW B, NEW C, NEW E, NEW d
  PROVE  /\ d \in A => A \cup B \cup C \cup {d} = A \cup B \cup C
         /\ A \subseteq E /\ E \subseteq A \cup {d}
              => E \cup B \cup C \cup {d} = A \cup B \cup C \cup {d}
         /\ B = E \cup {d} => A \cup E \cup C \cup {d} = A \cup B \cup C
  OBVIOUS

(* Mission times are natural numbers.                                      *)
LEMMA QuotientNat ==
  ASSUME NEW a \in Nat, NEW b \in Nat \ {0}
  PROVE  a \div b \in Nat
<1>1. a \div b \in Int /\ a % b \in 0..(b - 1) /\ a = b * (a \div b) + (a % b)
  OBVIOUS
<1>2. \A q \in Int : q < 0 => b * q <= -b
  OBVIOUS
<1> QED
  BY <1>1, <1>2

USE RiskAssumption

-----------------------------------------------------------------------------
(* The analysis starts with the model as given.                            *)
LEMMA InitIInv == Init => IInv
<1> SUFFICES ASSUME Init PROVE IInv
  OBVIOUS
<1>1. Types
  BY EmptySeq DEF Init, Types, Contexts, InRun
<1>2. pc \in {"next", "enter"} /\ house = given.house /\ missionTime = given.time
  BY DEF Init
<1>3. ResultsInContext /\ TimesInContext
  BY DEF Init, ResultsInContext, TimesInContext
<1> QED
  BY <1>1, <1>2, <1>3 DEF IInv, Restored, SavedGiven, ChangesSaved, ChangesAhead,
     AppliedBefore, HouseInContext, TimeInContext, InRun

(* Results stay in context while the model as given is not replaced.       *)
LEMMA SameResults ==
  ASSUME IInv, given' = given, UNCHANGED resultVars
  PROVE  ResultsInContext' /\ TimesInContext'
<1>1. results' = results /\ quantities' = quantities
  BY DEF resultVars
<1> QED
  BY <1>1 DEF IInv, ResultsInContext, TimesInContext

(* The loops over alignments and phases leave the model alone.             *)
LEMMA LoopStep ==
  ASSUME IInv, NextAlignment \/ NextPhase \/ Return
  PROVE  IInv'
<1>1. CASE NextAlignment
  <2>1. Types'
    BY <1>1 DEF NextAlignment, IInv, Types, modelVars, runVars, fixedVars
  <2> QED
    BY <1>1, <2>1, SameResults DEF NextAlignment, IInv, Restored, SavedGiven, ChangesSaved,
       ChangesAhead, AppliedBefore, HouseInContext, TimeInContext, InRun, modelVars,
       fixedVars
<1>2. CASE NextPhase
  <2>1. Types'
    BY <1>2 DEF NextPhase, IInv, Types, Contexts, modelVars, runVars, fixedVars, InRun
  <2> QED
    BY <1>2, <2>1, SameResults DEF NextPhase, IInv, Restored, SavedGiven, ChangesSaved,
       ChangesAhead, AppliedBefore, HouseInContext, TimeInContext, InRun, modelVars,
       fixedVars
<1>3. CASE Return
  <2>1. Types'
    BY <1>3 DEF Return, IInv, Types, modelVars, runVars, fixedVars, loopVars, InRun
  <2>2. pc = "restore" /\ place > Len(saved) /\ saved \in Seq(Entries) /\ place \in Nat
    BY <1>3 DEF Return, IInv, Types
  <2>3. \A k : k \notin place..Len(saved)
    BY <2>2, LenProperties
  <2>4. \A e \in HouseEvents : house[e] = given.house[e]
    BY <2>2, <2>3 DEF IInv, ChangesAhead
  <2>5. house = given.house /\ missionTime = given.time
    BY <2>2, <2>4 DEF IInv, Types, ChangesAhead
  <2> QED
    BY <1>3, <2>1, <2>5, SameResults DEF Return, IInv, Restored, SavedGiven, ChangesSaved,
       ChangesAhead, AppliedBefore, HouseInContext, TimeInContext, InRun, modelVars,
       fixedVars
<1> QED
  BY <1>1, <1>2, <1>3

(* A run captures the time of the model before it changes (risk_analysis.  *)
(* cc:57, 65-69).                                                          *)
LEMMA EnterStep == ASSUME IInv, Enter PROVE IInv'
<1>1. Types'
  BY EmptySeq DEF Enter, IInv, Types, loopVars, fixedVars, InRun
<1>2. /\ pc' = "apply" /\ house' = house /\ given' = given /\ context' = context
      /\ saved' = <<>> /\ place' = 1 /\ initTime' = missionTime
      /\ missionTime' = PhaseTime(missionTime, context)
      /\ house = given.house /\ missionTime = given.time
  BY DEF Enter, IInv, Restored, loopVars, fixedVars
<1>3. SavedGiven' /\ ChangesSaved'
  BY <1>2, EmptySeq DEF SavedGiven, ChangesSaved
<1>4. context' \in Phases => \A e : Before(e)' = {}
  <2> SUFFICES ASSUME context' \in Phases, NEW e, NEW k \in Before(e)' PROVE FALSE
    OBVIOUS
  <2>1. Instructions[context'] \in Seq(Entries)
    BY DEF Entries
  <2>2. k \in 1..Len(Instructions[context']) /\ k < 1
    BY <1>2, <2>1, LenProperties DEF Before
  <2> QED
    BY <2>1, <2>2, LenProperties
<1>5. AppliedBefore'
  BY <1>1, <1>2, <1>4 DEF AppliedBefore, Types, Contexts
<1>6. TimeInContext'
  BY <1>2 DEF TimeInContext, PhaseTime
<1> QED
  BY <1>1, <1>2, <1>3, <1>5, <1>6, SameResults DEF Enter, IInv, Restored, ChangesAhead,
     HouseInContext, InRun

(* An instruction saves a state only where none for the same event comes   *)
(* before it, since that would have set the same state.                    *)
LEMMA ApplyStep == ASSUME IInv, Agreeable, Apply PROVE IInv'
<1> DEFINE event == Instructions[context][place].event
           state == Instructions[context][place].state
<1>1. /\ pc = "apply" /\ pc' = pc /\ context \in Phases /\ context' = context
      /\ given' = given /\ place' = place + 1 /\ initTime' = initTime
      /\ missionTime' = missionTime /\ phases' = phases /\ alignments' = alignments
      /\ place \in DOMAIN Instructions[context] /\ place \in Nat \ {0}
  <2>1. pc = "apply" /\ context \in Phases /\ place <= Len(Instructions[context])
    BY DEF Apply, HasInstruction, IInv, Types, Contexts
  <2>2. Instructions[context] \in Seq(Entries) /\ place \in Nat \ {0}
    BY <2>1 DEF Entries, IInv, Types
  <2>3. place \in DOMAIN Instructions[context]
    BY <2>1, <2>2, LenProperties
  <2> QED
    BY <2>1, <2>2, <2>3 DEF Apply, loopVars, fixedVars
<1>2. event \in HouseEvents /\ state \in BOOLEAN
  <2>1. Instructions[context] \in Seq(Entries)
    BY <1>1 DEF Entries
  <2>2. Instructions[context][place] \in Entries
    BY <1>1, <2>1, ElementOfSeq, LenProperties
  <2> QED
    BY <2>2 DEF Entries
<1>3. /\ house \in [HouseEvents -> BOOLEAN] /\ saved \in Seq(Entries)
      /\ given.house \in [HouseEvents -> BOOLEAN]
  BY DEF IInv, Types
<1>4. house' = [house EXCEPT ![event] = state]
  BY <1>2, <1>3 DEF Apply
<1>5. house[event] /= state => house[event] = given.house[event]
  <2>1. \A k \in Before(event) : Instructions[context][k].state = state
    BY <1>1 DEF Before, Agreeable
  <2>2. Before(event) /= {} => house[event] = state
    BY <1>1, <1>2, <2>1 DEF IInv, AppliedBefore
  <2> QED
    BY <1>1, <1>2, <2>2 DEF IInv, AppliedBefore
<1>6. AppliedBefore'
  <2> SUFFICES ASSUME NEW e \in HouseEvents
               PROVE  IF context = NoPhase \/ Before(e)' = {}
                      THEN house'[e] = given.house[e]
                      ELSE \E k \in Before(e)' :
                             /\ \A j \in Before(e)' : j <= k
                             /\ house'[e] = Instructions[context][k].state
    BY <1>1 DEF AppliedBefore
  <2>1. DOMAIN Instructions[context] \subseteq Nat
    BY <1>1, LenProperties
  <2>2. CASE e = event
    <3>1. Before(e)' = Before(e) \cup {place}
      BY <1>1, <2>1, <2>2 DEF Before
    <3>2. \A j \in Before(e)' : j <= place
      BY <1>1, <2>1, <3>1 DEF Before
    <3> QED
      BY <1>1, <1>2, <1>3, <1>4, <2>2, <3>1, <3>2
  <2>3. CASE e /= event
    <3>1. Before(e)' = Before(e)
      BY <1>1, <2>1, <2>3 DEF Before
    <3>2. house'[e] = house[e]
      BY <1>2, <1>3, <1>4, <2>3
    <3> QED
      BY <1>1, <3>1, <3>2 DEF IInv, AppliedBefore
  <2> QED
    BY <2>2, <2>3
<1>7. TimeInContext' /\ Restored' /\ ChangesAhead' /\ HouseInContext'
  BY <1>1 DEF IInv, TimeInContext, Restored, ChangesAhead, HouseInContext
<1>8. ResultsInContext' /\ TimesInContext'
  BY <1>1, SameResults DEF Apply
<1>9. CASE house[event] = state
  <2>1. saved' = saved /\ house' = house
    BY <1>9 DEF Apply
  <2>2. Types'
    BY <1>1, <2>1 DEF IInv, Types
  <2>3. SavedGiven' /\ ChangesSaved'
    BY <1>1, <2>1 DEF IInv, SavedGiven, ChangesSaved, InRun
  <2> QED
    BY <1>6, <1>7, <1>8, <2>2, <2>3 DEF IInv
<1>10. CASE house[event] /= state
  <2> DEFINE entry == [event |-> event, state |-> house[event]]
             last == Len(saved)
  <2>1. saved' = Append(saved, entry) /\ entry \in Entries
    BY <1>2, <1>3, <1>10 DEF Apply, Entries
  <2>2. /\ saved' \in Seq(Entries) /\ Len(saved') = last + 1
        /\ \A k \in 1..last : saved'[k] = saved[k]
        /\ saved'[last + 1] = entry /\ last \in Nat
    BY <1>3, <2>1, AppendProperties, LenProperties
  <2>3. \A k \in 1..(last + 1) : k \in 1..last \/ k = last + 1
    BY <2>2
  <2>4. 1..last \subseteq 1..(last + 1) /\ last + 1 \in 1..(last + 1)
    BY <2>2
  <2>5. Types'
    BY <1>1, <1>2, <1>3, <1>4, <2>2 DEF IInv, Types, InRun
  <2>6. \A k \in 1..(last + 1) : saved'[k].state = given.house[saved'[k].event]
    <3>1. \A k \in 1..last : saved[k].state = given.house[saved[k].event]
      BY <1>1 DEF IInv, SavedGiven, InRun
    <3>2. entry.state = given.house[entry.event]
      BY <1>5, <1>10
    <3> QED
      BY <2>2, <2>3, <3>1, <3>2
  <2>7. ASSUME NEW e \in HouseEvents, house'[e] /= given.house[e]
        PROVE  \E k \in 1..(last + 1) : saved'[k].event = e
    <3>1. CASE e = event
      BY <2>2, <2>4, <3>1
    <3>2. CASE e /= event
      <4>1. house[e] /= given.house[e]
        BY <1>2, <1>3, <1>4, <2>7, <3>2
      <4>2. PICK k \in 1..last : saved[k].event = e
        BY <1>1, <4>1 DEF IInv, ChangesSaved, InRun
      <4> QED
        BY <2>2, <2>4, <4>2
    <3> QED
      BY <3>1, <3>2
  <2>8. SavedGiven' /\ ChangesSaved'
    BY <1>1, <2>2, <2>6, <2>7 DEF IInv, SavedGiven, ChangesSaved, InRun
  <2> QED
    BY <1>6, <1>7, <1>8, <2>5, <2>8 DEF IInv
<1> QED
  BY <1>9, <1>10

(* After the last instruction the house events are those of the phase.     *)
LEMMA AppliedStep == ASSUME IInv, Applied PROVE IInv'
<1>1. /\ pc = "apply" /\ pc' = "targets" /\ ~HasInstruction
      /\ house' = house /\ missionTime' = missionTime /\ given' = given
      /\ context' = context /\ saved' = saved /\ initTime' = initTime /\ place' = place
      /\ phases' = phases /\ alignments' = alignments
  BY DEF Applied, modelVars, loopVars, runVars, fixedVars
<1>2. Types'
  BY <1>1 DEF IInv, Types, InRun
<1>3. InContext(house, context, given.house)
  <2>1. CASE context = NoPhase
    BY <1>1, <2>1 DEF IInv, AppliedBefore, InContext
  <2>2. CASE context \in Phases
    <3>1. Instructions[context] \in Seq(Entries) /\ place \in Nat
      BY <2>2 DEF Entries, IInv, Types
    <3>2. place > Len(Instructions[context])
      BY <1>1, <2>2, <3>1, LenProperties DEF HasInstruction
    <3>3. \A k \in DOMAIN Instructions[context] : k < place
      BY <3>1, <3>2, LenProperties
    <3>4. \A e : Before(e) = {k \in DOMAIN Instructions[context] : Instructions[context][k].event = e}
      BY <3>3 DEF Before
    <3> QED
      BY <1>1, <2>2, <3>4 DEF IInv, AppliedBefore, InContext
  <2> QED
    BY <2>1, <2>2 DEF IInv, Types, Contexts
<1>4. HouseInContext'
  BY <1>1, <1>3 DEF HouseInContext
<1> QED
  BY <1>1, <1>2, <1>4, SameResults DEF Applied, IInv, Restored, SavedGiven, ChangesSaved,
     ChangesAhead, AppliedBefore, TimeInContext, InRun

(* A fault tree analysis reads the house events of the phase.              *)
LEMMA AnalyzeStep == ASSUME IInv, AnalyzeTarget PROVE IInv'
<1>1. /\ pc = "targets" /\ pc' \in {"targets", "quantify"}
      /\ house' = house /\ missionTime' = missionTime /\ given' = given
      /\ context' = context /\ saved' = saved /\ initTime' = initTime /\ place' = place
      /\ phases' = phases /\ alignments' = alignments /\ quantities' = quantities
      /\ pc' = "quantify" => totalTime' = missionTime /\ varsTime' = missionTime
  BY DEF AnalyzeTarget, modelVars, loopVars, runVars, fixedVars
<1>2. PICK t : results' = results \cup {[target |-> t, context |-> context, house |-> house]}
  BY DEF AnalyzeTarget
<1>3. InContext(house, context, given.house)
  BY <1>1 DEF IInv, HouseInContext
<1>4. ResultsInContext'
  BY <1>1, <1>2, <1>3 DEF IInv, ResultsInContext
<1>5. TimesInContext'
  BY <1>1 DEF IInv, TimesInContext
<1>6. TimeInContext'
  BY <1>1 DEF IInv, TimeInContext
<1>7. Types' /\ SavedGiven' /\ ChangesSaved'
  BY <1>1 DEF IInv, Types, SavedGiven, ChangesSaved, InRun
<1> QED
  BY <1>1, <1>3, <1>4, <1>5, <1>6, <1>7 DEF IInv, Restored, ChangesAhead, AppliedBefore,
     HouseInContext

(* The time steps move the mission time; the last one brings it back to    *)
(* the end of the mission.                                                 *)
LEMMA TimeStep ==
  ASSUME IInv, Step \/ LastStep \/ WithoutSteps
  PROVE  IInv'
<1>1. /\ pc = "quantify" /\ pc' \in {"quantify", "conclude"}
      /\ house' = house /\ given' = given /\ totalTime' = totalTime
      /\ context' = context /\ saved' = saved /\ initTime' = initTime /\ place' = place
      /\ phases' = phases /\ alignments' = alignments
  BY DEF Step, LastStep, WithoutSteps, modelVars, loopVars, runVars, targetVars, fixedVars
<1>2. Types' /\ SavedGiven' /\ ChangesSaved'
  BY <1>1 DEF IInv, Types, SavedGiven, ChangesSaved, InRun
<1>3. HouseInContext'
  BY <1>1 DEF IInv, HouseInContext
<1>4. totalTime = PhaseTime(given.time, context)
  BY <1>1 DEF IInv, TimeInContext
<1>5. TimeInContext'
  <2>1. CASE Step
    <3>1. pc' = "quantify" /\ timeStep' = timeStep /\ timeStep > 0
      BY <2>1 DEF Step, fixedVars
    <3> QED
      BY <1>1, <1>4, <3>1 DEF TimeInContext
  <2>2. CASE LastStep
    BY <1>1, <1>4, <2>2 DEF LastStep, TimeInContext
  <2>3. CASE WithoutSteps
    BY <1>1, <1>4, <2>3 DEF WithoutSteps, IInv, TimeInContext, modelVars, targetVars, fixedVars
  <2> QED
    BY <2>1, <2>2, <2>3
<1>6. ResultsInContext' /\ TimesInContext'
  BY <1>1, SameResults DEF Step, LastStep, WithoutSteps
<1> QED
  BY <1>1, <1>2, <1>3, <1>5, <1>6 DEF IInv, Restored, ChangesAhead, AppliedBefore

LEMMA ConcludeStep == ASSUME IInv, Conclude PROVE IInv'
<1>1. /\ pc = "conclude" /\ pc' = "targets"
      /\ house' = house /\ missionTime' = missionTime /\ given' = given
      /\ context' = context /\ saved' = saved /\ initTime' = initTime /\ place' = place
      /\ phases' = phases /\ alignments' = alignments /\ results' = results
      /\ quantities' = quantities \cup
           {[target |-> target, context |-> context, points |-> points, time |-> varsTime]}
  BY DEF Conclude, modelVars, loopVars, runVars, targetVars, fixedVars
<1>2. TimesInContext'
  BY <1>1 DEF IInv, TimesInContext, TimeInContext
<1>3. ResultsInContext'
  BY <1>1 DEF IInv, ResultsInContext
<1>4. Types' /\ SavedGiven' /\ ChangesSaved'
  BY <1>1 DEF IInv, Types, SavedGiven, ChangesSaved, InRun
<1>5. HouseInContext' /\ TimeInContext'
  BY <1>1 DEF IInv, HouseInContext, TimeInContext
<1> QED
  BY <1>1, <1>2, <1>3, <1>4, <1>5 DEF IInv, Restored, ChangesAhead, AppliedBefore

(* The restorator (risk_analysis.cc:57-63).                                *)
LEMMA LeaveStep == ASSUME IInv, Leave PROVE IInv'
<1>1. /\ pc = "targets" /\ pc' = "restore"
      /\ house' = house /\ missionTime' = initTime /\ given' = given
      /\ context' = context /\ saved' = saved /\ initTime' = initTime /\ place' = 1
      /\ phases' = phases /\ alignments' = alignments
  BY DEF Leave, loopVars, fixedVars
<1>2. Types' /\ SavedGiven'
  BY <1>1 DEF IInv, Types, SavedGiven, InRun
<1>3. ChangesAhead'
  <2>1. /\ initTime = given.time
        /\ \A e \in HouseEvents :
             house[e] /= given.house[e] => \E k \in 1..Len(saved) : saved[k].event = e
    BY <1>1 DEF IInv, SavedGiven, ChangesSaved, InRun
  <2> QED
    BY <1>1, <2>1 DEF ChangesAhead
<1>4. ResultsInContext' /\ TimesInContext'
  BY <1>1, SameResults DEF Leave
<1> QED
  BY <1>1, <1>2, <1>3, <1>4 DEF IInv, Restored, ChangesSaved, AppliedBefore, HouseInContext,
     TimeInContext, InRun

LEMMA RestoreStep == ASSUME IInv, Restore PROVE IInv'
<1> DEFINE last == Len(saved)
           event == saved[place].event
<1>1. /\ pc = "restore" /\ pc' = "restore" /\ place <= last
      /\ house' = [house EXCEPT ![event] = saved[place].state]
      /\ missionTime' = missionTime /\ given' = given
      /\ context' = context /\ saved' = saved /\ initTime' = initTime
      /\ place' = place + 1
      /\ phases' = phases /\ alignments' = alignments
  BY DEF Restore, loopVars, fixedVars
<1>2. /\ place \in Nat \ {0} /\ last \in Nat /\ place \in 1..last
      /\ house \in [HouseEvents -> BOOLEAN] /\ saved \in Seq(Entries)
  BY <1>1, LenProperties DEF IInv, Types
<1>3. event \in HouseEvents /\ saved[place].state \in BOOLEAN
  <2>1. saved[place] \in Entries
    BY <1>2, ElementOfSeq
  <2> QED
    BY <2>1 DEF Entries
<1>4. saved[place].state = given.house[event]
  BY <1>1, <1>2 DEF IInv, SavedGiven
<1>5. Types' /\ SavedGiven'
  BY <1>1, <1>2, <1>3 DEF IInv, Types, SavedGiven, InRun
<1>6. ChangesAhead'
  <2> SUFFICES ASSUME NEW e \in HouseEvents, house'[e] /= given.house[e]
               PROVE  \E k \in (place + 1)..last : saved[k].event = e
    BY <1>1 DEF IInv, ChangesAhead
  <2>1. e /= event /\ house[e] /= given.house[e]
    BY <1>1, <1>2, <1>3, <1>4
  <2>2. PICK k \in place..last : saved[k].event = e
    BY <1>1, <2>1 DEF IInv, ChangesAhead
  <2>3. k \in (place + 1)..last
    BY <1>2, <2>1, <2>2
  <2> QED
    BY <2>2, <2>3
<1>7. ResultsInContext' /\ TimesInContext'
  BY <1>1, SameResults DEF Restore
<1> QED
  BY <1>1, <1>5, <1>6, <1>7 DEF IInv, Restored, ChangesSaved, AppliedBefore,
     HouseInContext, TimeInContext, InRun

LEMMA StutterStep == ASSUME IInv, UNCHANGED vars PROVE IInv'
<1>1. /\ UNCHANGED <<house, missionTime, initTime, saved, place, context, phases>>
      /\ UNCHANGED <<alignments, totalTime, varsTime, points, timeStep, given, pc>>
  BY DEF vars, modelVars, loopVars, runVars, targetVars, fixedVars
<1>2. ResultsInContext' /\ TimesInContext'
  BY SameResults DEF vars, fixedVars
<1>3. \A e : Before(e)' = Before(e)
  BY <1>1 DEF Before
<1>4. AppliedBefore'
  BY <1>1, <1>3 DEF IInv, AppliedBefore
<1> QED
  BY <1>1, <1>2, <1>4 DEF IInv, Types, Restored, SavedGiven, ChangesSaved, ChangesAhead,
     HouseInContext, TimeInContext

-----------------------------------------------------------------------------
LEMMA Invariance == ASSUME Agreeable PROVE Spec => []IInv
<1>1. IInv /\ [Next]_vars => IInv'
  <2> SUFFICES ASSUME IInv, [Next]_vars PROVE IInv'
    OBVIOUS
  <2>1. CASE NextAlignment \/ NextPhase \/ Return
    BY <2>1, LoopStep
  <2>2. CASE Enter
    BY <2>2, EnterStep
  <2>3. CASE Apply
    BY <2>3, ApplyStep
  <2>4. CASE Applied
    BY <2>4, AppliedStep
  <2>5. CASE AnalyzeTarget
    BY <2>5, AnalyzeStep
  <2>6. CASE Step \/ LastStep \/ WithoutSteps
    BY <2>6, TimeStep
  <2>7. CASE Conclude
    BY <2>7, ConcludeStep
  <2>8. CASE Leave
    BY <2>8, LeaveStep
  <2>9. CASE Restore
    BY <2>9, RestoreStep
  <2>10. CASE UNCHANGED vars
    BY <2>10, StutterStep
  <2> QED
    BY <2>1, <2>2, <2>3, <2>4, <2>5, <2>6, <2>7, <2>8, <2>9, <2>10 DEF Next, Done
<1> QED
  BY InitIInv, <1>1, PTL DEF Spec

(* The post-condition of RunAnalysis (risk_analysis.h:120), for models in  *)
(* which no phase sets a house event to two states.                        *)
THEOREM HandsBackTheModel == ASSUME Agreeable PROVE Spec => []Restored
<1>1. IInv => Restored
  BY DEF IInv
<1> QED
  BY Invariance, <1>1, PTL

(* Every result belongs to its phase (risk_analysis.cc:65-82), for such    *)
(* models.                                                                 *)
THEOREM ComputesInContext ==
  ASSUME Agreeable PROVE Spec => []ComputedInContext
<1>1. IInv => ComputedInContext
  BY DEF IInv, ComputedInContext
<1> QED
  BY Invariance, <1>1, PTL

-----------------------------------------------------------------------------
(* Nothing is left out and the times agree, with conflicting instructions  *)
(* too: an invariant beside the first one, of the loops and the times.     *)
Quantifying == {"quantify", "conclude"}

TimeTypes ==
  /\ {missionTime, settingsTime, timeStep, initTime, totalTime, varsTime} \subseteq Nat
  /\ points \in Seq(Nat)
  /\ alignments \subseteq SUBSET Phases /\ phases \subseteq Phases
  /\ context \in Contexts
  /\ pc \in InRun \cup {"next", "enter", "restore"}

(* The settings of the command line follow the model, except within the    *)
(* time steps.                                                             *)
SettingsFollow ==
  driver = "batch" =>
    /\ pc /= "quantify" => settingsTime = missionTime
    /\ pc = "quantify" =>
         /\ settingsTime = totalTime
         /\ points = <<>> => missionTime = totalTime

(* The points so far ascend from 0 and have not come to the end ...        *)
Ascending(times) ==
  times[1] = 0 /\ \A i \in 1..(Len(times) - 1) : times[i] < times[i + 1]

StepsAscend ==
  /\ pc = "quantify" =>
       /\ timeStep = 0 => points = <<>> /\ missionTime = totalTime
       /\ points /= <<>> => Ascending(points) /\ points[Len(points)] < totalTime
  /\ pc = "conclude" => (points /= <<>> => Ascend(points, varsTime))

(* ... and those of what is quantified have.                               *)
QuantitiesAscend == \A q \in quantities : q.points /= <<>> => Ascend(q.points, q.time)

Runs == {r.context : r \in results}
Analyzed(c) == {r.target : r \in {x \in results : x.context = c}}

(* What the run has no more ahead it has analyzed, and every run before it *)
(* has analyzed all.                                                       *)
TargetsAnalyzed ==
  /\ target \in Targets
  /\ \A c \in Runs : Analyzed(c) \subseteq Targets
  /\ \A c \in Runs :
       Analyzed(c) = Targets \/ (c = context /\ pc \in {"targets", "quantify", "conclude"})
  /\ pc \in {"targets", "quantify", "conclude"} =>
       targets \subseteq Targets /\ Targets \ targets \subseteq Analyzed(context)
  /\ pc = "restore" => Targets \subseteq Analyzed(context)

(* The phases of the table are behind the loops, under way or ahead.       *)
PhasesAhead == UNION alignments

Covers(table) ==
  /\ table = {} =>
       /\ alignments = {} /\ phases = {} /\ context = NoPhase
       /\ Runs \subseteq {NoPhase}
       /\ pc = "next" => NoPhase \in Runs
  /\ table /= {} =>
       Runs \cup phases \cup PhasesAhead \cup (IF pc = "next" THEN {} ELSE {context})
         = UNION table

PhasesCovered == \E table \in Alignments : Covers(table)

(* What has been analyzed is quantified, or about to be.                   *)
AnalyzedPairs == {<<r.target, r.context>> : r \in results}
QuantifiedPairs == {<<q.target, q.context>> : q \in quantities}

Quantified ==
  IF probability
  THEN AnalyzedPairs = QuantifiedPairs
         \cup (IF pc \in Quantifying THEN {<<target, context>>} ELSE {})
  ELSE pc \notin Quantifying

LoopInv ==
  /\ TimeTypes /\ SettingsFollow /\ StepsAscend /\ QuantitiesAscend
  /\ TargetsAnalyzed /\ PhasesCovered /\ Quantified

-----------------------------------------------------------------------------
LEMMA PhaseTimeNat ==
  ASSUME NEW time \in Nat, NEW phase \in Contexts
  PROVE  PhaseTime(time, phase) \in Nat
<1>1. CASE phase \in Phases
  <2>1. Fraction[phase] \in Nat /\ Whole \in Nat \ {0}
    BY <1>1
  <2>2. Fraction[phase] * time \in Nat
    BY <2>1
  <2> QED
    BY <1>1, <2>1, <2>2, QuotientNat DEF PhaseTime
<1> QED
  BY <1>1 DEF Contexts, PhaseTime

LEMMA InitLoopInv == Init => LoopInv
<1> SUFFICES ASSUME Init PROVE LoopInv
  OBVIOUS
<1>1. missionTime \in Nat /\ settingsTime \in Nat /\ timeStep \in Nat
  BY DEF Init
<1>2. TimeTypes
  BY <1>1, EmptySeq DEF Init, TimeTypes, Contexts, InRun
<1>3. SettingsFollow /\ StepsAscend /\ QuantitiesAscend /\ Quantified
  BY DEF Init, SettingsFollow, StepsAscend, QuantitiesAscend, Quantified, Quantifying,
     AnalyzedPairs, QuantifiedPairs
<1>4. Runs = {}
  BY DEF Init, Runs
<1>5. TargetsAnalyzed
  BY <1>4 DEF Init, TargetsAnalyzed
<1>6. PhasesCovered
  <2>1. alignments \in Alignments /\ phases = {} /\ context = NoPhase
    BY DEF Init
  <2> QED
    BY <1>4, <2>1 DEF PhasesCovered, Covers, PhasesAhead, Init
<1> QED
  BY <1>2, <1>3, <1>5, <1>6 DEF LoopInv

(* The loops over alignments and phases move what is ahead.                *)
LEMMA LoopCovers ==
  ASSUME LoopInv, NextAlignment \/ NextPhase \/ Return
  PROVE  LoopInv'
<1>1. UNCHANGED <<missionTime, settingsTime, timeStep, probability, initTime, totalTime,
                  varsTime, points, target, driver, results, quantities>>
  BY DEF NextAlignment, NextPhase, Return, modelVars, runVars, targetVars, resultVars, fixedVars
<1>2. /\ pc \in {"next", "restore"} /\ pc' \in {"next", "enter"}
      /\ context' \in Contexts
      /\ alignments' \subseteq SUBSET Phases /\ phases' \subseteq Phases
  BY DEF NextAlignment, NextPhase, Return, LoopInv, TimeTypes, Contexts, loopVars
<1>3. TimeTypes' /\ SettingsFollow' /\ StepsAscend' /\ QuantitiesAscend' /\ Quantified'
  BY <1>1, <1>2 DEF LoopInv, TimeTypes, SettingsFollow, StepsAscend, QuantitiesAscend,
     Quantified, Quantifying, AnalyzedPairs, QuantifiedPairs
<1>4. Runs' = Runs /\ \A c : Analyzed(c)' = Analyzed(c)
  BY <1>1 DEF Runs, Analyzed
<1>5. TargetsAnalyzed'
  BY <1>1, <1>2, <1>4 DEF LoopInv, TargetsAnalyzed
<1>6. PICK table \in Alignments : Covers(table)
  BY DEF LoopInv, PhasesCovered
<1>7. CASE NextAlignment
  <2>1. PICK phaseTable \in alignments :
           alignments' = alignments \ {phaseTable} /\ phases' = phaseTable
    BY <1>7 DEF NextAlignment
  <2>2. pc = "next" /\ pc' = pc /\ phases = {} /\ context' = context
    BY <1>7 DEF NextAlignment
  <2>3. PhasesAhead = phaseTable \cup PhasesAhead'
    BY <2>1 DEF PhasesAhead
  <2>4. table /= {} => Runs \cup PhasesAhead = UNION table
    BY <1>6, <2>2 DEF Covers
  <2>5. table /= {} /\ Runs' \cup phases' \cup PhasesAhead' = UNION table
    BY <1>4, <1>6, <2>1, <2>3, <2>4 DEF Covers
  <2>6. Covers(table)'
    BY <2>2, <2>5 DEF Covers
  <2> QED
    BY <1>3, <1>5, <2>6 DEF LoopInv, PhasesCovered
<1>8. CASE NextPhase
  <2>1. PICK phase \in phases : phases' = phases \ {phase} /\ context' = phase
    BY <1>8 DEF NextPhase
  <2>2. pc = "next" /\ pc' = "enter" /\ alignments' = alignments
    BY <1>8 DEF NextPhase
  <2>3. table /= {} /\ Runs \cup phases \cup PhasesAhead = UNION table
    BY <1>6, <2>1, <2>2 DEF Covers
  <2>4. Runs' \cup phases' \cup PhasesAhead' \cup {context'} = UNION table
    <3>1. phases = phases' \cup {context'}
      BY <2>1
    <3>2. Runs \cup phases' \cup PhasesAhead \cup {context'}
            = Runs \cup phases \cup PhasesAhead
      BY <3>1, Rejoin
    <3> QED
      BY <1>4, <2>2, <2>3, <3>2 DEF PhasesAhead
  <2>5. Covers(table)'
    BY <2>2, <2>3, <2>4 DEF Covers
  <2> QED
    BY <1>3, <1>5, <2>5 DEF LoopInv, PhasesCovered
<1>9. CASE Return
  <2>1. pc = "restore" /\ pc' = "next" /\ UNCHANGED <<alignments, phases, context>>
    BY <1>9 DEF Return, loopVars
  <2>2. Targets \subseteq Analyzed(context) /\ target \in Targets
    BY <2>1 DEF LoopInv, TargetsAnalyzed
  <2>3. context \in Runs
    BY <2>2 DEF Analyzed, Runs
  <2>4. table /= {} => Runs \cup phases \cup PhasesAhead = UNION table
    <3>1. table /= {} => Runs \cup phases \cup PhasesAhead \cup {context} = UNION table
      BY <1>6, <2>1 DEF Covers
    <3>2. Runs \cup phases \cup PhasesAhead \cup {context}
            = Runs \cup phases \cup PhasesAhead
      BY <2>3, Rejoin
    <3> QED
      BY <3>1, <3>2
  <2>5. Covers(table)'
    BY <1>4, <1>6, <2>1, <2>3, <2>4 DEF Covers, PhasesAhead
  <2> QED
    BY <1>3, <1>5, <2>5 DEF LoopInv, PhasesCovered
<1> QED
  BY <1>7, <1>8, <1>9

(* Within a run the loops stand still.                                     *)
LEMMA SameLoops ==
  ASSUME LoopInv, UNCHANGED loopVars, pc /= "next", pc' /= "next", Runs' \subseteq Runs \cup {context},
         Runs \subseteq Runs'
  PROVE  PhasesCovered'
<1>1. UNCHANGED <<alignments, phases, context>>
  BY DEF loopVars
<1>2. PICK table \in Alignments : Covers(table)
  BY DEF LoopInv, PhasesCovered
<1>3. CASE table = {}
  BY <1>1, <1>2, <1>3 DEF PhasesCovered, Covers, PhasesAhead
<1>4. CASE table /= {}
  <2>1. Runs \cup phases \cup PhasesAhead \cup {context} = UNION table
    BY <1>2, <1>4 DEF Covers
  <2>2. Runs' \cup phases \cup PhasesAhead \cup {context} = UNION table
    <3>1. Runs \subseteq Runs' /\ Runs' \subseteq Runs \cup {context}
      OBVIOUS
    <3>2. Runs' \cup phases \cup PhasesAhead \cup {context}
            = Runs \cup phases \cup PhasesAhead \cup {context}
      BY <3>1, Rejoin
    <3> QED
      BY <2>1, <3>2
  <2>3. Covers(table)'
    BY <1>1, <1>4, <2>2 DEF Covers, PhasesAhead
  <2> QED
    BY <2>3 DEF PhasesCovered
<1> QED
  BY <1>3, <1>4

(* Entering and leaving a run, its instructions and its restorations keep  *)
(* the results.                                                            *)
LEMMA RunCovers ==
  ASSUME LoopInv, Enter \/ Apply \/ Applied \/ Leave \/ Restore
  PROVE  LoopInv'
<1>1. UNCHANGED <<timeStep, probability, totalTime, varsTime, points, target, driver,
                  results, quantities, alignments, phases, context>>
  BY DEF Enter, Apply, Applied, Leave, Restore, loopVars, targetVars, resultVars, fixedVars
<1>2. /\ pc \in {"enter", "apply", "targets", "restore"}
      /\ pc' \in {"apply", "targets", "restore"}
      /\ pc' = "restore" => pc = "restore" \/ (pc = "targets" /\ targets = {})
      /\ pc' = "targets" => targets' = Targets
  <2>1. CASE Enter \/ Leave
    BY <2>1 DEF Enter, Leave
  <2>2. CASE Apply
    BY <2>2 DEF Apply, HasInstruction
  <2>3. CASE Applied
    BY <2>3 DEF Applied
  <2>4. CASE Restore
    BY <2>4 DEF Restore
  <2> QED
    BY <2>1, <2>2, <2>3, <2>4
<1>3. {missionTime', settingsTime', initTime'} \subseteq Nat
  <2>1. missionTime \in Nat /\ settingsTime \in Nat /\ initTime \in Nat
    BY DEF LoopInv, TimeTypes
  <2>2. PhaseTime(missionTime, context) \in Nat
    BY <2>1, PhaseTimeNat DEF LoopInv, TimeTypes
  <2>3. CASE Enter
    BY <2>1, <2>2, <2>3 DEF Enter
  <2>4. CASE Leave
    BY <2>1, <2>4 DEF Leave
  <2>5. CASE Apply \/ Applied \/ Restore
    BY <2>1, <2>5 DEF Apply, Applied, Restore, modelVars, runVars
  <2> QED
    BY <2>3, <2>4, <2>5
<1>4. TimeTypes'
  BY <1>1, <1>2, <1>3 DEF LoopInv, TimeTypes, InRun
<1>5. SettingsFollow'
  <2>1. CASE Enter
    <3>1. /\ pc = "enter" /\ missionTime' = PhaseTime(missionTime, context)
          /\ settingsTime' = IF context = NoPhase THEN settingsTime ELSE missionTime'
      BY <2>1 DEF Enter
    <3> QED
      BY <1>1, <1>2, <3>1 DEF LoopInv, SettingsFollow, PhaseTime
  <2>2. CASE Leave
    BY <1>2, <2>2 DEF Leave, SettingsFollow
  <2>3. CASE Apply \/ Applied \/ Restore
    <3>1. UNCHANGED <<missionTime, settingsTime>>
      BY <2>3 DEF Apply, Applied, Restore, modelVars
    <3> QED
      BY <1>1, <1>2, <3>1 DEF LoopInv, SettingsFollow
  <2> QED
    BY <2>1, <2>2, <2>3
<1>6. StepsAscend' /\ QuantitiesAscend' /\ Quantified'
  BY <1>1, <1>2 DEF LoopInv, StepsAscend, QuantitiesAscend, Quantified, Quantifying,
     AnalyzedPairs, QuantifiedPairs
<1>7. Runs' = Runs /\ \A c : Analyzed(c)' = Analyzed(c)
  BY <1>1 DEF Runs, Analyzed
<1>8. TargetsAnalyzed'
  <2>1. pc' = "restore" => Targets \subseteq Analyzed(context)
    BY <1>2 DEF LoopInv, TargetsAnalyzed
  <2>2. pc = "targets" /\ pc' /= "targets" => pc' = "restore"
    BY <1>2 DEF Enter, Apply, HasInstruction, Applied, Leave, Restore
  <2>3. \A c \in Runs : Analyzed(c) \subseteq Targets
    BY DEF LoopInv, TargetsAnalyzed
  <2>4. \A c \in Runs : Analyzed(c) = Targets \/ (c = context /\ pc = "targets")
    BY <1>2 DEF LoopInv, TargetsAnalyzed
  <2>5. ASSUME NEW c \in Runs
        PROVE  Analyzed(c) = Targets \/ (c = context /\ pc' = "targets")
    <3>1. CASE Analyzed(c) = Targets
      BY <3>1
    <3>2. CASE Analyzed(c) /= Targets
      <4>1. c = context /\ pc = "targets"
        BY <2>4, <3>2
      <4>2. CASE pc' = "targets"
        BY <4>1, <4>2
      <4>3. CASE pc' /= "targets"
        <5>1. Targets \subseteq Analyzed(c)
          BY <2>1, <2>2, <4>1, <4>3
        <5>2. Analyzed(c) \subseteq Targets
          BY <2>3
        <5> QED
          BY <5>1, <5>2
      <4> QED
        BY <4>2, <4>3
    <3> QED
      BY <3>1, <3>2
  <2>6. target \in Targets
    BY DEF LoopInv, TargetsAnalyzed
  <2> QED
    BY <1>1, <1>2, <1>7, <2>1, <2>3, <2>5, <2>6 DEF TargetsAnalyzed
<1>9. PhasesCovered'
  BY <1>1, <1>2, <1>7, SameLoops DEF loopVars
<1> QED
  BY <1>4, <1>5, <1>6, <1>8, <1>9 DEF LoopInv

(* A target leaves the queue for the results, and the steps start from no  *)
(* point.                                                                  *)
LEMMA AnalyzeCovers == ASSUME LoopInv, AnalyzeTarget PROVE LoopInv'
<1>1. PICK t \in targets :
        /\ targets' = targets \ {t}
        /\ target' = t
        /\ results' = results \cup {[target |-> t, context |-> context, house |-> house]}
  BY DEF AnalyzeTarget
<1>2. UNCHANGED <<missionTime, settingsTime, timeStep, probability, initTime, driver,
                  quantities, alignments, phases, context>>
  BY DEF AnalyzeTarget, modelVars, loopVars, runVars, fixedVars
<1>3. /\ pc = "targets" /\ points' = <<>>
      /\ pc' = IF probability THEN "quantify" ELSE "targets"
      /\ totalTime' = IF probability THEN missionTime ELSE totalTime
      /\ varsTime' = IF probability THEN missionTime ELSE varsTime
  BY DEF AnalyzeTarget
<1>4. TimeTypes'
  BY <1>2, <1>3, EmptySeq DEF LoopInv, TimeTypes, InRun
<1>5. SettingsFollow' /\ StepsAscend' /\ QuantitiesAscend'
  BY <1>2, <1>3 DEF LoopInv, SettingsFollow, StepsAscend, QuantitiesAscend
<1> DEFINE result == [target |-> t, context |-> context, house |-> house]
<1>a. /\ result.target = t /\ result.context = context
      /\ \A r : r \in results' <=> r \in results \/ r = result
  BY <1>1
<1> HIDE DEF result
<1>6. AnalyzedPairs' = AnalyzedPairs \cup {<<t, context>>}
  <2>1. \A p : p \in AnalyzedPairs' <=> \E r \in results' : p = <<r.target, r.context>>
    BY DEF AnalyzedPairs
  <2>2. \A p : p \in AnalyzedPairs <=> \E r \in results : p = <<r.target, r.context>>
    BY DEF AnalyzedPairs
  <2>3. \A p : p \in AnalyzedPairs' <=> p \in AnalyzedPairs \/ p = <<t, context>>
    BY <1>a, <2>1, <2>2
  <2> QED
    BY <2>3
<1>7. Quantified'
  BY <1>1, <1>2, <1>3, <1>6 DEF LoopInv, Quantified, Quantifying, QuantifiedPairs
<1>8. Runs' = Runs \cup {context}
  BY <1>a DEF Runs
<1>9. /\ Analyzed(context)' = Analyzed(context) \cup {t}
      /\ \A c : c /= context => Analyzed(c)' = Analyzed(c)
  <2>1. \A c, x : x \in Analyzed(c)' <=> \E r \in results' : r.context = c /\ x = r.target
    BY DEF Analyzed
  <2>2. \A c, x : x \in Analyzed(c) <=> \E r \in results : r.context = c /\ x = r.target
    BY DEF Analyzed
  <2>3. \A c, x : x \in Analyzed(c)' <=> x \in Analyzed(c) \/ (c = context /\ x = t)
    BY <1>a, <2>1, <2>2
  <2>5. \A x : x \in Analyzed(context)' <=> x \in Analyzed(context) \cup {t}
    BY <1>2, <2>3
  <2>6. Analyzed(context)' = Analyzed(context) \cup {t}
    BY <2>5
  <2>7. ASSUME NEW c, c /= context PROVE Analyzed(c)' = Analyzed(c)
    <3>1. \A x : x \in Analyzed(c)' <=> x \in Analyzed(c)
      BY <2>3, <2>7
    <3> QED
      BY <3>1
  <2> QED
    BY <2>6, <2>7
<1>10. TargetsAnalyzed'
  <2>1. /\ targets \subseteq Targets /\ Targets \ targets \subseteq Analyzed(context)
        /\ \A c \in Runs : Analyzed(c) \subseteq Targets
        /\ \A c \in Runs : Analyzed(c) = Targets \/ c = context
    BY <1>3 DEF LoopInv, TargetsAnalyzed
  <2>2. Analyzed(context) \subseteq Targets
    <3>1. \A x \in Analyzed(context) : context \in Runs
      BY DEF Analyzed, Runs
    <3> QED
      BY <2>1, <3>1
  <2> QED
    BY <1>1, <1>2, <1>3, <1>8, <1>9, <2>1, <2>2 DEF TargetsAnalyzed
<1>11. PhasesCovered'
  BY <1>2, <1>3, <1>8, SameLoops DEF loopVars
<1> QED
  BY <1>4, <1>5, <1>7, <1>10, <1>11 DEF LoopInv

(* Appending a later time keeps the points ascending.                      *)
LEMMA LaterTime ==
  ASSUME NEW times \in Seq(Nat), NEW time \in Nat,
         times = <<>> => time = 0,
         times /= <<>> => Ascending(times) /\ times[Len(times)] < time
  PROVE  /\ Append(times, time) \in Seq(Nat) /\ Append(times, time) /= <<>>
         /\ Ascending(Append(times, time))
         /\ Append(times, time)[Len(Append(times, time))] = time
<1> DEFINE more == Append(times, time)
           n == Len(times)
<1>1. /\ more \in Seq(Nat) /\ Len(more) = n + 1 /\ n \in Nat
      /\ \A i \in 1..n : more[i] = times[i]
      /\ more[n + 1] = time
  BY AppendProperties, LenProperties
<1>2. more /= <<>>
  <2>1. Len(<<>>) = 0
    BY EmptySeq
  <2>2. Len(more) > 0
    BY <1>1
  <2> HIDE DEF more
  <2> QED
    BY <2>1, <2>2
<1>3. CASE times = <<>>
  <2>1. n = 0 /\ time = 0
    BY <1>3, EmptySeq
  <2> HIDE DEF more, n
  <2>2. Len(more) = 1 /\ more[1] = 0 /\ time = 0
    BY <1>1, <2>1
  <2>3. 1..(Len(more) - 1) = {}
    BY <2>2
  <2>4. Ascending(more) /\ more[Len(more)] = time
    BY <2>2, <2>3 DEF Ascending
  <2> QED
    BY <1>1, <1>2, <2>4 DEF more
<1>4. CASE times /= <<>>
  <2>1. n > 0 /\ times[n] < time /\ times[1] = 0
    BY <1>1, <1>4, EmptySeq DEF Ascending
  <2>2. \A i \in 1..(n - 1) : times[i] < times[i + 1]
    BY <1>4 DEF Ascending
  <2> HIDE DEF more, n
  <2>3. more[1] = 0
    BY <1>1, <2>1
  <2>4. ASSUME NEW i \in 1..n PROVE more[i] < more[i + 1]
    <3>1. CASE i = n
      BY <1>1, <2>1, <3>1
    <3>2. CASE i /= n
      BY <1>1, <2>1, <2>2, <3>2
    <3> QED
      BY <3>1, <3>2
  <2>5. Len(more) - 1 = n
    BY <1>1
  <2>6. Ascending(more)
    BY <2>3, <2>4, <2>5 DEF Ascending
  <2> QED
    BY <1>1, <1>2, <2>6 DEF more
<1> QED
  BY <1>3, <1>4

(* The loop over the times stops before the end of the mission, and the    *)
(* last point is its end.                                                  *)
LEMMA StepsCover ==
  ASSUME LoopInv, Step \/ LastStep \/ WithoutSteps
  PROVE  LoopInv'
<1>1. UNCHANGED <<settingsTime, timeStep, probability, initTime, totalTime, targets, target,
                  driver, results, quantities, alignments, phases, context>>
  BY DEF Step, LastStep, WithoutSteps, modelVars, loopVars, runVars, targetVars, resultVars, fixedVars
<1>2. pc = "quantify" /\ pc' \in Quantifying /\ timeStep \in Nat /\ totalTime \in Nat /\ points \in Seq(Nat)
  BY DEF Step, LastStep, WithoutSteps, Quantifying, LoopInv, TimeTypes
<1>3. timeStep > 0 /\ points /= <<>> => points[Len(points)] \in Nat /\ points[Len(points)] < NextTime
  <2> SUFFICES ASSUME timeStep > 0, points /= <<>>
               PROVE  points[Len(points)] \in Nat /\ points[Len(points)] < NextTime
    OBVIOUS
  <2>1. Len(points) \in 1..Len(points)
    BY <1>2, EmptySeq, LenProperties
  <2>2. points[Len(points)] \in Nat
    BY <1>2, <2>1, ElementOfSeq
  <2> QED
    BY <1>2, <2>2 DEF NextTime
<1>4. NextTime \in Nat /\ (points = <<>> => NextTime = 0)
  <2>1. CASE points = <<>>
    BY <2>1 DEF NextTime
  <2>2. CASE points /= <<>>
    <3>1. Len(points) \in 1..Len(points)
      BY <1>2, <2>2, EmptySeq, LenProperties
    <3>2. points[Len(points)] \in Nat
      BY <1>2, <3>1, ElementOfSeq
    <3> QED
      BY <1>2, <2>2, <3>2 DEF NextTime
  <2> QED
    BY <2>1, <2>2
<1>5. points /= <<>> => Ascending(points) /\ points[Len(points)] < totalTime
  BY <1>2 DEF LoopInv, StepsAscend
<1>6. TargetsAnalyzed' /\ PhasesCovered' /\ Quantified' /\ QuantitiesAscend'
  <2>1. Runs' = Runs /\ \A c : Analyzed(c)' = Analyzed(c)
    BY <1>1 DEF Runs, Analyzed
  <2>2. TargetsAnalyzed'
    BY <1>1, <1>2, <2>1 DEF LoopInv, TargetsAnalyzed, Quantifying
  <2>3. PhasesCovered'
    BY <1>1, <1>2, <2>1, SameLoops DEF loopVars, Quantifying
  <2>4. Quantified' /\ QuantitiesAscend'
    BY <1>1, <1>2 DEF LoopInv, Quantified, QuantitiesAscend, Quantifying, AnalyzedPairs, QuantifiedPairs
  <2> QED
    BY <2>2, <2>3, <2>4
<1>7. CASE Step
  <2>1. /\ timeStep > 0 /\ NextTime < totalTime /\ pc' = "quantify"
        /\ missionTime' = NextTime /\ varsTime' = NextTime
        /\ points' = Append(points, NextTime)
    BY <1>7 DEF Step
  <2>2. /\ points' \in Seq(Nat) /\ points' /= <<>> /\ Ascending(points')
        /\ points'[Len(points')] = NextTime
    BY <1>2, <1>3, <1>4, <1>5, <2>1, LaterTime
  <2>3. TimeTypes'
    BY <1>1, <1>4, <2>1, <2>2 DEF LoopInv, TimeTypes, InRun
  <2>4. SettingsFollow'
    BY <1>1, <1>2, <2>1, <2>2 DEF LoopInv, SettingsFollow
  <2>5. StepsAscend'
    BY <1>1, <1>2, <2>1, <2>2 DEF StepsAscend
  <2> QED
    BY <1>6, <2>3, <2>4, <2>5 DEF LoopInv
<1>8. CASE LastStep
  <2>1. /\ timeStep > 0 /\ NextTime >= totalTime /\ pc' = "conclude"
        /\ missionTime' = totalTime /\ varsTime' = totalTime
        /\ points' = Append(points, totalTime)
    BY <1>8 DEF LastStep
  <2>2. points = <<>> => totalTime = 0
    BY <1>2, <1>4, <2>1
  <2>3. /\ points' \in Seq(Nat) /\ points' /= <<>> /\ Ascending(points')
        /\ points'[Len(points')] = totalTime
    BY <1>2, <1>5, <2>1, <2>2, LaterTime
  <2>4. TimeTypes'
    BY <1>1, <1>2, <2>1, <2>3 DEF LoopInv, TimeTypes, InRun
  <2>5. SettingsFollow'
    BY <1>1, <1>2, <2>1 DEF LoopInv, SettingsFollow
  <2>6. StepsAscend'
    BY <1>1, <2>1, <2>3 DEF StepsAscend, Ascend, Ascending
  <2> QED
    BY <1>6, <2>4, <2>5, <2>6 DEF LoopInv
<1>9. CASE WithoutSteps
  <2>1. timeStep = 0 /\ pc' = "conclude" /\ UNCHANGED <<missionTime, varsTime, points>>
    BY <1>9 DEF WithoutSteps, modelVars, targetVars
  <2>2. TimeTypes'
    BY <1>1, <2>1 DEF LoopInv, TimeTypes, InRun
  <2>3. SettingsFollow' /\ StepsAscend'
    BY <1>1, <1>2, <2>1 DEF LoopInv, SettingsFollow, StepsAscend
  <2> QED
    BY <1>6, <2>2, <2>3 DEF LoopInv
<1> QED
  BY <1>7, <1>8, <1>9

LEMMA ConcludeCovers == ASSUME LoopInv, Conclude PROVE LoopInv'
<1>1. UNCHANGED <<missionTime, settingsTime, timeStep, probability, initTime, totalTime,
                  varsTime, points, targets, target, driver, results, alignments, phases, context>>
  BY DEF Conclude, modelVars, loopVars, runVars, targetVars, fixedVars
<1>2. /\ pc = "conclude" /\ pc' = "targets"
      /\ quantities' = quantities \cup
           {[target |-> target, context |-> context, points |-> points, time |-> varsTime]}
  BY DEF Conclude
<1>3. TimeTypes' /\ SettingsFollow' /\ StepsAscend'
  BY <1>1, <1>2 DEF LoopInv, TimeTypes, SettingsFollow, StepsAscend, Quantifying, InRun
<1>4. QuantitiesAscend'
  BY <1>2 DEF LoopInv, StepsAscend, QuantitiesAscend
<1>5. QuantifiedPairs' = QuantifiedPairs \cup {<<target, context>>}
  <2> DEFINE quantity == [target |-> target, context |-> context, points |-> points, time |-> varsTime]
  <2>1. /\ quantity.target = target /\ quantity.context = context
        /\ \A q : q \in quantities' <=> q \in quantities \/ q = quantity
    BY <1>2
  <2> HIDE DEF quantity
  <2>2. \A p : p \in QuantifiedPairs' <=> \E q \in quantities' : p = <<q.target, q.context>>
    BY DEF QuantifiedPairs
  <2>3. \A p : p \in QuantifiedPairs <=> \E q \in quantities : p = <<q.target, q.context>>
    BY DEF QuantifiedPairs
  <2>4. \A p : p \in QuantifiedPairs' <=> p \in QuantifiedPairs \/ p = <<target, context>>
    BY <2>1, <2>2, <2>3
  <2> QED
    BY <2>4
<1>6. Quantified'
  BY <1>1, <1>2, <1>5 DEF LoopInv, Quantified, Quantifying, AnalyzedPairs
<1>7. Runs' = Runs /\ \A c : Analyzed(c)' = Analyzed(c)
  BY <1>1 DEF Runs, Analyzed
<1>8. TargetsAnalyzed'
  BY <1>1, <1>2, <1>7 DEF LoopInv, TargetsAnalyzed
<1>9. PhasesCovered'
  BY <1>1, <1>2, <1>7, SameLoops DEF loopVars
<1> QED
  BY <1>3, <1>4, <1>6, <1>8, <1>9 DEF LoopInv

LEMMA StutterCovers == ASSUME LoopInv, UNCHANGED vars PROVE LoopInv'
<1>1. /\ UNCHANGED <<missionTime, settingsTime, timeStep, probability, initTime, totalTime>>
      /\ UNCHANGED <<varsTime, points, targets, target, driver, results, quantities>>
      /\ UNCHANGED <<alignments, phases, context, pc>>
  BY DEF vars, modelVars, loopVars, runVars, targetVars, resultVars, fixedVars
<1>2. Runs' = Runs /\ \A c : Analyzed(c)' = Analyzed(c)
  BY <1>1 DEF Runs, Analyzed
<1>3. TargetsAnalyzed' /\ PhasesCovered'
  BY <1>1, <1>2 DEF LoopInv, TargetsAnalyzed, PhasesCovered, Covers, PhasesAhead
<1> QED
  BY <1>1, <1>3 DEF LoopInv, TimeTypes, SettingsFollow, StepsAscend, QuantitiesAscend,
     Quantified, AnalyzedPairs, QuantifiedPairs

LEMMA LoopInvariance == Spec => []LoopInv
<1>1. LoopInv /\ [Next]_vars => LoopInv'
  <2> SUFFICES ASSUME LoopInv, [Next]_vars PROVE LoopInv'
    OBVIOUS
  <2>1. CASE NextAlignment \/ NextPhase \/ Return
    BY <2>1, LoopCovers
  <2>2. CASE Enter \/ Apply \/ Applied \/ Leave \/ Restore
    BY <2>2, RunCovers
  <2>3. CASE AnalyzeTarget
    BY <2>3, AnalyzeCovers
  <2>4. CASE Step \/ LastStep \/ WithoutSteps
    BY <2>4, StepsCover
  <2>5. CASE Conclude
    BY <2>5, ConcludeCovers
  <2>6. CASE UNCHANGED vars
    BY <2>6, StutterCovers
  <2> QED
    BY <2>1, <2>2, <2>3, <2>4, <2>5, <2>6 DEF Next, Done
<1> QED
  BY InitLoopInv, <1>1, PTL DEF Spec

(* The assertion where the time steps start (probability_analysis.cc:201)  *)
(* holds in every run of the command line, whatever the phases instruct.   *)
THEOREM StepsStartInAgreement == Spec => []TimesAgreeInBatch
<1>1. LoopInv => TimesAgreeInBatch
  BY DEF LoopInv, SettingsFollow, TimesAgreeInBatch, TimesAgree
<1> QED
  BY LoopInvariance, <1>1, PTL

(* The loops of Analyze and RunAnalysis (risk_analysis.cc:43-50, 84-120)   *)
(* leave no phase, target, quantity or point of time out.                  *)
THEOREM LeavesNothingOut == Spec => []Complete
<1>1. LoopInv => Complete
  <2> SUFFICES ASSUME LoopInv, pc = "next", phases = {}, alignments = {} PROVE Complete
    BY DEF Complete
  <2>1. \A c \in Runs : Analyzed(c) = Targets
    BY DEF LoopInv, TargetsAnalyzed
  <2>2. \E table \in Alignments : Runs = IF table = {} THEN {NoPhase} ELSE UNION table
    BY DEF LoopInv, PhasesCovered, Covers, PhasesAhead
  <2>3. probability => AnalyzedPairs = QuantifiedPairs
    BY DEF LoopInv, Quantified, Quantifying
  <2>4. \A q \in quantities : q.points /= <<>> => Ascend(q.points, q.time)
    BY DEF LoopInv, QuantitiesAscend
  <2> QED
    BY <2>1, <2>2, <2>3, <2>4 DEF Complete, Runs, Analyzed, AnalyzedPairs, QuantifiedPairs
<1> QED
  BY LoopInvariance, <1>1, PTL

-----------------------------------------------------------------------------
(* The walk of the event trees, and the choice of the next target among    *)
(* the sequences it has found, leave the driver as it is.                  *)
LEMMA WalkIsAside ==
  ASSUME VisitSetHouseEvent \/ VisitCollectFormula \/ VisitIfThenElse \/ VisitLink \/ ReturnFromLink
           \/ EnterBranch \/ EnterSequence \/ RegisterSequence \/ EnterPath \/ LeaveFork
           \/ CollectSequences
  PROVE  UNCHANGED vars
  BY DEF VisitSetHouseEvent, VisitCollectFormula, VisitIfThenElse, VisitLink, ReturnFromLink,
     EnterBranch, EnterSequence, RegisterSequence, EnterPath, LeaveFork, CollectSequences,
     Follows, Reaches

LEMMA DriverSteps == AnalyzeSequence \/ StartRun \/ Drive => Next
  BY DEF AnalyzeSequence, StartRun, Drive, Next

(* A run with event trees (event_tree_analysis.cc:243, risk_analysis.cc:   *)
(* 84-120) is one of the driver: a step of the walk stutters, and the      *)
(* driver takes the sequences among its targets in some order.             *)
THEOREM TreesImplementDriver == TreesSpec => Spec
<1>1. TreesInit => Init
  BY DEF TreesInit
<1>2. [TreesNext]_<<vars, treeVars>> => [Next]_vars
  <2>1. TreesNext => [Next]_vars
    BY WalkIsAside, DriverSteps DEF TreesNext
  <2>2. UNCHANGED <<vars, treeVars>> => UNCHANGED vars
    OBVIOUS
  <2> QED
    BY <2>1, <2>2
<1> QED
  BY <1>1, <1>2, PTL DEF TreesSpec, Spec

(* What the driver keeps it keeps with event trees: no walk, of whatever   *)
(* forest, reaches the model, the times or the results.                    *)
THEOREM KeptWithTrees ==
  /\ TreesSpec => [](TimesAgreeInBatch /\ Complete)
  /\ Agreeable => (TreesSpec => [](Restored /\ ComputedInContext))
<1>1. TreesSpec => [](TimesAgreeInBatch /\ Complete)
  BY TreesImplementDriver, StepsStartInAgreement, LeavesNothingOut, PTL
<1>2. ASSUME Agreeable PROVE TreesSpec => [](Restored /\ ComputedInContext)
  BY <1>2, TreesImplementDriver, HandsBackTheModel, ComputesInContext, PTL
<1> QED
  BY <1>1, <1>2
=============================================================================
