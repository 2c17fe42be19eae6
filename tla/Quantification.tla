---------------------------- MODULE Quantification ----------------------------
(***************************************************************************)
(* Quantification with the BDD after the analysis of a fault tree          *)
(* (src/src/probability_analysis.cc, src/src/importance_analysis.cc,       *)
(* src/src/uncertainty_analysis.h).  All calculations cache their values in*)
(* the vertices of one diagram.  A vertex whose mark is the one in use has *)
(* been calculated; the next calculation inverts the mark.                 *)
(*                                                                         *)
(* Probabilities are zero or one: the quantities are linear in each of     *)
(* them, and agree everywhere if they agree there.                         *)
(***************************************************************************)
EXTENDS BddAnalysis

CONSTANTS
  Quantified,   \* the analyses that quantify: graph, limit, prime implicants
  NoAnswer

VARIABLES
  stage,          \* which calculation comes next, "none" before there are any
  current_mark,
  vertices,       \* mark, p and factor of every vertex
  p_vars,         \* the events of probability one in the analyzer, and ...
  p_mission,      \* ... in the model at the mission time
  p_total,
  events,         \* those the importance analysis has ahead
  answer          \* what the last calculation returned for what (history)

analyzer == <<current_mark, vertices, p_vars, p_mission>>

quantityVars == <<stage, analyzer, p_total, events, answer>>

-----------------------------------------------------------------------------
RECURSIVE Reachable(_)
Reachable(vertex) ==
  IF vertex.terminal THEN {}
  ELSE {vertex} \cup Reachable(vertex.high) \cup Reachable(vertex.low)
       \cup (IF vertex.module THEN Reachable(modules[vertex.index].vertex) ELSE {})

(* What the constructor of the diagram leaves: marks are cleared.          *)
Fresh ==
  LET all == Reachable(root[1].vertex)
  IN [mark |-> [v \in all |-> FALSE], p |-> [v \in all |-> 0], factor |-> [v \in all |-> 0]]

Root == root[1].vertex

Module(vertex) == modules[vertex.index]

RetrieveProbability(c, vertex) == IF vertex.terminal THEN 1 ELSE c.p[vertex]

RetrieveFactor(c, vertex) == IF vertex.terminal THEN 0 ELSE c.factor[vertex]

Complemented(complement, p) == IF complement THEN 1 - p ELSE p

Inverted(complement, factor) == IF complement THEN -factor ELSE factor

Mixed(p_var, high, low) == p_var * high + (1 - p_var) * low

(* The probability of what the vertex decides on.                          *)
Chance(c, vertex, likely) ==
  IF vertex.module
  THEN Complemented(Module(vertex).complement, RetrieveProbability(c, Module(vertex).vertex))
  ELSE IF vertex.index \in likely THEN 1 ELSE 0

Low_(c, vertex) == Complemented(vertex.complement_edge, RetrieveProbability(c, vertex.low))

(* Seeded defect: modules have been calculated before.                     *)
RECURSIVE CalculateAboveModules(_, _, _, _)
CalculateAboveModules(c, vertex, mark, likely) ==
  IF vertex.terminal \/ c.mark[vertex] = mark THEN c
  ELSE LET marked == [c EXCEPT !.mark[vertex] = mark]
           high == CalculateAboveModules(marked, vertex.high, mark, likely)
           done == CalculateAboveModules(high, vertex.low, mark, likely)
       IN [done EXCEPT !.p[vertex] =
             Mixed(Chance(done, vertex, likely), RetrieveProbability(done, vertex.high), Low_(done, vertex))]

RECURSIVE CalculateProbability(_, _, _, _)
CalculateProbability(c, vertex, mark, likely) ==
  IF vertex.terminal \/ c.mark[vertex] = mark THEN c
  ELSE LET marked == [c EXCEPT !.mark[vertex] = mark]
           inner == IF vertex.module THEN CalculateProbability(marked, Module(vertex).vertex, mark, likely)
                    ELSE marked
           high == CalculateProbability(inner, vertex.high, mark, likely)
           done == CalculateProbability(high, vertex.low, mark, likely)
       IN [done EXCEPT !.p[vertex] =
             Mixed(Chance(done, vertex, likely), RetrieveProbability(done, vertex.high), Low_(done, vertex))]

(* What the vertex itself adds to the change of what it decides on.        *)
Difference(c, vertex) == RetrieveProbability(c, vertex.high) - Low_(c, vertex)

(* CalculateMif.  A module comes after its own variables and before those  *)
(* of no other, so that below a vertex beyond the level of the event only  *)
(* its own module may have it.                                             *)
RECURSIVE CalculateFactor(_, _, _, _, _)
CalculateFactor(c, vertex, level, mark, likely) ==
  LET marked == [c EXCEPT !.mark[vertex] = mark]
      inner == CalculateFactor(marked, Module(vertex).vertex, level, mark, likely)
      high == CalculateFactor(marked, vertex.high, level, mark, likely)
      done == CalculateFactor(high, vertex.low, level, mark, likely)
  IN CASE vertex.terminal -> c
       [] ~vertex.terminal /\ c.mark[vertex] = mark -> c
       [] vertex.order > level /\ ~vertex.module -> [marked EXCEPT !.factor[vertex] = 0]
       [] vertex.order > level /\ vertex.module ->
            [inner EXCEPT !.factor[vertex] =
               Difference(inner, vertex)
               * Inverted(Module(vertex).complement, RetrieveFactor(inner, Module(vertex).vertex))]
       [] vertex.order = level -> [marked EXCEPT !.factor[vertex] = Difference(marked, vertex)]
       [] vertex.order < level ->
            [done EXCEPT !.factor[vertex] =
               Mixed(Chance(done, vertex, likely), RetrieveFactor(done, vertex.high),
                     Inverted(vertex.complement_edge, RetrieveFactor(done, vertex.low)))]

(* Seeded defect: modules keep the marks.                                  *)
RECURSIVE ClearMarksAbove(_, _, _)
ClearMarksAbove(c, vertex, mark) ==
  IF vertex.terminal \/ c.mark[vertex] = mark THEN c
  ELSE ClearMarksAbove(ClearMarksAbove([c EXCEPT !.mark[vertex] = mark], vertex.high, mark), vertex.low, mark)

RECURSIVE ClearMarks(_, _, _)
ClearMarks(c, vertex, mark) ==
  IF vertex.terminal \/ c.mark[vertex] = mark THEN c
  ELSE LET marked == [c EXCEPT !.mark[vertex] = mark]
           inner == IF vertex.module THEN ClearMarks(marked, Module(vertex).vertex, mark) ELSE marked
       IN ClearMarks(ClearMarks(inner, vertex.high, mark), vertex.low, mark)

-----------------------------------------------------------------------------
QuantityInit ==
  /\ AnalysisInit
  /\ stage = "none" /\ current_mark = FALSE /\ vertices = <<>>
  /\ p_vars = {} /\ p_mission = {} /\ p_total = 0 /\ events = {} /\ answer = NoAnswer

Answer(kind, event, likely, value) ==
  [kind |-> kind, event |-> event, likely |-> likely, value |-> value]

(* The constructor of ProbabilityAnalyzer, which takes the diagram over.   *)
CreateAnalyzer ==
  /\ phase = "analyzed" /\ stage = "none"
  /\ <<graph, Z.k.limit, Z.k.prime_implicants>> \in Quantified
  /\ vertices' = Fresh
  /\ current_mark' = IF Root.terminal THEN FALSE ELSE vertices'.mark[Root]
  /\ p_mission' \in SUBSET Variables(graph)
  /\ p_vars' = p_mission'
  /\ stage' = "total"
  /\ UNCHANGED <<allvars, p_total, events, answer>>

(* Seeded defect: the mark of the last calculation is used again.          *)
CalculateUnderSameMark(likely) ==
  /\ UNCHANGED current_mark
  /\ vertices' = CalculateProbability(vertices, Root, ~current_mark, likely)
  /\ answer' = Answer("probability", 0, likely,
                      Complemented(root[1].complement, RetrieveProbability(vertices', Root)))

CalculateTotalProbability(likely) ==
  /\ current_mark' = ~current_mark
  /\ vertices' = CalculateProbability(vertices, Root, current_mark', likely)
  /\ answer' = Answer("probability", 0, likely,
                      Complemented(root[1].complement, RetrieveProbability(vertices', Root)))

(* What is asked for after the probability, over time or without it:       *)
(* importance analysis for the events of the products, uncertainty         *)
(* analysis, or neither.                                                   *)
Occurring == UNION {{Abs(l) : l \in product} : product \in ProductsReported}

Continues ==
  /\ stage' \in {"importance", "uncertainty", "done"}
  /\ events' = IF stage' = "importance" THEN Occurring ELSE {}

Total ==
  /\ stage = "total"
  /\ CalculateTotalProbability(p_vars)
  /\ p_total' = answer'.value
  /\ Continues \/ (stage' = "over time" /\ events' = {})
  /\ UNCHANGED <<allvars, p_vars, p_mission>>

(* CalculateProbabilityOverTime: at each time before the mission's the     *)
(* events have probabilities of their own.                                 *)
Update ==
  /\ stage = "over time"
  /\ p_vars' \in SUBSET Variables(graph)
  /\ CalculateTotalProbability(p_vars')
  /\ UNCHANGED <<allvars, stage, p_mission, p_total, events>>

(* Seeded defect: a mission that the step divides ends one step earlier.   *)
LastUpdateLeftOut ==
  /\ stage = "over time"
  /\ Continues
  /\ UNCHANGED <<allvars, analyzer, p_total, answer>>

LastUpdate ==
  /\ stage = "over time"
  /\ p_vars' = p_mission
  /\ CalculateTotalProbability(p_mission)
  /\ Continues
  /\ UNCHANGED <<allvars, p_mission, p_total>>

(* ImportanceAnalysis::Analyze, one event.                                 *)
CalculateMif ==
  /\ stage = "importance" /\ events /= {}
  /\ LET event == CHOOSE e \in events : \A f \in events : e <= f
         original_mark == vertices.mark[Root]
         factors == CalculateFactor(vertices, Root, order[event], ~original_mark, p_vars)
     IN /\ vertices' = IF Root.terminal THEN vertices ELSE ClearMarks(factors, Root, original_mark)
        /\ answer' = Answer("factor", event, p_vars, RetrieveFactor(vertices', Root))
        /\ events' = events \ {event}
  /\ UNCHANGED <<allvars, stage, current_mark, p_vars, p_mission, p_total>>

ImportanceAnalyzed ==
  /\ stage = "importance" /\ events = {}
  /\ stage' \in {"uncertainty", "done"}
  /\ UNCHANGED <<allvars, analyzer, p_total, events, answer>>

(* UncertaintyAnalyzer::Sample, one trial, on a copy of the probabilities. *)
Sample ==
  /\ stage = "uncertainty"
  /\ \E sampled \in SUBSET Variables(graph) : CalculateTotalProbability(sampled)
  /\ UNCHANGED <<allvars, stage, p_vars, p_mission, p_total, events>>

Sampled ==
  /\ stage = "uncertainty"
  /\ stage' = "done"
  /\ UNCHANGED <<allvars, analyzer, p_total, events, answer>>

QuantityNext ==
  \/ AnalysisNext /\ UNCHANGED quantityVars
  \/ CreateAnalyzer \/ Total \/ Update \/ LastUpdate
  \/ CalculateMif \/ ImportanceAnalyzed \/ Sample \/ Sampled

QuantitySpec == QuantityInit /\ [][QuantityNext]_<<allvars, quantityVars>>

-----------------------------------------------------------------------------
TopProbability(likely) == IF Truth(graph, likely) THEN 1 ELSE 0

TopFactor(event, likely) ==
  TopProbability(likely \cup {event}) - TopProbability(likely \ {event})

(* Between two calculations all vertices have one mark, modules included, *)
(* and the analyzer knows which.                                           *)
MarksAgree == \A v \in DOMAIN vertices.mark : vertices.mark[v] = current_mark

(* probability_analysis.h:323, importance_analysis.h:184, importance_      *)
(* analysis.cc:86: no value that a vertex keeps from another calculation   *)
(* goes into a result, or will into the next: a probability is that of the *)
(* top event with the probabilities asked for, a factor the difference an  *)
(* event makes, but for the complement of the root, and goes with the total*)
QuantitiesCurrent ==
  answer /= NoAnswer =>
    /\ MarksAgree
    /\ answer.kind = "probability" => answer.value = TopProbability(answer.likely)
    /\ answer.kind = "factor" =>
         /\ answer.value = Inverted(root[1].complement, TopFactor(answer.event, answer.likely))
         /\ p_total = TopProbability(answer.likely)

(* doc/theory.rst:288, importance_analysis.h:165: the marginal importance  *)
(* of an event is the probability of the top event with it less that       *)
(* without it, also where the root of the diagram is complemented.         *)
FactorsAsDefined ==
  answer /= NoAnswer /\ answer.kind = "factor" => answer.value = TopFactor(answer.event, answer.likely)
=============================================================================
