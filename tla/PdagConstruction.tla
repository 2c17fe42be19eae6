-------------------------- MODULE PdagConstruction --------------------------
(***************************************************************************)
(* The construction of a PDAG from the gates of a model (src/src/pdag.cc,  *)
(* the constructor, ConstructGate and what they call).  A stack makes the  *)
(* recursion explicit.                                                     *)
(*                                                                         *)
(* A model is a record of                                                  *)
(*   top      : the formula of the top event                               *)
(*   gates    : the formulas of named gates                                *)
(*   houses   : the states of house events                                 *)
(*   basics   : basic events, named by the indices of their variables      *)
(*   ccf_gate : what stands for members of CCF groups in their analysis    *)
(*   rules    : the declarative substitutions, hypotheses with a target    *)
(* and a formula has a connective, numbers and distinct arguments, each an *)
(* event with or without complement.                                       *)
(***************************************************************************)
EXTENDS PdagGates, SequencesExt

CONSTANT Models    \* the models, in which validation found no fault

VARIABLES
  model, ccf,    \* the model, and whether CCF groups are analyzed
  graph,
  nodes,         \* the gates of the model that are done, or 0
  calls          \* one frame for each ConstructGate under way

(* An argument of a formula.  The kinds of events are "basic", "house" and *)
(* "gate", and for what has no name in the model "formula" and "node".     *)
Arg(complement, kind, name) == [complement |-> complement, event |-> [kind |-> kind, name |-> name]]

IsVariable(event) == event.kind = "basic" /\ ~(ccf /\ event.name \in DOMAIN model.ccf_gate)

(* A member of a CCF group gives way to its gate.                          *)
GateOf(event) == IF event.kind = "basic" THEN model.ccf_gate[event.name] ELSE event.name

FormulaOf(event) == IF event.kind = "formula" THEN event.name ELSE model.gates[GateOf(event)]

(* Substitutions that are declarative hold with the top event: each is an  *)
(* implication, or a denial.                                               *)
RuleFormula(rule) ==
  [connective |-> IF rule.target = 0 THEN "denial" ELSE "implication", min |-> 0, max |-> 0,
   args |-> <<Arg(TRUE, "formula", rule.hypothesis)>>
              \o IF rule.target = 0 THEN <<>> ELSE <<Arg(FALSE, "basic", rule.target)>>]

Application(m) ==
  [connective |-> "application", min |-> 0, max |-> 0,
   args |-> <<Arg(FALSE, "formula", m.top)>>
              \o [i \in DOMAIN m.rules |-> Arg(FALSE, "formula", RuleFormula(m.rules[i]))]]

Whole(m) == IF m.rules = <<>> THEN m.top ELSE Application(m)

-----------------------------------------------------------------------------
(* The graph before any gate.                                              *)
NewGraph(m) ==
  [type |-> <<>>, min |-> <<>>, args |-> <<>>, parents |-> [n \in {kConstant} \cup m.basics |-> {}],
   module |-> {}, nulls |-> <<>>, registers |-> TRUE, last |-> CHOOSE n \in m.basics : \A o \in m.basics : o <= n,
   root |-> 0, complement |-> FALSE, coherent |-> TRUE, normal |-> TRUE]

Registered(g, i) == [g EXCEPT !.nulls = Append(@, i)]

(* A gate of its own that holds the state of a house event.                *)
AddHouse(g, p, arg, state) ==
  LET null == Next_(g)
      held == AddArg(Created(g, "null", 0), null, Signed(arg.complement /= ~state, kConstant))
  IN Registered(AddArg(held, p, null), null)

(* What well_form makes of the halves of a cardinality.                    *)
WellForm(g, i) ==
  CASE g.min[i] = 0 -> MakeConstant(g, i, TRUE)
    [] g.min[i] = 1 -> Typed(g, i, "or")
    [] g.min[i] > 1 /\ g.min[i] = Cardinality(g.args[i]) -> Typed(g, i, "and")
    [] OTHER -> g

IsComplex(f) == f.connective \in {"iff", "imply", "cardinality", "application"}

(* The type of the gate that takes the arguments, and its number.          *)
TakingType(f) ==
  CASE f.connective = "iff" -> "xor"
    [] f.connective = "imply" -> "or"
    [] f.connective = "cardinality" -> "atleast"
    [] f.connective \in {"implication", "denial"} -> "or"
    [] f.connective = "application" -> "and"
    [] OTHER -> f.connective

Taken(f) ==
  IF f.connective = "imply"
  THEN [f.args EXCEPT ![1].complement = ~@]
  ELSE f.args

(* Seeded defect: complements of arguments do not count.                   *)
IsCoherentType(f) == ~IsComplex(f) /\ f.connective \notin {"not", "nand", "nor", "xor"}

IsCoherent(f) == IsCoherentType(f) /\ \A i \in DOMAIN f.args : ~f.args[i].complement

IsNormal(f) == f.connective \in {"and", "or", "imply", "implication", "denial", "application"}

(* The gates of a formula before their arguments: the outer gate of an     *)
(* equivalence or a cardinality comes before the one that takes arguments. *)
Begun(g, f) ==
  LET flagged == [g EXCEPT !.coherent = @ /\ IsCoherent(f), !.normal = @ /\ IsNormal(f)]
      outer == CASE f.connective = "iff" -> Created(flagged, "null", 0)
                 [] f.connective = "cardinality" -> Created(flagged, "and", 0)
                 [] OTHER -> flagged
      inner == Created(outer, TakingType(f), f.min)
  IN IF f.connective = "null" THEN Registered(inner, inner.last) ELSE inner

(* The gates of a formula when the arguments are there.                    *)
Finished(g, f, taking) ==
  LET outer == taking - 1
      second == Next_(g)
      halves == NegateArgs([Clone(g, taking) EXCEPT !.min[second] = Len(f.args) - f.max], second)
  IN CASE f.connective = "iff" -> Registered(AddArg(g, outer, -taking), outer)
       [] f.connective = "cardinality" ->
            AddArg(AddArg(WellForm(WellForm(halves, taking), second), outer, taking), outer, second)
       [] f.connective = "denial" -> Typed(g, taking, "null")
       [] OTHER -> g

Outermost(f, taking) == IF f.connective \in {"iff", "cardinality"} THEN taking - 1 ELSE taking

-----------------------------------------------------------------------------
Living(g) == DOMAIN g.type

RECURSIVE Reached(_, _)
Reached(g, S) ==
  LET next == S \cup UNION {{Abs(a) : a \in g.args[i]} \cap Living(g) : i \in S}
  IN IF next = S THEN S ELSE Reached(g, next)

(* Gates that nothing holds are destroyed and leave their arguments.       *)
Held(g, holders) ==
  LET alive == Reached(g, {g.root} \cup holders)
      Kept(f) == [i \in alive |-> f[i]]
  IN [g EXCEPT !.type = Kept(@), !.min = Kept(@), !.args = Kept(@), !.module = @ \cap alive,
               !.parents = [n \in alive \cup (DOMAIN @ \ Living(g)) |-> @[n] \cap alive]]

-----------------------------------------------------------------------------
Frame(f, event, taking) == [formula |-> f, event |-> event, taking |-> taking, todo |-> Taken(f)]

Call == Head(calls)

NextArg == Head(Call.todo)

ConstructInit ==
  /\ model \in Models
  /\ ccf \in IF DOMAIN model.ccf_gate = {} THEN {FALSE} ELSE BOOLEAN
  /\ graph = NewGraph(model)
  /\ nodes = [name \in DOMAIN model.gates |-> 0]
  /\ calls = <<>>

(* The call for an event that is a gate not yet done, or has no name.      *)
Enter(event) ==
  LET f == FormulaOf(event)
  IN /\ graph' = Begun(graph, f)
     /\ calls' = <<Frame(f, event, graph'.last)>> \o calls
     /\ UNCHANGED <<model, ccf, nodes>>

Construct == calls = <<>> /\ graph.root = 0 /\ Enter([kind |-> "formula", name |-> Whole(model)])

IsDone(event) == nodes[GateOf(event)] /= 0

ConstructGate ==
  /\ calls /= <<>> /\ Call.todo /= <<>>
  /\ NextArg.event.kind \in {"basic", "gate", "formula"} /\ ~IsVariable(NextArg.event)
  /\ NextArg.event.kind /= "formula" => ~IsDone(NextArg.event)
  /\ Enter(NextArg.event)

Advanced == <<[Call EXCEPT !.todo = Tail(@)]>> \o Tail(calls)

TakesNode(node) ==
  /\ graph' = AddArg(graph, Call.taking, Signed(NextArg.complement, node))
  /\ calls' = Advanced
  /\ UNCHANGED <<model, ccf, nodes>>

(* AddArg of the various kinds of events.                                  *)
AddVariable ==
  /\ calls /= <<>> /\ Call.todo /= <<>> /\ IsVariable(NextArg.event)
  /\ TakesNode(NextArg.event.name)

AddGate ==
  /\ calls /= <<>> /\ Call.todo /= <<>>
  /\ \/ NextArg.event.kind = "node" /\ TakesNode(NextArg.event.name)
     \/ /\ NextArg.event.kind \in {"basic", "gate"} /\ ~IsVariable(NextArg.event)
        /\ IsDone(NextArg.event)
        /\ TakesNode(nodes[GateOf(NextArg.event)])

AddHouseEvent ==
  /\ calls /= <<>> /\ Call.todo /= <<>> /\ NextArg.event.kind = "house"
  /\ graph' = AddHouse(graph, Call.taking, NextArg, model.houses[NextArg.event.name])
  /\ calls' = Advanced
  /\ UNCHANGED <<model, ccf, nodes>>

(* All arguments are in: the gate goes to the call that asked for it.      *)
Return ==
  LET made == Outermost(Call.formula, Call.taking)
      finished == Finished(graph, Call.formula, Call.taking)
      asked == <<[calls[2] EXCEPT !.todo[1].event = [kind |-> "node", name |-> made]]>>
  IN
  /\ calls /= <<>> /\ Call.todo = <<>>
  /\ nodes' = IF Call.event.kind = "formula" THEN nodes ELSE [nodes EXCEPT ![GateOf(Call.event)] = made]
  /\ IF Len(calls) = 1
     THEN calls' = <<>> /\ graph' = Held([finished EXCEPT !.root = made], {})
     ELSE calls' = asked \o Tail(Tail(calls)) /\ graph' = finished
  /\ UNCHANGED <<model, ccf>>

-----------------------------------------------------------------------------
(* The reference: the truth of a model's formulas when just the variables  *)
(* in true happen.                                                         *)
Counts(connective, min, max, n, count) ==
  CASE connective \in {"and", "null", "application"} -> count = n
    [] connective \in {"or", "implication", "denial"} -> count > 0
    [] connective = "nand" -> count < n
    [] connective \in {"nor", "not"} -> count = 0
    [] connective = "xor" -> count = 1
    [] connective = "iff" -> count \in {0, 2}
    [] connective = "atleast" -> count >= min
    [] connective = "cardinality" -> count \in min..max

RECURSIVE Happens(_, _)
Happens(f, true) ==
  LET Meets(arg) ==
        arg.complement /=
          CASE arg.event.kind = "house" -> model.houses[arg.event.name]
            [] IsVariable(arg.event) -> arg.event.name \in true
            [] OTHER -> Happens(FormulaOf(arg.event), true)
      met == {i \in DOMAIN f.args : Meets(f.args[i])}
  IN IF f.connective = "imply"
     THEN 1 \in met => 2 \in met
     ELSE Counts(f.connective, f.min, f.max, Len(f.args), Cardinality(met))

TopHappens(true) == Happens(Whole(model), true)

(* The truth of a graph.                                                   *)
RECURSIVE NodeHappens(_, _, _)
NodeHappens(g, n, true) ==
  LET met == {a \in g.args[n] : (a < 0) /= NodeHappens(g, Abs(a), true)}
  IN CASE n = kConstant -> TRUE
       [] n \notin DOMAIN g.type /\ n /= kConstant -> n \in true
       [] n \in DOMAIN g.type -> Counts(g.type[n], g.min[n], 0, Cardinality(g.args[n]), Cardinality(met))

GraphHappens(g, true) == g.complement /= NodeHappens(g, g.root, true)
=============================================================================
