---------------------------- MODULE MCRiskAnalysis ----------------------------
EXTENDS EventTreeAnalysis

CONSTANTS pump, valve, night, day, outage, top

Set(e, s) == [event |-> e, state |-> s]

MCAlignments == {{}, {{night, day}}, {{outage}}, {{night, day}, {outage}}}

MCInstructions ==
  (night :> <<Set(pump, TRUE), Set(valve, FALSE)>>) @@
  (day :> <<Set(valve, TRUE)>>) @@
  (outage :> <<Set(pump, FALSE), Set(pump, FALSE)>>)

(* A phase with two instructions for one house event.                      *)
ConflictingInstructions ==
  [MCInstructions EXCEPT ![night] = <<Set(pump, TRUE), Set(pump, FALSE)>>]

MCFraction == (night :> 1) @@ (day :> 3) @@ (outage :> 4)

-----------------------------------------------------------------------------
(* Event trees: a fire has its own tree, which links to that of a leak.    *)
SetHouse(e, s) == [kind |-> "set", event |-> e, state |-> s]
Collect(b, h) == [kind |-> "collect", formula |-> [basic |-> b, house |-> h]]
LinkTo(tree) == [kind |-> "link", tree |-> tree]
IfFork(event, state, then, else) ==
  [kind |-> "test", test |-> [kind |-> "functional", event |-> event, state |-> state],
   then |-> then, else |-> else]
IfInitiated(event, then) ==
  [kind |-> "test", test |-> [kind |-> "initiating", event |-> event], then |-> then, else |-> <<>>]

To(sequence) == [kind |-> "sequence", name |-> sequence]
Via(branch) == [kind |-> "branch", branch |-> branch]
Branch(instructions, goal) == [instructions |-> instructions, target |-> goal]
Path(state, branch) == [state |-> state, branch |-> branch]
Fork(event, paths) == [kind |-> "fork", event |-> event, paths |-> paths]

MCTreeOf == "fire" :> "burning" @@ "leak" :> "flooding"

(* Paths that set house events before, between and after what they collect;*)
(* the branch both paths of a fork come to tests which of them it was.  One*)
(* path to the dry end collects nothing.                                   *)
Flooding(instructions) ==
  LET late == Branch(<<IfFork("drain", "closed", <<Collect(2, valve)>>, <<Collect(1, pump)>>)>>, To("spill"))
  IN Branch(instructions,
       Fork("drain", <<Path("open", Branch(<<Collect(1, valve)>>,
                         Fork("door", <<Path("open", Branch(<<SetHouse(valve, FALSE), Collect(2, valve)>>, To("dry"))),
                                        Path("closed", Branch(<<Collect(2, pump)>>, Via(late)))>>))),
                       Path("closed", Branch(<<SetHouse(pump, TRUE)>>,
                         Fork("door", <<Path("open", Branch(<<>>, To("dry"))),
                                        Path("closed", Branch(<<>>, Via(late)))>>)))>>))

(* The linked tree has the functional event of the same name.              *)
Burning(instructions) ==
  Branch(<<Collect(1, pump)>>,
    Fork("drain", <<Path("closed", Branch(instructions, To("burnt"))),
                    Path("open", Branch(<<>>, To("out")))>>))

Forest(flooding, burning, out) ==
  [trees |-> "flooding" :> Flooding(flooding) @@ "burning" :> Burning(burning),
   sequences |-> "dry" :> <<>> @@ "spill" :> <<>> @@ "out" :> out @@ "burnt" :> <<LinkTo("flooding")>>]

MCForests ==
  {Forest(<<SetHouse(valve, TRUE)>>, <<SetHouse(valve, FALSE)>>,
          <<IfFork("drain", "open", <<Collect(2, valve)>>, <<>>)>>),
   Forest(<<IfInitiated("fire", <<Collect(2, pump)>>),
            IfFork("drain", "closed", <<SetHouse(valve, TRUE)>>, <<>>)>>,
          <<SetHouse(valve, FALSE), Collect(2, pump)>>, <<>>)}

MCSequences == {<<"fire", "out">>, <<"fire", "dry">>, <<"fire", "spill">>,
                <<"leak", "dry">>, <<"leak", "spill">>}

-----------------------------------------------------------------------------
(* The reference: what leads to sequences from a place in a tree, where    *)
(* tests see the forks above in the same tree, and house events are what   *)
(* the path has made of them.                                              *)
RECURSIVE Outcomes(_, _, _)
Outcomes(todo, place_, scope) ==
  IF todo /= <<>>
  THEN LET i == Head(todo)
           Rest(more, s) == Outcomes(more \o Tail(todo), place_, s)
           Holds_(e) == IF e \in DOMAIN scope.states THEN scope.states[e] ELSE house[e]
           tree == forest.trees[i.tree]
           passes == IF i.test.kind = "initiating" THEN i.test.event = initiating
                     ELSE <<i.test.event, i.test.state>> \in scope.forks
       IN CASE i.kind = "set" -> Rest(<<>>, [scope EXCEPT !.states = (i.event :> i.state) @@ @])
            [] i.kind = "collect" ->
                 Rest(<<>>, [scope EXCEPT !.wants = @ \cup {<<i.formula.basic, Holds_(i.formula.house)>>}])
            [] i.kind = "test" -> Rest(IF passes THEN i.then ELSE i.else, scope)
            [] i.kind = "link" ->
                 Outcomes(tree.instructions, tree.target, [scope EXCEPT !.forks = {}])
                 \cup Rest(<<>>, [scope EXCEPT !.goesOn = TRUE])
  ELSE CASE place_.kind = "branch" -> Outcomes(place_.branch.instructions, place_.branch.target, scope)
         [] place_.kind = "sequence" ->
              Outcomes(forest.sequences[place_.name], [place_ EXCEPT !.kind = "end"],
                       [scope EXCEPT !.goesOn = FALSE])
         [] place_.kind = "end" ->
              IF scope.goesOn THEN {} ELSE {[sequence |-> place_.name, wants |-> scope.wants]}
         [] place_.kind = "fork" ->
              UNION {Outcomes(path.branch.instructions, path.branch.target,
                              [scope EXCEPT !.forks = @ \cup {<<place_.event, path.state>>}]) :
                       path \in {place_.paths[j] : j \in DOMAIN place_.paths}}

OutcomesOf(event) ==
  LET tree == forest.trees[TreeOf[event]]
  IN Outcomes(tree.instructions, tree.target,
              [states |-> <<>>, wants |-> {}, forks |-> {}, goesOn |-> FALSE])

Met(wants, true) == \A w \in wants : w[1] \in true /\ w[2]

(* event_tree_analysis.h:96, event_tree_analysis.cc:98-154, 170-226: the   *)
(* gate of a sequence happens in a phase if all that a path to it collects *)
(* does, in the states that the phase and the path give to house events;   *)
(* nothing leaks from one path, tree or initiating event to another.  A    *)
(* path that collects nothing counts only beside others like it.           *)
SequencesMeanTheirPaths ==
  pc = "targets" /\ collectors = <<>> /\ initiating /= NoEvent =>
    LET outcomes == OutcomesOf(initiating)
    IN /\ DOMAIN sequences = {o.sequence : o \in outcomes}
       /\ \A s \in DOMAIN sequences, true \in SUBSET BasicEvents :
            LET collecting == {o \in outcomes : o.sequence = s /\ o.wants /= {}}
            IN GateHappens(sequences[s], true)
                 = (collecting = {} \/ \E o \in collecting : Met(o.wants, true))
=============================================================================
