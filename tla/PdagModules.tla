----------------------------- MODULE PdagModules -----------------------------
(***************************************************************************)
(* Detection of modules, gates whose graphs share nothing with the rest,   *)
(* by the times at which a traversal visits nodes                          *)
(* (src/src/preprocessor.cc, DetectModules and what it calls).  Arguments  *)
(* that are modules together get a gate of their own.                      *)
(***************************************************************************)
EXTENDS Pdag

(* Seeded defect: a gate seen again is not timed.                          *)
VisitTwice(visits, n, time) ==
  [visits EXCEPT ![n] = IF Len(@) < 2 THEN Append(@, time) ELSE @]

(* Visits of a node: entered, left, and last seen from another parent.     *)
Visit(visits, n, time) ==
  [visits EXCEPT ![n] = IF Len(@) < 3 THEN Append(@, time) ELSE [@ EXCEPT ![3] = time]]

Ordered(S) == SetToSortSeq(S, LAMBDA m, n : IF descending THEN m > n ELSE m < n)

(* A gate and, once it is entered, its arguments, gates first; the negative*)
(* index is the exit.                                                      *)
Entering(g, i) ==
  LET below == {Abs(a) : a \in g.args[i]}
  IN Ordered(below \cap Living(g)) \o Ordered(below \ Living(g)) \o <<-i>>

(* AssignTiming, with what is left to visit.                               *)
RECURSIVE Timing(_, _, _, _)
Timing(g, left, time, visits) ==
  IF left = <<>> THEN visits
  ELSE LET n == Head(left)
           once == Visit(visits, Abs(n), time + 1)
       IN CASE n < 0 -> Timing(g, Tail(left), time + 1, once)
            [] n \in Living(g) /\ visits[n] = <<>> ->
                 Timing(g, Entering(g, n) \o Tail(left), time + 1, once)
            [] n \in Living(g) /\ visits[n] /= <<>> -> Timing(g, Tail(left), time + 1, once)
            [] n > 0 /\ n \notin Living(g) -> Timing(g, Tail(left), time + 1, Visit(once, n, time + 1))

AssignTiming(g) == Timing(g, <<g.root>>, 0, [n \in DOMAIN g.parents |-> <<>>])

EnterTime(visits, n) == visits[n][1]

ExitTime(visits, n) == visits[n][2]

LastVisit(visits, n) == Last(visits[n])

Revisited(visits, n) == Len(visits[n]) = 3

-----------------------------------------------------------------------------
DetectModules ==
  /\ At("detect modules", "")
  /\ step' = "finding"
  /\ todo' = Living(graph)
  /\ memo' = [visits |-> AssignTiming(graph), bounds |-> <<>>, requests |-> <<>>]
  /\ UNCHANGED <<model_vars, graph, plan, held, null_vars>>

Enter_(n) == EnterTime(memo.visits, n)

Exit_(n) == ExitTime(memo.visits, n)

(* min_time and max_time: of all visits in the graph of a gate, and of a   *)
(* variable its own.                                                       *)
Bounds(n) ==
  IF n \in DOMAIN memo.bounds THEN memo.bounds[n] ELSE <<Enter_(n), LastVisit(memo.visits, n)>>

WithinGraph(n, i) == Bounds(n)[1] > Enter_(i) /\ Bounds(n)[2] < Exit_(i)

Overlap(m, n) == Bounds(m)[1] <= Bounds(n)[2] /\ Bounds(m)[2] >= Bounds(n)[1]

IsGate(a) == Abs(a) \in Living(graph)

NonShared(i) ==
  {a \in graph.args[i] :
     IF IsGate(a)
     THEN Abs(a) \in graph.module /\ ~Revisited(memo.visits, Abs(a))
     ELSE Cardinality(graph.parents[Abs(a)]) = 1}

Modular(i) == {a \in graph.args[i] \ NonShared(i) : WithinGraph(Abs(a), i)}

NonModular(i) == graph.args[i] \ (NonShared(i) \cup Modular(i))

MinTime(i) == Min({Enter_(i)} \cup {Bounds(Abs(a))[1] : a \in NonModular(i)})

MaxTime(i) == Max({Exit_(i)} \cup {Bounds(Abs(a))[2] : a \in NonModular(i)})

(* GroupModularArgs: arguments whose times overlap, directly or not.       *)
RECURSIVE Overlapping(_, _)
Overlapping(S, all) ==
  LET more == {a \in all : \E b \in S : Overlap(Abs(a), Abs(b))}
  IN IF more \subseteq S THEN S ELSE Overlapping(S \cup more, all)

(* FilterModularArgs: a group is out if it overlaps what is not modular.   *)
Groups(i) ==
  {group \in {Overlapping({a}, Modular(i)) : a \in Modular(i)} :
     \A a \in group, b \in NonModular(i) : ~Overlap(Abs(a), Abs(b))}

Grouping == {"and", "or", "nand", "nor"}

(* The modules asked for below a gate, each with the gate whose arguments  *)
(* it takes: those that nobody shares, those that are modular together, and*)
(* the groups of the latter.                                               *)
Takes(i, args, n) == IF Cardinality(args) > 1 /\ Cardinality(args) < n THEN <<<<i, args>>>> ELSE <<>>

Requests(i) ==
  LET nonshared == Takes(i, NonShared(i), Cardinality(graph.args[i]))
      rest == Cardinality(graph.args[i]) - (IF nonshared = <<>> THEN 0 ELSE Cardinality(NonShared(i)) - 1)
      modular == UNION Groups(i)
      all == Takes(i, modular, rest)
      main == IF all = <<>> THEN i ELSE Next_(graph) + Len(nonshared)
      groups == SetToSeq(Groups(i))
  IN IF graph.type[i] \notin Grouping THEN <<>>
     ELSE nonshared \o all
          \o FlattenSeq([j \in DOMAIN groups |-> Takes(main, groups[j], Cardinality(modular))])

FindModules ==
  /\ At("detect modules", "finding") /\ memo.requests = <<>> /\ todo /= {}
  /\ LET i == First(Ready)
         whole == MinTime(i) = Enter_(i) /\ MaxTime(i) = Exit_(i)
         last == Max({MaxTime(i), LastVisit(memo.visits, i)})
     IN /\ graph' = IF whole THEN [graph EXCEPT !.module = @ \cup {i}] ELSE graph
        /\ memo' = [memo EXCEPT !.bounds = (i :> <<MinTime(i), last>>) @@ @, !.requests = Requests(i)]
        /\ todo' = todo \ {i}
  /\ UNCHANGED <<model_vars, plan, step, held, null_vars>>

(* A gate of the same logic takes the arguments.                           *)
Modularized(g, i, args) ==
  LET module == Next_(g)
      bare == Created(g, IF g.type[i] \in {"and", "nand"} THEN "and" ELSE "or", 0)
      Passed_(parents, n) == IF {n, -n} \cap args /= {} THEN (parents \ {i}) \cup {module} ELSE parents
  IN [bare EXCEPT !.args[module] = args, !.args[i] = (@ \ args) \cup {module},
                  !.parents = [n \in DOMAIN @ |-> IF n = module THEN {i} ELSE Passed_(@[n], n)],
                  !.module = @ \cup {module}]

CreateNewModule ==
  /\ At("detect modules", "finding") /\ memo.requests /= <<>>
  /\ graph' = Modularized(graph, Head(memo.requests)[1], Head(memo.requests)[2])
  /\ memo' = [memo EXCEPT !.requests = Tail(@)]
  /\ UNCHANGED <<model_vars, plan, step, todo, held, null_vars>>

ModulesFound ==
  /\ At("detect modules", "finding") /\ memo.requests = <<>> /\ todo = {}
  /\ ContinueWith(<<>>)
  /\ UNCHANGED <<model_vars, graph, null_vars>>

ModuleStep == DetectModules \/ FindModules \/ CreateNewModule \/ ModulesFound

(* The assertions on the arguments of the gate that comes next.            *)
ArgumentsAccepted ==
  At("detect modules", "finding") /\ memo.requests = <<>> /\ todo /= {} =>
    LET i == First(Ready)
        modular == UNION Groups(i)
    IN /\ \A a \in NonShared(i) : graph.parents[Abs(a)] = {i} /\ WithinGraph(Abs(a), i)
       /\ MinTime(i) = Enter_(i) /\ MaxTime(i) = Exit_(i) /\ i \notin graph.module => NonModular(i) = {}
       /\ graph.type[i] \in Grouping =>
            /\ \A group \in Groups(i) : Cardinality(group) > 1
            /\ modular = graph.args[i] => i \in graph.module \/ NonModular(i) = {}
            /\ NonShared(i) = graph.args[i] /\ Cardinality(NonShared(i)) > 1 =>
                 i \in graph.module \/ NonModular(i) = {}
=============================================================================
