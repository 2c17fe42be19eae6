----------------------------- MODULE PdagMerging -----------------------------
(***************************************************************************)
(* What gates of a PDAG have in common (src/src/preprocessor.cc): gates    *)
(* that are defined more than once and gates that join the arguments of    *)
(* arguments of the same logic (ProcessMultipleDefinitions, CoalesceGates),*)
(* and common arguments that get a gate of their own (MergeCommonArgs,     *)
(* DetectDistributivity), with what these call.                            *)
(***************************************************************************)
EXTENDS Pdag

(* Passes that start all over until they change nothing end there.         *)
RootIsConstant == Constant(graph, graph.root)

-----------------------------------------------------------------------------
(* Seeded defect: the number of a vote does not count.                     *)
DefinitionWithoutNumber(i) == <<graph.type[i], graph.args[i], 0>>

(* GateSet: gates are equal with their logic, arguments and numbers.       *)
Definition(i) ==
  <<graph.type[i], graph.args[i], IF graph.type[i] = "atleast" THEN graph.min[i] ELSE 0>>

(* Modules are unique by definition.                                       *)
Alike(i) == {j \in Living(graph) \ graph.module : Definition(j) = Definition(i)}

Duplicates == {<<i, First(Alike(i))>> : i \in Living(graph) \ graph.module}

ProcessMultipleDefinitions ==
  LET duplicates == {d \in Duplicates : d[1] /= d[2]}
  IN /\ At("definitions", "")
     /\ IF RootIsConstant \/ duplicates = {}
        THEN ContinueWith(<<>>)
        ELSE /\ step' = "replacing"
             /\ todo' = duplicates
             /\ held' = {d[2] : d \in duplicates}
             /\ UNCHANGED <<plan, memo>>
     /\ UNCHANGED <<model_vars, graph, null_vars>>

(* ReplaceGate: the original takes the places of a duplicate one by one.   *)
ReplaceGate ==
  /\ At("definitions", "replacing") /\ todo /= {}
  /\ LET first == First({d[1] : d \in todo})
         original == (CHOOSE d \in todo : d[1] = first)[2]
     IN IF first \notin Living(graph) \/ graph.parents[first] = {}
        THEN /\ todo' = todo \ {<<first, original>>}
             /\ graph' = Held(graph, held)
             /\ UNCHANGED misjoined
        ELSE LET p == First(graph.parents[first])
                 place == Place(graph, first, p)
                 arg == Signed(place < 0, original)
             IN /\ graph' = Held(AddArg(EraseArg(graph, p, place), p, arg), held \cup {first})
                /\ misjoined' = (misjoined \/ MeetsItself(p, arg))
                /\ UNCHANGED todo
  /\ UNCHANGED <<model_vars, plan, step, memo, held, pending, propagating>>

Replaced ==
  /\ At("definitions", "replacing") /\ todo = {}
  /\ Interrupted
  /\ UNCHANGED <<model_vars, graph, todo, memo, held, null_vars>>

-----------------------------------------------------------------------------
Coalescing(s) == At("coalesce", s) \/ At("coalesce common", s)

(* The logic of the arguments that a gate can join.                        *)
TargetType(type) ==
  CASE type \in {"and", "nand"} -> "and" [] type \in {"or", "nor"} -> "or" [] OTHER -> "none"

(* Seeded defect: modules are joined as well, and what is left of their    *)
(* arguments is shared with the rest.                                      *)
JoinableAnyhow(i) ==
  {a \in graph.args[i] \cap Living(graph) :
     graph.type[a] = TargetType(graph.type[i]) /\ ~Constant(graph, a)}

(* Positive gates of the same logic; modules are preserved, and gates with *)
(* other parents in all but the last phase.                                *)
Joinable(i) ==
  {a \in graph.args[i] \cap Living(graph) :
     /\ graph.type[a] = TargetType(graph.type[i])
     /\ ~Constant(graph, a) /\ a \notin graph.module
     /\ At("coalesce", step) => Cardinality(graph.parents[a]) = 1}

StartCoalescing ==
  /\ Coalescing("")
  /\ IF RootIsConstant
     THEN ContinueWith(<<>>)
     ELSE /\ step' = "coalescing"
          /\ todo' = Living(graph)
          /\ memo' = [joins |-> {}, gate |-> 0, changed |-> FALSE]
          /\ UNCHANGED <<plan, held>>
  /\ UNCHANGED <<model_vars, graph, null_vars>>

(* Seeded defect: a gate that joins nothing counts as a change.            *)
AlwaysChanges(i) == TRUE

Changes(i) == memo.changed \/ Joinable(i) /= {}

(* A gate, its arguments done, finds what it can join.                     *)
CoalesceGates ==
  /\ Coalescing("coalescing") /\ memo.joins = {} /\ Left /= {}
  /\ LET i == First(Ready)
     IN /\ memo' = [joins |-> Joinable(i), gate |-> i, changed |-> Changes(i)]
        /\ todo' = todo \ {i}
  /\ UNCHANGED <<model_vars, graph, plan, step, held, null_vars>>

(* Gate::CoalesceGate: all arguments come in before the gate goes.         *)
Coalesced(g, i, j) ==
  LET joined == FoldSet(LAMBDA a, h : IF Constant(h, i) THEN h ELSE AddArg(h, i, a), g, g.args[j])
  IN IF Constant(joined, i) THEN joined ELSE EraseArg(joined, i, j)

CoalesceGate ==
  /\ Coalescing("coalescing") /\ memo.joins /= {}
  /\ LET j == First(memo.joins)
         coalesced == Coalesced(graph, memo.gate, j)
     IN /\ graph' = Held(coalesced, {memo.gate} \cup (memo.joins \ {j}))
        /\ memo' = [memo EXCEPT !.joins = IF Constant(coalesced, memo.gate) THEN {} ELSE @ \ {j}]
  /\ UNCHANGED <<model_vars, plan, step, todo, held, null_vars>>

(* Until nothing changes.                                                  *)
GatesCoalesced ==
  /\ Coalescing("coalescing") /\ memo.joins = {} /\ Left = {}
  /\ graph' = Held(graph, {})
  /\ IF memo.changed
     THEN Interrupted /\ UNCHANGED <<todo, memo, held>>
     ELSE ContinueWith(<<>>)
  /\ UNCHANGED <<model_vars, null_vars>>

SharingStep ==
  \/ ProcessMultipleDefinitions \/ ReplaceGate \/ Replaced
  \/ StartCoalescing \/ CoalesceGates \/ CoalesceGate \/ GatesCoalesced

-----------------------------------------------------------------------------
(* An option is a set of arguments with parents that have them.  The code  *)
(* ranks options by how much they promise; here any may come first.        *)
Option(args, parents) == [args |-> args, parents |-> parents]

(* GroupCommonParents: of the gates that share what some two of them share.*)
Options(args, least) ==
  LET pairs == {p \in SUBSET DOMAIN args : Cardinality(p) = 2}
      Common(p) == {a \in UNION {args[i] : i \in p} : \A i \in p : a \in args[i]}
  IN {Option(c, UNION {p \in pairs : Common(p) = c}) :
        c \in {s \in {Common(p) : p \in pairs} : Cardinality(s) >= least}}

BySize(options) == SetToSortSeq(options, LAMBDA o, p : Cardinality(o.args) < Cardinality(p.args))

(* FindOptionGroup: an option, and those that go on from one to the next.  *)
OptionGroup(base, options) ==
  FoldLeft(LAMBDA group, o :
             IF Last(group).args \subseteq o.args /\ o.parents \subseteq Last(group).parents
             THEN Append(group, o) ELSE group,
           <<base>>, BySize({o \in options : o /= base /\ Cardinality(o.args) >= Cardinality(base.args)}))

Feasible(options) == {o \in options : Cardinality(o.parents) >= 2}

Without(gates, o) == [o EXCEPT !.parents = @ \ gates]

(* A gate gives arguments away.                                            *)
Stripped(g, i, args) == FoldSet(LAMBDA a, h : EraseArg(h, i, a), g, args)

(* Gates that are left with one argument pass it through.                  *)
Narrowed(g, i, type) == IF Cardinality(g.args[i]) = 1 THEN Typed(g, i, type) ELSE g

-----------------------------------------------------------------------------
(* MergeCommonArgs, for each connective: the modules, the gates of the     *)
(* logic in each, and the arguments that more than one gate has.           *)
CommonArgs(op) ==
  {a \in UNION {graph.args[i] : i \in Living(graph)} :
     Cardinality({i \in Living(graph) : graph.type[i] = op /\ a \in graph.args[i]}) > 1}

MarkCommonArgs ==
  \E op \in {"and", "or"} :
    /\ At(IF op = "and" THEN "mark and" ELSE "mark or", "")
    /\ plan' = Tail(plan)
    /\ todo' = graph.module \cup {graph.root}
    /\ memo' = [op |-> op, common |-> CommonArgs(op)]
    /\ UNCHANGED <<model_vars, graph, step, held, null_vars>>

MergePlan == plan /= <<>> /\ Head(plan) \in {"merge and", "merge or"}

(* The gates of a module, without those of modules in it.                  *)
RECURSIVE Gates(_)
Gates(S) ==
  LET next == S \cup (UNION {{Abs(a) : a \in GateArgs(graph, i)} : i \in S} \ graph.module)
  IN IF next = S THEN S ELSE Gates(next)

(* GatherCommonArgs.                                                       *)
Candidates(module) ==
  LET Args(i) == graph.args[i] \cap memo.common
      gates == {i \in Gates({module}) : graph.type[i] = memo.op /\ Cardinality(Args(i)) > 1}
  IN [i \in gates |-> Args(i)]

GatherCommonArgs ==
  /\ MergePlan /\ step = "" /\ Left /= {}
  /\ LET module == First(Left)
         found == Candidates(module)
         sizes == SetToSortSeq(DOMAIN found, LAMBDA i, j : Cardinality(found[i]) < Cardinality(found[j]))
     IN /\ todo' = todo \ {module}
        /\ IF Cardinality(DOMAIN found) < 2
           THEN UNCHANGED <<step, memo, held>>
           ELSE /\ step' = "filtering"
                /\ memo' = memo @@ [args |-> found, order |-> sizes, from |-> 1,
                                    options |-> {}, group |-> <<>>]
                /\ held' = DOMAIN found \cup {module}
  /\ UNCHANGED <<model_vars, graph, plan, null_vars>>

(* FilterMergeCandidates: a gate all of whose arguments are common is what *)
(* another that has them all can take instead.                             *)
Substitutions ==
  {p \in (DOMAIN memo.order) \X (DOMAIN memo.order) :
     LET i == memo.order[p[1]]
         j == memo.order[p[2]]
     IN /\ memo.from <= p[1] /\ p[1] < p[2]
        /\ Cardinality(memo.args[i]) >= 2 /\ ~Constant(graph, i)
        /\ Cardinality(memo.args[i]) = Cardinality(graph.args[i])
        /\ memo.args[i] \subseteq memo.args[j]}

FirstOf(pairs) == CHOOSE p \in pairs : \A q \in pairs : p[1] < q[1] \/ (p[1] = q[1] /\ p[2] <= q[2])

SubstituteGate ==
  /\ MergePlan /\ step = "filtering" /\ Substitutions /= {}
  /\ LET pair == FirstOf(Substitutions)
         i == memo.order[pair[1]]
         j == memo.order[pair[2]]
         taken == AddArg(Stripped(graph, j, memo.args[i]), j, i)
         left == IF Constant(taken, j) THEN {} ELSE (memo.args[j] \ memo.args[i]) \cup {i}
     IN /\ graph' = Held(IF Constant(taken, j) THEN taken ELSE Narrowed(taken, j, "null"), held)
        /\ memo' = [memo EXCEPT !.args[j] = left, !.from = pair[1]]
  /\ UNCHANGED <<model_vars, plan, step, todo, held, null_vars>>

Remaining == {i \in DOMAIN memo.args : Cardinality(memo.args[i]) > 1 /\ graph.type[i] /= "null"}

(* The locals of a module are over.                                        *)
Marks == [op |-> memo.op, common |-> memo.common]

(* Where too few gates are left for options, the module is left as it is,  *)
(* with what the filter has made of it.                                    *)
FilterMergeCandidates ==
  /\ MergePlan /\ step = "filtering" /\ Substitutions = {}
  /\ IF Cardinality(Remaining) < 2
     THEN step' = "" /\ held' = {} /\ memo' = Marks /\ graph' = Held(graph, {})
     ELSE /\ step' = "merging"
          /\ memo' = [memo EXCEPT !.options = Options([i \in Remaining |-> memo.args[i]], 2)]
          /\ UNCHANGED <<held, graph>>
  /\ UNCHANGED <<model_vars, plan, todo, null_vars>>

(* GroupCommonArgs: options that meet the arguments of the last of a group *)
(* lose the parents of its first.                                          *)
GroupCommonArgs ==
  /\ MergePlan /\ step = "merging" /\ memo.group = <<>>
  /\ \E base \in memo.options :
       LET group == OptionGroup(base, memo.options)
           Rest(o) == IF o.args \cap Last(group).args = {} THEN o ELSE Without(base.parents, o)
       IN memo' = [memo EXCEPT !.group = group,
                               !.options = Feasible({Rest(o) : o \in @ \ ToSet(group)})]
  /\ UNCHANGED <<model_vars, graph, plan, step, todo, held, null_vars>>

(* TransformCommonArgs: a gate takes the arguments for all the parents.    *)
Merged(g, args, parents) ==
  LET merge == Next_(g)
      made == FoldSet(LAMBDA a, h : Inserted(h, merge, a), Created(g, memo.op, 0), args)
      Taking(h, p) == Narrowed(AddArg(Stripped(h, p, args), p, merge), p, "null")
  IN FoldSet(LAMBDA p, h : Taking(h, p), made, parents)

TransformCommonArgs ==
  /\ MergePlan /\ step = "merging" /\ memo.group /= <<>>
  /\ LET option == Head(memo.group)
         Next(o) == [o EXCEPT !.args = (@ \ option.args) \cup {Next_(graph)}]
     IN /\ graph' = Merged(graph, option.args, option.parents)
        /\ memo' = [memo EXCEPT !.group = [n \in DOMAIN Tail(@) |-> Next(Tail(@)[n])]]
  /\ UNCHANGED <<model_vars, plan, step, todo, held, null_vars>>

MergedInModule ==
  /\ MergePlan /\ step = "merging" /\ memo.group = <<>> /\ memo.options = {}
  /\ Interrupted
  /\ memo' = Marks
  /\ UNCHANGED <<model_vars, graph, todo, held, null_vars>>

CommonArgsMerged ==
  /\ MergePlan /\ step = "" /\ Left = {}
  /\ ContinueWith(<<>>)
  /\ UNCHANGED <<model_vars, graph, null_vars>>

MergingStep ==
  \/ MarkCommonArgs \/ GatherCommonArgs \/ SubstituteGate \/ FilterMergeCandidates
  \/ GroupCommonArgs \/ TransformCommonArgs \/ MergedInModule \/ CommonArgsMerged
-----------------------------------------------------------------------------
(* DetectDistributivity: arguments that arguments of a gate share are taken*)
(* out, x & a | x & b is x & (a | b).                                      *)
DetectDistributivity ==
  /\ At("distribute", "")
  /\ step' = "distributing"
  /\ todo' = Living(graph)
  /\ memo' = [gate |-> 0, candidates |-> {}, options |-> {}, group |-> <<>>, host |-> 0]
  /\ UNCHANGED <<model_vars, graph, plan, held, null_vars>>

DistrType(type) ==
  CASE type \in {"and", "nand"} -> "or" [] type \in {"or", "nor"} -> "and" [] OTHER -> "none"

(* Child gates of the other logic, positive and not modules.               *)
Distributable(g, i) ==
  {a \in GateArgs(g, i) : a > 0 /\ a \notin g.module /\ g.type[a] = DistrType(g.type[i])}

(* FilterDistributiveArgs: x | x & y is x.  Of the others those stay that  *)
(* take no more arguments than another.                                    *)
Absorbed(g, i, candidates) == {c \in candidates : g.args[c] \cap g.args[i] /= {}}

Exclusive(g, candidates) ==
  {c \in candidates : \A d \in candidates \ {c} :
     g.args[d] \subseteq g.args[c] => g.args[d] = g.args[c] /\ First({c, d}) = c}

Passing(type) == IF type \in {"and", "or"} THEN "null" ELSE "not"

FilterDistributiveArgs ==
  /\ At("distribute", "distributing") /\ memo.candidates = {} /\ Left /= {}
  /\ LET i == First(Ready)
         all == Distributable(graph, i)
         stay == Exclusive(graph, all \ Absorbed(graph, i, all))
         stripped == Stripped(graph, i, all \ stay)
     IN /\ todo' = todo \ {i}
        /\ graph' = Held(IF all = {} THEN stripped ELSE Narrowed(stripped, i, Passing(graph.type[i])), stay)
        /\ memo' = [memo EXCEPT !.gate = i, !.candidates = IF Cardinality(stay) > 1 THEN stay ELSE {},
                                !.options = Options([c \in stay |-> graph.args[c]], 1)]
  /\ UNCHANGED <<model_vars, plan, step, held, null_vars>>

(* GroupDistributiveArgs: the parents of a group are out of the others.    *)
GroupDistributiveArgs ==
  /\ At("distribute", "distributing") /\ memo.options /= {} /\ memo.group = <<>>
  /\ \E base \in memo.options :
       LET group == OptionGroup(base, memo.options)
       IN memo' = [memo EXCEPT
            !.group = group,
            !.host = memo.gate,
            !.options = Feasible({Without(base.parents, o) : o \in @ \ ToSet(group)})]
  /\ UNCHANGED <<model_vars, graph, plan, step, todo, held, null_vars>>

Option_ == Head(memo.group)

Shared == {m \in Option_.parents : Cardinality(graph.parents[m]) > 1}

Substituted(parents, old, new) == IF old \in parents THEN (parents \ {old}) \cup {new} ELSE parents

(* HandleDistributiveArgs: candidates with other parents are cloned first. *)
CloneSharedMember ==
  /\ At("distribute", "distributing") /\ memo.group /= <<>> /\ Shared /= {}
  /\ LET m == First(Shared)
         clone == Next_(graph)
     IN /\ graph' = AddArg(EraseArg(Clone(graph, m), memo.gate, m), memo.gate, clone)
        /\ memo' = [memo EXCEPT !.group = [n \in DOMAIN @ |->
                      [@[n] EXCEPT !.parents = Substituted(@, m, clone)]]]
  /\ UNCHANGED <<model_vars, plan, step, todo, held, null_vars>>

(* The gate that takes the common part: the host itself if all of its      *)
(* arguments have it.                                                      *)
Turned(type) ==
  CASE type = "and" -> "or" [] type = "or" -> "and" [] type = "nand" -> "nor" [] type = "nor" -> "nand"

NewParent(g, host, type, members) ==
  IF g.args[host] = members THEN [g EXCEPT !.type[host] = Turned(@)]
  ELSE Inserted(Created(g, type, 0), host, Next_(g))

(* TransformDistributiveArgs.                                              *)
Distributed(g, host, type, option) ==
  LET taken == NewParent(g, host, type, option.parents)
      parent == IF g.args[host] = option.parents THEN host ELSE taken.last
      sub == Next_(taken)
      framed == Inserted(Created(taken, DistrType(type), 0), parent, sub)
      shared == FoldSet(LAMBDA a, h : AddArg(h, parent, a), framed, option.args)
      Moved(h, m) ==
        Narrowed(Stripped(Inserted(EraseArg(h, host, m), sub, m), m, option.args), m, "null")
  IN FoldSet(LAMBDA m, h : Moved(h, m), shared, option.parents)

(* The rest of the group goes on with the gate that has the members now.   *)
TransformDistributiveArgs ==
  /\ At("distribute", "distributing") /\ memo.group /= <<>> /\ Shared = {}
  /\ LET type == graph.type[CHOOSE m \in Option_.parents : TRUE]
         Next(o) == [o EXCEPT !.args = @ \ Option_.args]
         rest == Tail(memo.group)
     IN /\ graph' = Distributed(graph, memo.host, type, Option_)
        /\ memo' = [memo EXCEPT !.group = [n \in DOMAIN rest |-> Next(rest[n])],
                                !.host = graph'.last]
  /\ UNCHANGED <<model_vars, plan, step, todo, held, null_vars>>

(* No option is left for the gate.                                         *)
DistributedBelow ==
  /\ At("distribute", "distributing") /\ memo.candidates /= {}
  /\ memo.options = {} /\ memo.group = <<>>
  /\ memo' = [memo EXCEPT !.candidates = {}]
  /\ graph' = Held(graph, {})
  /\ UNCHANGED <<model_vars, plan, step, todo, held, null_vars>>

DistributivityDetected ==
  /\ At("distribute", "distributing") /\ memo.candidates = {} /\ Left = {}
  /\ ContinueWith(<<"remove nulls">>)
  /\ UNCHANGED <<model_vars, graph, null_vars>>

DistributionStep ==
  \/ DetectDistributivity \/ FilterDistributiveArgs \/ GroupDistributiveArgs \/ CloneSharedMember
  \/ TransformDistributiveArgs \/ DistributedBelow \/ DistributivityDetected
=============================================================================
