----------------------------- MODULE Initializer -----------------------------
(***************************************************************************)
(* Initialization of a model from its documents (src/src/initializer.cc,   *)
(* with the tables of src/src/model.cc and src/src/fault_tree.cc).  A first*)
(* pass registers elements in the order of the documents, a second one     *)
(* defines them, since they may refer to what comes later; then come the   *)
(* checks, the first of them for cycles (CycleDetection), and the set up   *)
(* for analysis.  Elements of event trees are left out.                    *)
(*                                                                         *)
(* A document is a sequence of entries, the definitions in their order,    *)
(* each with the place of the component that it is in (0 for the model),   *)
(* where an "end" stands for the end of that component or CCF group.       *)
(***************************************************************************)
EXTENDS CycleDetection, CcfGroup, SequencesExt

CONSTANT Inputs    \* documents, and whether probabilities are asked for

Kinds == {"gate", "basic-event", "house-event", "parameter", "component", "ccf", "ccf-member", "end"}

(* The types of references that the arguments of an element have.          *)
RefTypes(kind) ==
  CASE kind = "gate" -> {"event", "gate", "basic-event", "house-event"}
    [] kind \in {"basic-event", "parameter"} -> {"parameter"}
    [] OTHER -> {}

(* An entry that the schema (src/share/input.rng) allows where it stands:  *)
(* definitions are in the model or in a component; CCF groups, their       *)
(* members and fault trees have no role; a group is given its members,     *)
(* which come right after it, and its factors, one of each at least.       *)
WellFormedEntry(document, i) ==
  LET entry == document[i]
      parent == entry.parent
      Ends(e) == document[e].kind = "end" /\ document[e].parent = i
      AreMembers(first, last) == \A j \in first..last : document[j].kind = "ccf-member"
  IN /\ entry.kind \in Kinds /\ entry.role \in {"", "public", "private"}
     /\ parent \in 0..(i - 1)
     /\ entry.kind /= "end" => parent = 0 \/ document[parent].kind = "component"
     /\ entry.kind = "end" => parent /= 0 /\ document[parent].kind \in {"component", "ccf"}
     /\ entry.kind \in {"ccf", "ccf-member"} \/ (entry.kind = "component" /\ parent = 0) => entry.role = ""
     /\ entry.kind = "ccf-member" =>
          \E g \in 1..(i - 1) :
            document[g].kind = "ccf" /\ document[g].parent = parent /\ AreMembers(g + 1, i)
     /\ entry.kind \in {"component", "ccf"} =>
          \E e \in DOMAIN document : Ends(e) /\ \A f \in DOMAIN document : Ends(f) => f = e
     /\ entry.kind = "ccf" =>
          /\ \A e \in DOMAIN document : Ends(e) => e > i + 1 /\ AreMembers(i + 1, e - 1)
          /\ entry.model \in {"beta-factor", "MGL", "alpha-factor", "phi-factor"}
          /\ Len(entry.factors) \in Nat \ {0} /\ DOMAIN entry.factors = 1..Len(entry.factors)
          /\ \A k \in DOMAIN entry.factors : entry.factors[k].level \in Nat
     /\ Len(entry.refs) \in Nat /\ DOMAIN entry.refs = 1..Len(entry.refs)
     /\ \A k \in DOMAIN entry.refs :
          entry.refs[k].type \in RefTypes(entry.kind) /\ Len(entry.refs[k].path) \in Nat \ {0}

(* The entries are among the nodes, and no element has any argument yet.   *)
ASSUME InputsAssumption ==
  /\ \A given \in Inputs :
       /\ Len(given.document) \in Nat
       /\ DOMAIN given.document = 1..Len(given.document)
       /\ DOMAIN given.document \subseteq Nodes
       /\ \A i \in DOMAIN given.document : WellFormedEntry(given.document, i)
  /\ \A graph \in Graphs, n \in Nodes : graph[n] = <<>>

VARIABLES
  input,
  stage,           \* the step of ProcessInputFiles, "thrown" or "ready"
  position,        \* the entry or the element that is next
  model,           \* the elements in the tables of the model
  paths,           \* the elements in the tables by full path
  contents,        \* the elements in the tables of their components
  tbd,             \* the elements to be defined
  formula,         \* what the definitions of elements refer to
  used,            \* elements with the flag of usage
  groups,          \* CCF groups
  child,           \* the child of the CCF group being defined
  top_events,      \* top events of fault trees
  proxies          \* the events in the proxy gates of CCF members

registry == <<model, paths, contents, tbd>>
definitions == <<formula, used, groups, child>>
set_up == <<top_events, proxies>>
search == <<args, mark, stack, untried, cycle, phase>>
all_vars == <<input, stage, position, registry, definitions, set_up, search>>

-----------------------------------------------------------------------------
Document == input.document

Kind(i) == Document[i].kind

Name(i) == Document[i].name

Parent(i) == Document[i].parent

(* The full path: of no two elements with the same path is one below       *)
(* another.                                                                *)
Path(i) ==
  LET path[j \in 0..Len(Document)] ==
        IF j = 0 THEN <<>> ELSE Append(path[Parent(j)], Name(j))
  IN path[i]

BasePath(i) == Path(Parent(i))

(* GetRole: an element without a role inherits it.                         *)
RoleOf(i) ==
  LET role[j \in 0..Len(Document)] ==
        IF j = 0 THEN "public"
        ELSE IF Document[j].role /= "" THEN Document[j].role ELSE role[Parent(j)]
  IN role[i]

Id(i) == IF RoleOf(i) = "public" THEN <<Name(i)>> ELSE Path(i)

BasicEvents == {"basic-event", "ccf-member"}

Events == {"gate", "house-event"} \cup BasicEvents

(* Elements of kinds that share a table, or are checked with each other.   *)
Space(kind) == IF kind \in Events THEN Events ELSE {kind}

(* CheckDuplicateEvent of the model, and the insertion into its tables.    *)
KnownId(i, table) == \E j \in table : Kind(j) \in Space(Kind(i)) /\ Id(j) = Id(i)

(* The same of a component, whose tables are by name.                      *)
KnownName(i, table) ==
  \E j \in table : Kind(j) \in Space(Kind(i)) /\ Parent(j) = Parent(i) /\ Name(j) = Name(i)

InComponents(set) == {i \in set : Parent(i) /= 0}

(* The last group: its members follow it.                                  *)
GroupOf(i) == CHOOSE g \in 1..i : Kind(g) = "ccf" /\ \A j \in (g + 1)..i : Kind(j) /= "ccf"

-----------------------------------------------------------------------------
Throw_ ==
  /\ stage' = "thrown"
  /\ UNCHANGED <<input, position, registry, definitions, set_up, search>>

At(kinds) == stage = "register" /\ position <= Len(Document) /\ Kind(position) \in kinds

Onwards ==
  /\ position' = position + 1
  /\ UNCHANGED <<input, stage, set_up, search>>

(* Seeded defect: names within the component are not looked at.            *)
RefusedById(i) == (RoleOf(i) = "private" /\ Parent(i) = 0) \/ KnownId(i, model)

(* What the constructor of the role, the model and the component refuse.   *)
Refused(i) ==
  \/ RoleOf(i) = "private" /\ Parent(i) = 0
  \/ KnownId(i, model)
  \/ Parent(i) /= 0 /\ KnownName(i, contents)

(* Register of gates, basic events, house events and parameters.  The      *)
(* tables by path keep the first of a path; house events have nothing to   *)
(* be defined later.                                                       *)
RegisterElement ==
  /\ At({"gate", "basic-event", "house-event", "parameter"})
  /\ LET i == position
     IN \/ Refused(i) /\ Throw_
        \/ /\ ~Refused(i)
           /\ model' = model \cup {i}
           /\ paths' = paths \cup
                (IF \E j \in paths : Kind(j) = Kind(i) /\ Path(j) = Path(i) THEN {} ELSE {i})
           /\ contents' = contents \cup InComponents({i})
           /\ tbd' = IF Kind(i) = "house-event" THEN tbd ELSE Append(tbd, i)
           /\ Onwards /\ UNCHANGED definitions

RegisterCcfGroup ==
  /\ At({"ccf"})
  /\ LET i == position
     IN \/ KnownId(i, model) /\ Throw_
        \/ /\ ~KnownId(i, model)
           /\ model' = model \cup {i}
           /\ groups' = [g \in DOMAIN groups \cup {i} |->
                           IF g = i THEN NewGroup(Document[i].model) ELSE groups[g]]
           /\ Onwards /\ UNCHANGED <<paths, contents, tbd, formula, used, child>>

Members(g) == {groups[g].members[i] : i \in DOMAIN groups[g].members}

(* ProcessCcfMembers: no table by path gets the member.                    *)
ProcessCcfMember ==
  /\ At({"ccf-member"})
  /\ LET i == position
         g == GroupOf(i)
         accepted == /\ AcceptsMember(groups[g], {Name(m) : m \in Members(g)}, Name(i))
                     /\ ~KnownId(i, model)
     IN \/ ~accepted /\ Throw_
        \/ /\ accepted
           /\ groups' = [groups EXCEPT ![g] = WithMember(@, i)]
           /\ model' = model \cup {i}
           /\ Onwards /\ UNCHANGED <<paths, contents, tbd, formula, used, child>>

(* The end of a group: its component gets the group and the members.       *)
AddCcfGroup ==
  /\ At({"end"}) /\ Kind(Parent(position)) = "ccf"
  /\ LET g == Parent(position)
         known == Parent(g) /= 0 /\ \E i \in {g} \cup Members(g) : KnownName(i, contents)
     IN \/ known /\ Throw_
        \/ /\ ~known
           /\ contents' = contents \cup InComponents({g} \cup Members(g))
           /\ tbd' = Append(tbd, g)
           /\ Onwards /\ UNCHANGED <<model, paths, definitions>>

(* The contents follow in entries of their own.                            *)
DefineComponent == At({"component"}) /\ Onwards /\ UNCHANGED <<registry, definitions>>

(* The end of a component or of a fault tree, which is known only then.    *)
AddComponent ==
  /\ At({"end"}) /\ Kind(Parent(position)) = "component"
  /\ LET c == Parent(position)
     IN \/ KnownName(c, contents) /\ Throw_
        \/ /\ ~KnownName(c, contents)
           /\ contents' = contents \cup {c}
           /\ Onwards /\ UNCHANGED <<model, paths, tbd, definitions>>

Registered ==
  /\ stage = "register" /\ position > Len(Document)
  /\ stage' = "define" /\ position' = 1
  /\ UNCHANGED <<input, registry, definitions, set_up, search>>

-----------------------------------------------------------------------------
(* The tables that a reference to a type is looked up in, in this order.   *)
Tables(type) ==
  CASE type = "event" -> <<{"gate"}, BasicEvents, {"house-event"}>>
    [] type = "basic-event" -> <<BasicEvents>>
    [] type \in {"gate", "house-event", "parameter"} -> <<{type}>>

(* Elements of the first table that has any.                               *)
FirstOf(type, set) ==
  LET OfTable(t) == {i \in set : Kind(i) \in Tables(type)[t]}
      hits == {t \in DOMAIN Tables(type) : OfTable(t) /= {}}
  IN IF hits = {} THEN {} ELSE OfTable(Min(hits))

(* Seeded defect: a public name comes before the local scope.              *)
EntitiesPublicFirst(i, ref, elements, by_path) ==
  LET public == FirstOf(ref.type, {j \in elements : Id(j) = ref.path})
      local == FirstOf(ref.type, {j \in by_path : BasePath(i) /= <<>> /\ Path(j) = BasePath(i) \o ref.path})
      direct == FirstOf(ref.type, {j \in by_path : Path(j) = ref.path})
  IN IF Len(ref.path) = 1 /\ public /= {} THEN public
     ELSE IF local /= {} THEN local ELSE direct

(* GetEntity and GetEvent: the local scope first, then a name without dots *)
(* among the public elements and a path among all; none if there is no     *)
(* such element.                                                           *)
Entities(i, ref, elements, by_path) ==
  LET local == FirstOf(ref.type, {j \in by_path : BasePath(i) /= <<>> /\ Path(j) = BasePath(i) \o ref.path})
  IN IF local /= {} THEN local
     ELSE IF Len(ref.path) = 1 THEN FirstOf(ref.type, {j \in elements : Id(j) = ref.path})
     ELSE FirstOf(ref.type, {j \in by_path : Path(j) = ref.path})

(* The formula's own conditions on the number of its arguments.            *)
ValidConnective(connective, min, count) ==
  CASE connective \in {"and", "or", "nand", "nor"} -> count >= 2
    [] connective \in {"not", "null"} -> count = 1
    [] connective \in {"xor", "iff", "imply"} -> count = 2
    [] connective = "atleast" -> min >= 2 /\ count > min

Defining(kind) ==
  stage = "define" /\ position <= Len(tbd) /\ Kind(tbd[position]) = kind

Undefined(i) ==
  \E k \in DOMAIN Document[i].refs : Entities(i, Document[i].refs[k], model, paths) = {}

Referred(i) ==
  [k \in DOMAIN Document[i].refs |->
     CHOOSE j \in Entities(i, Document[i].refs[k], model, paths) : TRUE]

(* The connectors of a gate are the gates among its arguments.             *)
GatesAmong(arguments) ==
  LET gates[k \in 0..Len(arguments)] ==
        IF k = 0 THEN <<>>
        ELSE IF Kind(arguments[k]) = "gate" THEN Append(gates[k - 1], arguments[k]) ELSE gates[k - 1]
  IN gates[Len(arguments)]

(* GetFormula: every argument is used from then on.                        *)
DefineGate ==
  /\ Defining("gate")
  /\ LET i == tbd[position]
         entry == Document[i]
         accepted ==
           /\ ~Undefined(i)
           /\ \A j, k \in DOMAIN entry.refs : Id(Referred(i)[j]) = Id(Referred(i)[k]) => j = k
           /\ ValidConnective(entry.connective, entry.min, Len(entry.refs))
     IN \/ ~accepted /\ Throw_
        \/ /\ accepted
           /\ formula' = [formula EXCEPT ![i] = Referred(i)]
           /\ args' = [args EXCEPT ![i] = GatesAmong(Referred(i))]
           /\ used' = used \cup ToSet(Referred(i))
           /\ position' = position + 1
           /\ UNCHANGED <<input, stage, registry, groups, child, set_up, mark, stack, untried, cycle, phase>>

(* GetExpression with the parameters in it.                                *)
DefineParameter ==
  /\ Defining("parameter")
  /\ LET i == tbd[position]
     IN \/ Undefined(i) /\ Throw_
        \/ /\ ~Undefined(i)
           /\ formula' = [formula EXCEPT ![i] = Referred(i)]
           /\ args' = [args EXCEPT ![i] = Referred(i)]
           /\ used' = used \cup ToSet(Referred(i))
           /\ position' = position + 1
           /\ UNCHANGED <<input, stage, registry, groups, child, set_up, mark, stack, untried, cycle, phase>>

(* An event need not have an expression unless probabilities are asked for.*)
DefineBasicEvent ==
  /\ Defining("basic-event")
  /\ LET i == tbd[position]
         refused == Undefined(i) \/ (~Document[i].expression /\ input.probability_analysis)
     IN \/ refused /\ Throw_
        \/ /\ ~refused
           /\ formula' = [formula EXCEPT ![i] = Referred(i)]
           /\ used' = used \cup ToSet(Referred(i))
           /\ Onwards /\ UNCHANGED <<registry, groups, child>>

(* The children of a CCF group, the distribution first (the schema has    *)
(* them in this order).                                                    *)
DefineDistribution ==
  /\ Defining("ccf") /\ child = 0
  /\ LET i == tbd[position]
     IN \/ ~AcceptsDistribution(groups[i]) /\ Throw_
        \/ /\ AcceptsDistribution(groups[i])
           /\ groups' = [groups EXCEPT ![i] = WithDistribution(@)]
           /\ child' = 1
           /\ UNCHANGED <<input, stage, position, registry, formula, used, set_up, search>>

DefineCcfFactor ==
  /\ Defining("ccf") /\ child > 0
  /\ LET i == tbd[position]
         factors == Document[i].factors
         accepted == AcceptsFactor(groups[i], factors[child])
     IN \/ ~accepted /\ Throw_
        \/ /\ accepted
           /\ groups' = [groups EXCEPT ![i] = WithFactor(@, factors[child])]
           /\ child' = IF child < Len(factors) THEN child + 1 ELSE 0
           /\ position' = IF child < Len(factors) THEN position ELSE position + 1
           /\ UNCHANGED <<input, stage, registry, formula, used, set_up, search>>

Modelled(kind) == {i \in model : Kind(i) = kind}

(* CheckCycle<Gate> begins.                                                *)
Defined ==
  /\ stage = "define" /\ position > Len(tbd)
  /\ stage' = "gates" /\ untried' = Modelled("gate")
  /\ UNCHANGED <<input, position, registry, definitions, set_up, args, mark, stack, cycle, phase>>

-----------------------------------------------------------------------------
(* The checks for cycles in gates and, after all checks of event trees, in *)
(* parameters.                                                             *)
SearchStep ==
  /\ stage \in {"gates", "parameters"}
  /\ CheckCycle \/ ContinueConnector \/ Return \/ Report
  /\ UNCHANGED <<input, stage, position, registry, definitions, set_up>>

GatesChecked ==
  /\ stage = "gates" /\ phase = "search" /\ stack = <<>> /\ untried = {}
  /\ stage' = "parameters" /\ untried' = Modelled("parameter")
  /\ UNCHANGED <<input, position, registry, definitions, set_up, args, mark, stack, cycle, phase>>

CycleFound ==
  /\ stage \in {"gates", "parameters"} /\ Throw /\ stage' = "thrown"
  /\ UNCHANGED <<input, position, registry, definitions, set_up>>

ParametersChecked ==
  /\ stage = "parameters" /\ Accept /\ stage' = "expressions"
  /\ UNCHANGED <<input, position, registry, definitions, set_up>>

(* The rest of ValidateExpressions; expressions have proper values.        *)
ValidateCcfGroups ==
  /\ stage = "expressions"
  /\ LET valid == \A g \in DOMAIN groups : IsValidGroup(groups[g])
     IN \/ ~valid /\ Throw_
        \/ /\ valid /\ stage' = "setup"
           /\ UNCHANGED <<input, position, registry, definitions, set_up, search>>

-----------------------------------------------------------------------------
FaultTrees == {c \in contents : Kind(c) = "component" /\ Parent(c) = 0}

(* Gates of a tree, in its components too.                                 *)
GatesOf(tree) ==
  LET within[i \in 0..Len(Document)] == i = tree \/ (i > 0 /\ within[Parent(i)])
  IN {i \in contents : Kind(i) = "gate" /\ within[i]}

(* Seeded defect: the marks of the check for cycles stay.                  *)
SetUpMarked ==
  /\ stage = "setup" /\ stage' = "top events"
  /\ UNCHANGED <<input, position, registry, definitions, set_up, args, mark, stack, untried, cycle, phase>>

(* SetupForAnalysis takes away the marks that CheckCycle left.             *)
SetupForAnalysis ==
  /\ stage = "setup" /\ stage' = "top events"
  /\ mark' = [n \in Nodes |-> IF n \in Modelled("gate") THEN "clear" ELSE mark[n]]
  /\ UNCHANGED <<input, position, registry, definitions, set_up, args, stack, untried, cycle, phase>>

(* MarkNonTopGates: gates with marks are passed over.                      *)
NonTopGates(gates) ==
  {g \in gates : mark[g] /= "clear" \/ \E h \in gates : mark[h] = "clear" /\ g \in Arguments(h)}

CollectTopEvents ==
  /\ stage = "top events"
  /\ \E tree \in FaultTrees \ DOMAIN top_events :
       /\ top_events' =
            [t \in DOMAIN top_events \cup {tree} |->
               IF t = tree THEN GatesOf(tree) \ NonTopGates(GatesOf(tree)) ELSE top_events[t]]
       /\ mark' = [n \in Nodes |-> IF n \in GatesOf(tree) THEN "clear" ELSE mark[n]]
  /\ UNCHANGED <<input, stage, position, registry, definitions, proxies, args, stack, untried, cycle, phase>>

(* A group without events that two members share cannot make OR gates of   *)
(* its proxies, which need two arguments.                                  *)
ApplyModel ==
  /\ stage = "top events" /\ FaultTrees = DOMAIN top_events
  /\ \E g \in {g \in DOMAIN groups : Members(g) \cap DOMAIN proxies = {}} :
       LET events == CcfEvents(groups[g])
       IN IF \E m \in Members(g) : \A e, f \in Proxied(events, m) : e = f
          THEN Throw_
          ELSE /\ proxies' = [m \in DOMAIN proxies \cup Members(g) |->
                                IF m \in Members(g) THEN Proxied(events, m) ELSE proxies[m]]
               /\ UNCHANGED <<input, stage, position, registry, definitions, top_events, search>>

Initialized ==
  /\ stage = "top events" /\ FaultTrees = DOMAIN top_events
  /\ \A g \in DOMAIN groups : Members(g) \subseteq DOMAIN proxies
  /\ stage' = "ready"
  /\ UNCHANGED <<input, position, registry, definitions, set_up, search>>

Concluded == stage \in {"ready", "thrown"} /\ UNCHANGED all_vars

InitializerInit ==
  /\ input \in Inputs
  /\ stage = "register" /\ position = 1
  /\ model = {} /\ paths = {} /\ contents = {} /\ tbd = <<>>
  /\ formula = [n \in Nodes |-> <<>>] /\ used = {} /\ groups = <<>> /\ child = 0
  /\ top_events = <<>> /\ proxies = <<>>
  /\ args \in Graphs
  /\ mark = [n \in Nodes |-> "clear"]
  /\ stack = <<>> /\ untried = {} /\ cycle = <<>> /\ phase = "search"

ProcessInputFile ==
  \/ RegisterElement \/ RegisterCcfGroup \/ ProcessCcfMember \/ AddCcfGroup
  \/ DefineComponent \/ AddComponent \/ Registered

ProcessTbdElements ==
  DefineGate \/ DefineParameter \/ DefineBasicEvent \/ DefineDistribution
  \/ DefineCcfFactor \/ Defined

ValidateInitialization ==
  SearchStep \/ GatesChecked \/ CycleFound \/ ParametersChecked \/ ValidateCcfGroups

InitializerNext ==
  \/ ProcessInputFile \/ ProcessTbdElements \/ ValidateInitialization
  \/ SetupForAnalysis \/ CollectTopEvents \/ ApplyModel \/ Initialized \/ Concluded

(* One thread reads the documents and is never held up.                    *)
InitializerSpec == InitializerInit /\ [][InitializerNext]_all_vars /\ WF_all_vars(InitializerNext)

-----------------------------------------------------------------------------
(* What a document says, whatever the order of its definitions.            *)
Elements == {i \in DOMAIN Document : Kind(i) /= "end"}

WellNamed ==
  /\ \A i, j \in Elements : i /= j /\ Space(Kind(i)) = Space(Kind(j)) =>
       /\ Kind(i) /= "component" => Id(i) /= Id(j)
       /\ Parent(i) = Parent(j) => Name(i) /= Name(j)
  /\ \A i \in Elements : RoleOf(i) = "private" => Parent(i) /= 0

(* The elements a reference names (doc/input_file.rst:49, initializer.h:   *)
(* 357): those below the component it stands in, else the public ones of   *)
(* that name or the one at the end of the path.                            *)
Meant(i, ref) ==
  LET fitting == {j \in Elements : \E t \in DOMAIN Tables(ref.type) : Kind(j) \in Tables(ref.type)[t]}
      At_(path) == {j \in fitting : Path(j) = path}
  IN IF Parent(i) /= 0 /\ At_(BasePath(i) \o ref.path) /= {} THEN At_(BasePath(i) \o ref.path)
     ELSE IF Len(ref.path) > 1 THEN At_(ref.path)
     ELSE {j \in fitting : RoleOf(j) = "public" /\ <<Name(j)>> = ref.path}

Definable == {i \in Elements : Kind(i) \in {"gate", "parameter", "basic-event"}}

AllMeant(i) == UNION {Meant(i, Document[i].refs[k]) : k \in DOMAIN Document[i].refs}

WellDefined(i) ==
  LET entry == Document[i]
  IN /\ \A k \in DOMAIN entry.refs : Meant(i, entry.refs[k]) /= {}
     /\ Kind(i) = "gate" =>
          /\ Cardinality(AllMeant(i)) = Len(entry.refs)
          /\ ValidConnective(entry.connective, entry.min, Len(entry.refs))
     /\ Kind(i) = "basic-event" /\ input.probability_analysis => entry.expression

(* The levels of the factors, the least level of the model first: each once*)
(* and none left out.                                                      *)
MembersMeant(g) == {i \in Elements : Kind(i) = "ccf-member" /\ GroupOf(i) = g}

LeastLevel(g) ==
  CASE Document[g].model = "beta-factor" -> Cardinality(MembersMeant(g))
    [] Document[g].model = "MGL" -> 2
    [] Document[g].model \in {"alpha-factor", "phi-factor"} -> 1

FactorLevels(g) ==
  LET given(k) == Document[g].factors[k].level
      level[k \in DOMAIN Document[g].factors] ==
        IF given(k) > 0 THEN given(k) ELSE IF k = 1 THEN LeastLevel(g) ELSE level[k - 1] + 1
  IN level

HighestLevel(g) == Max({FactorLevels(g)[k] : k \in DOMAIN FactorLevels(g)})

(* The value of the factor of a level.                                     *)
ValueAt(g, level) ==
  Document[g].factors[CHOOSE k \in DOMAIN FactorLevels(g) : FactorLevels(g)[k] = level].value

(* One factor at least and no more than members                            *)
(* (doc/common_cause_analysis.rst:20), for every level up to the highest.  *)
WellFactored(g) ==
  LET factors == Document[g].factors
  IN /\ Cardinality(MembersMeant(g)) >= 2
     /\ HighestLevel(g) \in 1..Cardinality(MembersMeant(g))
     /\ {FactorLevels(g)[k] : k \in DOMAIN factors} = LeastLevel(g)..HighestLevel(g)
     /\ Len(factors) = HighestLevel(g) - LeastLevel(g) + 1
     /\ \A k \in DOMAIN factors : factors[k].value[1] <= factors[k].value[2]
     /\ Document[g].model = "phi-factor" =>
          LET total == TotalOf([level \in 1..HighestLevel(g) |-> ValueAt(g, level)])
          IN total[1] = total[2]

NoCycle(kind) ==
  \A part \in (SUBSET {i \in Elements : Kind(i) = kind}) \ {{}} :
    \E i \in part : AllMeant(i) \cap part = {}

Valid ==
  /\ WellNamed
  /\ \A i \in Definable : WellDefined(i)
  /\ \A g \in {i \in Elements : Kind(i) = "ccf"} : WellFactored(g)
  /\ NoCycle("gate") /\ NoCycle("parameter")

(* Where the code parts from this.  Members of CCF groups are in no table  *)
(* by path (initializer.cc:1237), so that a reference to one is only       *)
(* followed if it is the name of a public member.                          *)
Overlooks(i, ref) ==
  \E m \in Meant(i, ref) :
    Kind(m) = "ccf-member" /\ ~(RoleOf(m) = "public" /\ <<Name(m)>> = ref.path)

MemberOverlooked == \E i \in Definable : \E k \in DOMAIN Document[i].refs : Overlooks(i, Document[i].refs[k])

(* The members of a group with one level have one event each, too few for  *)
(* their proxies (ccf_group.cc:151, 180).                                  *)
SingleLevelGroup == \E g \in {i \in Elements : Kind(i) = "ccf"} : HighestLevel(g) = 1

(* initializer.cc:569: elements are known after the first pass and defined *)
(* in the second, so that a model is accepted exactly if its documents are *)
(* valid, in whatever order they define what they refer to, but for these  *)
(* two, which ReferencesFollowRoles and OneFactorIsEnough are about.       *)
AcceptsExactlyValid ==
  /\ stage = "ready" => Valid \/ MemberOverlooked
  /\ stage = "thrown" => ~Valid \/ MemberOverlooked \/ SingleLevelGroup

(* doc/common_cause_analysis.rst:20: one factor is enough for every model. *)
(* An alpha or phi group with no more than that of level 1 passes Validate *)
(* and stops in ApplyModel (ccf_group.cc:151).                             *)
OneFactorIsEnough == stage = "thrown" => ~Valid \/ MemberOverlooked

DefinitionsAsMeant ==
  /\ \A i \in Definable : \A k \in DOMAIN Document[i].refs :
       Overlooks(i, Document[i].refs[k]) \/ {formula[i][k]} = Meant(i, Document[i].refs[k])
  /\ used = UNION {ToSet(formula[i]) : i \in Definable}

(* doc/input_file.rst:49: references follow the roles of elements.  One to *)
(* a private member of a CCF group is followed to a public event of its    *)
(* name instead, if there is one (initializer.cc:1237, 1302).              *)
ReferencesFollowRoles ==
  stage = "ready" =>
    \A i \in Definable : \A k \in DOMAIN Document[i].refs :
      {formula[i][k]} = Meant(i, Document[i].refs[k])

TopEventsOnTop ==
  \A tree \in {i \in Elements : Kind(i) = "component" /\ Parent(i) = 0} :
    top_events[tree] = {g \in GatesOf(tree) : \A h \in GatesOf(tree) : g \notin ToSet(formula[h])}

(* The events that take out a member: with every combination of the others *)
(* at the levels of the model, each of them for all that it takes out.     *)
EventsCombined ==
  \A g \in {i \in Elements : Kind(i) = "ccf"} : \A m \in MembersMeant(g) :
    LET levels == IF Document[g].model = "beta-factor" THEN {1, HighestLevel(g)} ELSE 1..HighestLevel(g)
    IN /\ {e.members : e \in proxies[m]} =
            {S \in SUBSET MembersMeant(g) : m \in S /\ Cardinality(S) \in levels}
       /\ \A e \in proxies[m] : \A other \in e.members : e \in proxies[other]

(* Together they are of the member's probability but in the phi model,     *)
(* which gives the probabilities of events themselves.                     *)
ProbabilitiesKept ==
  \A g \in {i \in Elements : Kind(i) = "ccf"} : \A m \in MembersMeant(g) :
    Document[g].model /= "phi-factor" =>
      LET total == TotalOf([e \in proxies[m] |-> e.probability]) IN total[1] = total[2]

(* initializer.cc:1663: a model that is ready has the formulas that its    *)
(* documents mean, by scope, with the flags of usage that warnings are     *)
(* about; the top events of a tree are the gates no other gate of it needs,*)
(* which the marks that the check for cycles left must not hide; and events*)
(* with the probabilities of the CCF model take the place of its members.  *)
ReadyForAnalysis ==
  stage = "ready" => DefinitionsAsMeant /\ TopEventsOnTop /\ EventsCombined /\ ProbabilitiesKept

(* initializer.cc:178, cycle.h:151: every input is refused or ready in the *)
(* end.                                                                    *)
Concludes == <>(stage \in {"ready", "thrown"})
=============================================================================
