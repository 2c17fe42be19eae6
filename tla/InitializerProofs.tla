-------------------------- MODULE InitializerProofs --------------------------
(***************************************************************************)
(* The initializer accepts the valid documents and no others, whatever the *)
(* documents are: by the tables that the first pass leaves, the references *)
(* that the second one follows, the graph that is searched for cycles and  *)
(* the factors of CCF groups.                                              *)
(***************************************************************************)
EXTENDS DocumentProofs, CycleDetectionProofs

-----------------------------------------------------------------------------
(* The entry with which an element gets into the tables of its component:  *)
(* its own, or the end of the component or the group.                      *)
Listing(i) ==
  IF Kind(i) \in {"component", "ccf"} THEN EndOf(i)
  ELSE IF Kind(i) = "ccf-member" THEN EndOf(GroupOf(i)) ELSE i

ListedAt(p) == {i \in Elements : Listing(i) = p}

InTables(i) == Parent(i) /= 0 \/ Kind(i) = "component"

(* Elements that the second pass defines.                                  *)
Deferred == {i \in Elements : Kind(i) \in {"gate", "basic-event", "parameter", "ccf"}}

(* A group with its first members, before the second pass.                 *)
FreshGroup(g, count) ==
  [model |-> Document[g].model, members |-> [k \in 1..count |-> g + k],
   distribution |-> FALSE, factors |-> <<>>, last |-> 0]

(* The members that a group has before an entry.                           *)
Count(g, p) == IF EndOf(g) < p THEN Size(g) ELSE p - 1 - g

DistinctIds(table) ==
  \A i, j \in table : i /= j /\ Space(Kind(i)) = Space(Kind(j)) => Id(i) /= Id(j)

DistinctNames(table) ==
  \A i, j \in table :
    i /= j /\ Space(Kind(i)) = Space(Kind(j)) /\ Parent(i) = Parent(j) => Name(i) /= Name(j)

NothingPrivate(table) == \A i \in table : RoleOf(i) = "private" => Parent(i) /= 0

(* What the first pass has done with the entries before an entry p.        *)
ModelUpTo(p) == {i \in ModelTable : i < p}

PathsUpTo(p) == {i \in PathTable : i < p}

ListedUpTo(p) == {i \in Elements : Listing(i) < p /\ InTables(i)}

DeferredUpTo(p) == {i \in Deferred : Listing(i) < p}

GroupsUpTo(p) == {g \in Elements : Kind(g) = "ccf" /\ g < p}

KeepsPaths(table, set) ==
  /\ table \subseteq set
  /\ \A i \in set : \E j \in table : Kind(j) = Kind(i) /\ Path(j) = Path(i)

Enumerates(sequence, set) ==
  /\ sequence \in Seq(set)
  /\ \A i \in set : \E k \in 1..Len(sequence) : sequence[k] = i
  /\ \A j, k \in 1..Len(sequence) : sequence[j] = sequence[k] => j = k

RegisteredTo(p, all, listed, by_path, deferred, given) ==
  /\ p \in 1..(Len(Document) + 1)
  /\ all = ModelUpTo(p) /\ DistinctIds(all) /\ NothingPrivate(all)
  /\ listed = ListedUpTo(p) /\ DistinctNames(listed)
  /\ KeepsPaths(by_path, PathsUpTo(p))
  /\ Enumerates(deferred, DeferredUpTo(p))
  /\ DOMAIN given = GroupsUpTo(p)
  /\ \A g \in DOMAIN given : given[g] = FreshGroup(g, Count(g, p))

Registering == RegisteredTo(position, model, contents, paths, tbd, groups)

-----------------------------------------------------------------------------
LEMMA SpaceFacts == \A a, b : a \in Space(b) <=> Space(a) = Space(b)
  BY DEF Space

(* Where elements are listed.                                              *)
LEMMA ListingFacts ==
  ASSUME input \in Inputs, NEW i \in Elements
  PROVE  /\ Listing(i) \in DOMAIN Document /\ Listing(i) \in Nat /\ i \in Nat /\ Listing(i) >= i
         /\ Kind(i) \in Proper => Listing(i) = i
         /\ Kind(i) = "component" \/ Kind(i) \in {"ccf", "ccf-member"} =>
              Listing(i) > i /\ Kind(Listing(i)) = "end"
<1>1. i \in DOMAIN Document /\ i \in Nat /\ Kind(i) /= "end"
  BY ParentFacts DEF Elements
<1>2. CASE Kind(i) \in {"component", "ccf"}
  <2>1. EndOf(i) \in DOMAIN Document /\ EndOf(i) > i /\ Kind(EndOf(i)) = "end" /\ EndOf(i) \in Nat
    BY <1>1, <1>2, EndFacts, ParentFacts
  <2>2. Listing(i) = EndOf(i)
    BY <1>2 DEF Listing
  <2> QED
    BY <1>1, <1>2, <2>1, <2>2 DEF Proper
<1>3. CASE Kind(i) = "ccf-member"
  <2>1. GroupOf(i) \in DOMAIN Document /\ Kind(GroupOf(i)) = "ccf" /\ i < EndOf(GroupOf(i))
    BY <1>1, <1>3, MemberFacts
  <2>2. EndOf(GroupOf(i)) \in DOMAIN Document /\ Kind(EndOf(GroupOf(i))) = "end" /\ EndOf(GroupOf(i)) \in Nat
    BY <2>1, EndFacts, ParentFacts
  <2>3. Listing(i) = EndOf(GroupOf(i))
    BY <1>3 DEF Listing
  <2> QED
    BY <1>1, <1>3, <2>1, <2>2, <2>3 DEF Proper
<1>4. CASE Kind(i) \notin {"component", "ccf", "ccf-member"}
  BY <1>1, <1>4 DEF Listing
<1> QED
  BY <1>2, <1>3, <1>4

LEMMA EntryListing ==
  ASSUME input \in Inputs, NEW p \in DOMAIN Document
  PROVE  /\ Kind(p) \in Proper => ListedAt(p) = {p}
         /\ Kind(p) \in {"component", "ccf", "ccf-member"} => ListedAt(p) = {}
         /\ Kind(p) = "end" /\ Kind(Parent(p)) = "component" => ListedAt(p) = {Parent(p)}
         /\ Kind(p) = "end" /\ Kind(Parent(p)) = "ccf" =>
              ListedAt(p) = {Parent(p)} \cup MembersMeant(Parent(p))
<1>1. ASSUME NEW i \in ListedAt(p)
      PROVE  /\ i \in Elements /\ Listing(i) = p
             /\ Kind(i) \in Kinds /\ Kind(i) /= "end"
  BY EntryFacts DEF ListedAt, Elements
<1>2. CASE Kind(p) \in Proper
  <2>1. p \in Elements
    BY <1>2 DEF Elements, Proper
  <2>2. p \in ListedAt(p)
    BY <1>2, <2>1, ListingFacts DEF ListedAt
  <2>3. ASSUME NEW i \in ListedAt(p) PROVE i = p
    <3>1. Kind(Listing(i)) /= "end"
      BY <1>1, <1>2 DEF Proper
    <3>2. Kind(i) \in Proper
      BY <1>1, <3>1, ListingFacts DEF Kinds, Proper
    <3> QED
      BY <1>1, <3>2, ListingFacts
  <2> QED
    BY <1>2, <2>2, <2>3 DEF Proper
<1>3. CASE Kind(p) \in {"component", "ccf", "ccf-member"}
  <2>1. ASSUME NEW i \in ListedAt(p) PROVE FALSE
    <3>1. Kind(i) \in Proper
      BY <1>1, <1>3, ListingFacts DEF Kinds, Proper
    <3> QED
      BY <1>1, <1>3, <3>1, ListingFacts DEF Proper
  <2> QED
    BY <1>3, <2>1 DEF Proper
<1>4. CASE Kind(p) = "end"
  <2> DEFINE c == Parent(p)
  <2>1. c \in DOMAIN Document /\ Kind(c) \in {"component", "ccf"}
    BY <1>4, EntryFacts
  <2>2. EndOf(c) = p
    BY <1>4, <2>1, EndFacts
  <2>3. c \in ListedAt(p)
    BY <2>1, <2>2 DEF ListedAt, Elements, Listing
  <2>4. ASSUME NEW i \in ListedAt(p) PROVE i = c \/ (Kind(c) = "ccf" /\ i \in MembersMeant(c))
    <3>1. i \in DOMAIN Document
      BY <1>1 DEF Elements
    <3>2. CASE Kind(i) \in {"component", "ccf"}
      <4>1. EndOf(i) = p
        BY <1>1, <3>2 DEF Listing
      <4>2. Parent(p) = i
        BY <3>1, <3>2, <4>1, EndFacts
      <4> QED
        BY <4>2
    <3>3. CASE Kind(i) = "ccf-member"
      <4>1. EndOf(GroupOf(i)) = p
        BY <1>1, <3>3 DEF Listing
      <4>2. GroupOf(i) \in DOMAIN Document /\ Kind(GroupOf(i)) = "ccf"
        BY <3>1, <3>3, MemberFacts
      <4>3. Parent(p) = GroupOf(i)
        BY <4>1, <4>2, EndFacts
      <4> QED
        BY <1>1, <3>3, <4>2, <4>3 DEF MembersMeant
    <3>4. CASE Kind(i) \in Proper
      <4>1. p = i
        BY <1>1, <3>4, ListingFacts
      <4> QED
        BY <1>4, <3>4, <4>1 DEF Proper
    <3> QED
      BY <1>1, <3>2, <3>3, <3>4 DEF Kinds, Proper
  <2>5. ASSUME Kind(c) = "ccf", NEW i \in MembersMeant(c) PROVE i \in ListedAt(p)
    BY <2>2, <2>5 DEF MembersMeant, ListedAt, Listing
  <2>6. Kind(c) = "component" => ListedAt(p) = {c}
    BY <2>3, <2>4
  <2>7. Kind(c) = "ccf" => ListedAt(p) = {c} \cup MembersMeant(c)
    BY <2>3, <2>4, <2>5
  <2> QED
    BY <1>4, <2>6, <2>7 DEF Proper
<1> QED
  BY <1>2, <1>3, <1>4, EntryFacts DEF Kinds, Proper

(* One more entry.                                                         *)
LEMMA NextEntry ==
  ASSUME input \in Inputs, NEW p \in DOMAIN Document
  PROVE  /\ ModelUpTo(p + 1) = ModelUpTo(p) \cup (IF p \in ModelTable THEN {p} ELSE {})
         /\ PathsUpTo(p + 1) = PathsUpTo(p) \cup (IF p \in PathTable THEN {p} ELSE {})
         /\ ListedUpTo(p + 1) = ListedUpTo(p) \cup {i \in ListedAt(p) : InTables(i)}
         /\ DeferredUpTo(p + 1) = DeferredUpTo(p) \cup {i \in ListedAt(p) : i \in Deferred}
         /\ GroupsUpTo(p + 1) = GroupsUpTo(p) \cup (IF Kind(p) = "ccf" THEN {p} ELSE {})
         /\ p \notin ModelUpTo(p) /\ p \notin PathsUpTo(p) /\ p \notin GroupsUpTo(p)
         /\ ListedUpTo(p) \cap ListedAt(p) = {} /\ DeferredUpTo(p) \cap ListedAt(p) = {}
<1>1. p \in Nat /\ \A i \in Elements : i \in Nat /\ Listing(i) \in Nat
  BY ListingFacts, ParentFacts
<1>2. \A i \in Elements : (i < p + 1 <=> i < p \/ i = p) /\ (Listing(i) < p + 1 <=> Listing(i) < p \/ Listing(i) = p)
  BY <1>1
<1>3. ~(p < p)
  BY <1>1
<1>4. ModelTable \subseteq Elements /\ PathTable \subseteq Elements /\ Deferred \subseteq Elements
  BY DEF ModelTable, PathTable, Deferred
<1>5. ModelUpTo(p + 1) = ModelUpTo(p) \cup (IF p \in ModelTable THEN {p} ELSE {})
  BY <1>2, <1>4 DEF ModelUpTo
<1>6. PathsUpTo(p + 1) = PathsUpTo(p) \cup (IF p \in PathTable THEN {p} ELSE {})
  BY <1>2, <1>4 DEF PathsUpTo
<1>7. ListedUpTo(p + 1) = ListedUpTo(p) \cup {i \in ListedAt(p) : InTables(i)}
  BY <1>2 DEF ListedUpTo, ListedAt
<1>8. DeferredUpTo(p + 1) = DeferredUpTo(p) \cup {i \in ListedAt(p) : i \in Deferred}
  BY <1>2, <1>4 DEF DeferredUpTo, ListedAt
<1>9. GroupsUpTo(p + 1) = GroupsUpTo(p) \cup (IF Kind(p) = "ccf" THEN {p} ELSE {})
  <2>1. Kind(p) = "ccf" => p \in Elements
    BY DEF Elements
  <2> QED
    BY <1>2, <2>1 DEF GroupsUpTo
<1>10. p \notin ModelUpTo(p) /\ p \notin PathsUpTo(p) /\ p \notin GroupsUpTo(p)
  BY <1>3 DEF ModelUpTo, PathsUpTo, GroupsUpTo
<1>11. ListedUpTo(p) \cap ListedAt(p) = {} /\ DeferredUpTo(p) \cap ListedAt(p) = {}
  BY <1>1, <1>3 DEF ListedUpTo, DeferredUpTo, ListedAt
<1> QED
  BY <1>5, <1>6, <1>7, <1>8, <1>9, <1>10, <1>11

(* The tables that an entry has no part in.                                *)
LEMMA SameTables ==
  ASSUME input \in Inputs, NEW p \in DOMAIN Document
  PROVE  /\ p \notin ModelTable => ModelUpTo(p + 1) = ModelUpTo(p)
         /\ p \notin PathTable => PathsUpTo(p + 1) = PathsUpTo(p)
         /\ ListedAt(p) = {} => ListedUpTo(p + 1) = ListedUpTo(p)
         /\ {i \in ListedAt(p) : i \in Deferred} = {} => DeferredUpTo(p + 1) = DeferredUpTo(p)
         /\ Kind(p) /= "ccf" => GroupsUpTo(p + 1) = GroupsUpTo(p)
<1>1. \A set : set \cup {} = set
  OBVIOUS
<1>2. p \notin ModelTable => ModelUpTo(p + 1) = ModelUpTo(p)
  BY <1>1, NextEntry
<1>3. p \notin PathTable => PathsUpTo(p + 1) = PathsUpTo(p)
  BY <1>1, NextEntry
<1>4. ListedAt(p) = {} => ListedUpTo(p + 1) = ListedUpTo(p)
  <2>1. ListedAt(p) = {} => {i \in ListedAt(p) : InTables(i)} = {}
    OBVIOUS
  <2> QED
    BY <1>1, <2>1, NextEntry
<1>5. {i \in ListedAt(p) : i \in Deferred} = {} => DeferredUpTo(p + 1) = DeferredUpTo(p)
  BY <1>1, NextEntry
<1>6. Kind(p) /= "ccf" => GroupsUpTo(p + 1) = GroupsUpTo(p)
  BY <1>1, NextEntry
<1> QED
  BY <1>2, <1>3, <1>4, <1>5, <1>6

-----------------------------------------------------------------------------
(* The tables of the next state, in terms of this one.                     *)
LEMMA RegisteringNext ==
  ASSUME input' = input, RegisteredTo(position', model', contents', paths', tbd', groups')
  PROVE  Registering'
<1>1. Registering' <=> RegisteredTo(position', model', contents', paths', tbd', groups')
  <2>1. /\ Document' = Document /\ Elements' = Elements
        /\ ModelTable' = ModelTable /\ PathTable' = PathTable
        /\ \A i : /\ Kind(i)' = Kind(i) /\ Name(i)' = Name(i) /\ Parent(i)' = Parent(i)
                  /\ Path(i)' = Path(i) /\ RoleOf(i)' = RoleOf(i) /\ Id(i)' = Id(i)
                  /\ GroupOf(i)' = GroupOf(i) /\ EndOf(i)' = EndOf(i) /\ Size(i)' = Size(i)
    BY SameEntries, SameMeaning
  <2>2. \A i : Listing(i)' = Listing(i)
    BY <2>1 DEF Listing
  <2>3. Deferred' = Deferred
    BY <2>1 DEF Deferred
  <2>4. /\ ModelUpTo(position)' = ModelUpTo(position')
        /\ PathsUpTo(position)' = PathsUpTo(position')
    BY <2>1 DEF ModelUpTo, PathsUpTo
  <2>5. /\ ListedUpTo(position)' = ListedUpTo(position')
        /\ DeferredUpTo(position)' = DeferredUpTo(position')
        /\ GroupsUpTo(position)' = GroupsUpTo(position')
    BY <2>1, <2>2, <2>3 DEF ListedUpTo, DeferredUpTo, GroupsUpTo, InTables
  <2>6. /\ DistinctIds(model)' <=> DistinctIds(model')
        /\ NothingPrivate(model)' <=> NothingPrivate(model')
        /\ DistinctNames(contents)' <=> DistinctNames(contents')
    BY <2>1 DEF DistinctIds, NothingPrivate, DistinctNames
  <2>7. KeepsPaths(paths, PathsUpTo(position))' <=> KeepsPaths(paths', PathsUpTo(position'))
    BY <2>1, <2>4 DEF KeepsPaths
  <2>8. Enumerates(tbd, DeferredUpTo(position))' <=> Enumerates(tbd', DeferredUpTo(position'))
    BY <2>5 DEF Enumerates
  <2>9. \A g : FreshGroup(g, Count(g, position))' = FreshGroup(g, Count(g, position'))
    BY <2>1 DEF FreshGroup, Count
  <2> QED
    BY <2>1, <2>4, <2>5, <2>6, <2>7, <2>8, <2>9 DEF Registering, RegisteredTo
<1> QED
  BY <1>1

(* What enters a table under an id or a name that it does not have.        *)
LEMMA NewId ==
  ASSUME NEW table, NEW i, DistinctIds(table), ~KnownId(i, table)
  PROVE  DistinctIds(table \cup {i})
  BY SpaceFacts DEF DistinctIds, KnownId

LEMMA NewName ==
  ASSUME NEW table, NEW i, DistinctNames(table), ~KnownName(i, table)
  PROVE  DistinctNames(table \cup {i})
  BY SpaceFacts DEF DistinctNames, KnownName

(* One that it has tells that the documents are not well named.            *)
LEMMA TakenId ==
  ASSUME NEW table \in SUBSET ModelTable, NEW i \in ModelTable \ table, KnownId(i, table)
  PROVE  ~WellNamed
<1>1. PICK j \in table : Kind(j) \in Space(Kind(i)) /\ Id(j) = Id(i)
  BY DEF KnownId
<1>2. Space(Kind(j)) = Space(Kind(i)) /\ i /= j
  BY <1>1, SpaceFacts
<1>3. i \in Elements /\ j \in Elements /\ Kind(i) /= "component"
  BY DEF ModelTable
<1> QED
  BY <1>1, <1>2, <1>3 DEF WellNamed

LEMMA TakenName ==
  ASSUME NEW table \in SUBSET Elements, NEW i \in Elements \ table, KnownName(i, table)
  PROVE  ~WellNamed
<1>1. PICK j \in table : Kind(j) \in Space(Kind(i)) /\ Parent(j) = Parent(i) /\ Name(j) = Name(i)
  BY DEF KnownName
<1>2. Space(Kind(j)) = Space(Kind(i)) /\ i /= j
  BY <1>1, SpaceFacts
<1> QED
  BY <1>1, <1>2 DEF WellNamed

LEMMA OneMore ==
  ASSUME NEW set, NEW sequence, NEW x, Enumerates(sequence, set), x \notin set
  PROVE  Enumerates(Append(sequence, x), set \cup {x})
<1> DEFINE n == Len(sequence)
           longer == Append(sequence, x)
<1>1. /\ sequence \in Seq(set) /\ n \in Nat
      /\ \A k \in 1..n : sequence[k] \in set
      /\ \A i \in set : \E k \in 1..n : sequence[k] = i
      /\ \A j, k \in 1..n : sequence[j] = sequence[k] => j = k
  BY ElementOfSeq, LenProperties DEF Enumerates
<1>2. sequence \in Seq(set \cup {x})
  BY <1>1, SeqMonotonic
<1>3. /\ longer \in Seq(set \cup {x}) /\ Len(longer) = n + 1
      /\ \A k \in 1..n : longer[k] = sequence[k]
      /\ longer[n + 1] = x
  BY <1>2, AppendProperties
<1>4. /\ \A k \in 1..(n + 1) : k = n + 1 \/ k \in 1..n
      /\ \A k \in 1..n : k \in 1..(n + 1)
      /\ n + 1 \in 1..(n + 1)
  BY <1>1
<1> HIDE DEF longer, n
<1>5. \A i \in set \cup {x} : \E k \in 1..(n + 1) : longer[k] = i
  BY <1>1, <1>3, <1>4
<1>6. \A j, k \in 1..(n + 1) : longer[j] = longer[k] => j = k
  BY <1>1, <1>3, <1>4
<1> QED
  BY <1>3, <1>5, <1>6 DEF Enumerates, longer

(* The groups that go on as they are.                                      *)
LEMMA OtherGroups ==
  ASSUME input \in Inputs, NEW p \in DOMAIN Document, NEW g \in GroupsUpTo(p)
  PROVE  /\ Kind(p) = "ccf-member" /\ GroupOf(p) = g => Count(g, p + 1) = Count(g, p) + 1
         /\ ~(Kind(p) = "ccf-member" /\ GroupOf(p) = g) => Count(g, p + 1) = Count(g, p)
         /\ Kind(p) = "ccf-member" /\ GroupOf(p) = g => p = g + Count(g, p) + 1
         /\ Kind(p) = "end" /\ Parent(p) = g => Count(g, p) = Size(g)
<1>1. /\ g \in DOMAIN Document /\ Kind(g) = "ccf" /\ g < p /\ p \in Nat /\ g \in Nat
      /\ EndOf(g) \in Nat /\ Size(g) \in Nat /\ EndOf(g) = g + Size(g) + 1
  <2>1. g \in DOMAIN Document /\ Kind(g) = "ccf" /\ g < p
    BY DEF GroupsUpTo, Elements
  <2> QED
    BY <2>1, MembersOfGroup, EndFacts, ParentFacts
<1>2. CASE Kind(p) = "ccf-member" /\ GroupOf(p) = g
  <2>1. p < EndOf(g)
    BY <1>2, MemberFacts
  <2> QED
    BY <1>1, <1>2, <2>1 DEF Count
<1>3. CASE ~(Kind(p) = "ccf-member" /\ GroupOf(p) = g)
  <2>1. EndOf(g) <= p
    <3>1. SUFFICES ASSUME p < EndOf(g) PROVE FALSE
      BY <1>1
    <3>2. p \in (g + 1)..(EndOf(g) - 1)
      BY <1>1, <3>1
    <3>3. Kind(p) = "ccf-member"
      BY <1>1, <3>2, GroupFacts
    <3>4. GroupOf(p) = g
      BY <1>1, <3>1, <3>3, MemberFacts
    <3> QED
      BY <1>3, <3>3, <3>4
  <2>2. Count(g, p + 1) = Size(g)
    BY <1>1, <2>1 DEF Count
  <2>3. Count(g, p) = Size(g)
    BY <1>1, <2>1 DEF Count
  <2>4. \A n \in Nat : ~(n = n + 1)
    OBVIOUS
  <2> QED
    BY <1>3, <2>2, <2>3
<1> QED
  BY <1>2, <1>3

-----------------------------------------------------------------------------
(* Groups are as they were where no group begins and none gets a member.   *)
GroupsTo(p, given) ==
  /\ DOMAIN given = GroupsUpTo(p)
  /\ \A g \in DOMAIN given : given[g] = FreshGroup(g, Count(g, p))

LEMMA GroupsGoOn ==
  ASSUME input \in Inputs, NEW p \in DOMAIN Document, Kind(p) \notin {"ccf", "ccf-member"},
         NEW given, GroupsTo(p, given)
  PROVE  GroupsTo(p + 1, given)
<1>1. GroupsUpTo(p + 1) = GroupsUpTo(p)
  BY NextEntry
<1>2. \A g \in GroupsUpTo(p) : Count(g, p + 1) = Count(g, p)
  BY OtherGroups
<1> QED
  BY <1>1, <1>2 DEF GroupsTo

(* A step of the first pass goes on as before, or throws at documents that *)
(* are not well named.                                                     *)
Proceeds ==
  /\ input' = input
  /\ \/ stage' = "register" /\ Registering'
     \/ stage' = "thrown" /\ ~WellNamed

LEMMA RegisterAt ==
  ASSUME input \in Inputs, Registering, position <= Len(Document)
  PROVE  /\ position \in DOMAIN Document /\ position \in Nat
         /\ position + 1 \in 1..(Len(Document) + 1)
         /\ model \subseteq ModelTable /\ model = ModelUpTo(position) /\ position \notin model
         /\ contents \subseteq Elements /\ contents \cap ListedAt(position) = {}
         /\ GroupsTo(position, groups)
<1>1. position \in 1..(Len(Document) + 1) /\ Len(Document) \in Nat /\ DOMAIN Document = 1..Len(Document)
  BY InDocument DEF Registering, RegisteredTo
<1>2. position \in DOMAIN Document /\ position \in Nat /\ position + 1 \in 1..(Len(Document) + 1)
  BY <1>1
<1>3. model = ModelUpTo(position) /\ contents = ListedUpTo(position) /\ GroupsTo(position, groups)
  BY DEF Registering, RegisteredTo, GroupsTo
<1> QED
  BY <1>2, <1>3, NextEntry DEF ModelUpTo, ListedUpTo

LEMMA RegisterElementStep ==
  ASSUME input \in Inputs, stage = "register", Registering, RegisterElement
  PROVE  Proceeds
<1> DEFINE p == position
<1>1. stage = "register" /\ p <= Len(Document) /\ Kind(p) \in Proper
  BY DEF RegisterElement, At, Proper
<1>2. /\ p \in DOMAIN Document /\ p \in Nat /\ p + 1 \in 1..(Len(Document) + 1)
      /\ model \subseteq ModelTable /\ model = ModelUpTo(p) /\ p \notin model
      /\ contents \subseteq Elements /\ contents \cap ListedAt(p) = {}
      /\ GroupsTo(p, groups)
  BY <1>1, RegisterAt
<1>3. p \in Elements /\ p \in ModelTable /\ p \in PathTable /\ ListedAt(p) = {p}
  BY <1>1, <1>2, EntryListing DEF Elements, ModelTable, PathTable, Proper
<1>4. CASE Refused(p) /\ Throw_
  <2>1. input' = input /\ stage' = "thrown"
    BY <1>4 DEF Throw_
  <2>2. CASE RoleOf(p) = "private" /\ Parent(p) = 0
    BY <1>3, <2>1, <2>2 DEF WellNamed, Proceeds
  <2>3. CASE KnownId(p, model)
    <3>1. ~WellNamed
      BY <1>2, <1>3, <2>3, TakenId
    <3> QED
      BY <2>1, <3>1 DEF Proceeds
  <2>4. CASE KnownName(p, contents)
    <3>1. p \in Elements \ contents
      BY <1>2, <1>3
    <3>2. ~WellNamed
      BY <1>2, <2>4, <3>1, TakenName
    <3> QED
      BY <2>1, <3>2 DEF Proceeds
  <2> QED
    BY <1>4, <2>2, <2>3, <2>4 DEF Refused
<1>5. CASE /\ ~Refused(p)
           /\ model' = model \cup {p}
           /\ paths' = paths \cup
                (IF \E j \in paths : Kind(j) = Kind(p) /\ Path(j) = Path(p) THEN {} ELSE {p})
           /\ contents' = contents \cup InComponents({p})
           /\ tbd' = IF Kind(p) = "house-event" THEN tbd ELSE Append(tbd, p)
           /\ Onwards /\ UNCHANGED definitions
  <2>1. input' = input /\ stage' = "register" /\ position' = p + 1 /\ groups' = groups
    BY <1>1, <1>5 DEF Onwards, definitions
  <2>2. model' = ModelUpTo(p + 1) /\ DistinctIds(model') /\ NothingPrivate(model')
    <3>1. model' = ModelUpTo(p + 1)
      BY <1>2, <1>3, <1>5, NextEntry
    <3>2. DistinctIds(model) /\ NothingPrivate(model)
      BY DEF Registering, RegisteredTo
    <3>3. DistinctIds(model \cup {p})
      BY <1>5, <3>2, NewId DEF Refused
    <3>4. NothingPrivate(model \cup {p})
      BY <1>5, <3>2 DEF Refused, NothingPrivate
    <3> QED
      BY <1>5, <3>1, <3>3, <3>4
  <2>3. contents' = ListedUpTo(p + 1) /\ DistinctNames(contents')
    <3>1. contents = ListedUpTo(p) /\ DistinctNames(contents)
      BY DEF Registering, RegisteredTo
    <3>2. InTables(p) <=> Parent(p) /= 0
      BY <1>1 DEF InTables, Proper
    <3>3. InComponents({p}) = {i \in ListedAt(p) : InTables(i)}
      BY <1>3, <3>2 DEF InComponents
    <3>4. contents' = ListedUpTo(p + 1)
      BY <1>2, <1>5, <3>1, <3>3, NextEntry
    <3>5. CASE Parent(p) = 0
      <4>1. InComponents({p}) = {}
        BY <3>5 DEF InComponents
      <4> QED
        BY <1>5, <3>1, <3>4, <4>1
    <3>6. CASE Parent(p) /= 0
      <4>1. InComponents({p}) = {p}
        BY <3>6 DEF InComponents
      <4>2. DistinctNames(contents \cup {p})
        BY <1>5, <3>1, <3>6, NewName DEF Refused
      <4> QED
        BY <1>5, <3>4, <4>1, <4>2
    <3> QED
      BY <3>5, <3>6
  <2>4. KeepsPaths(paths', PathsUpTo(p + 1))
    <3>1. KeepsPaths(paths, PathsUpTo(p)) /\ PathsUpTo(p + 1) = PathsUpTo(p) \cup {p}
      BY <1>2, <1>3, NextEntry DEF Registering, RegisteredTo
    <3>2. CASE \E j \in paths : Kind(j) = Kind(p) /\ Path(j) = Path(p)
      BY <1>5, <3>1, <3>2 DEF KeepsPaths
    <3>3. CASE ~\E j \in paths : Kind(j) = Kind(p) /\ Path(j) = Path(p)
      BY <1>5, <3>1, <3>3 DEF KeepsPaths
    <3> QED
      BY <3>2, <3>3
  <2>5. Enumerates(tbd', DeferredUpTo(p + 1))
    <3>1. /\ Enumerates(tbd, DeferredUpTo(p))
          /\ DeferredUpTo(p + 1) = DeferredUpTo(p) \cup {i \in {p} : i \in Deferred}
          /\ p \notin DeferredUpTo(p)
      BY <1>2, <1>3, NextEntry DEF Registering, RegisteredTo
    <3>2. CASE Kind(p) = "house-event"
      <4>1. p \notin Deferred
        BY <3>2 DEF Deferred
      <4>2. DeferredUpTo(p + 1) = DeferredUpTo(p)
        BY <3>1, <4>1
      <4> QED
        BY <1>5, <3>1, <3>2, <4>2
    <3>3. CASE Kind(p) /= "house-event"
      <4>1. p \in Deferred
        BY <1>1, <1>3, <3>3 DEF Deferred, Proper
      <4>2. DeferredUpTo(p + 1) = DeferredUpTo(p) \cup {p}
        BY <3>1, <4>1
      <4>3. Enumerates(Append(tbd, p), DeferredUpTo(p) \cup {p})
        BY <3>1, OneMore
      <4> QED
        BY <1>5, <3>3, <4>2, <4>3
    <3> QED
      BY <3>2, <3>3
  <2>6. GroupsTo(p + 1, groups)
    BY <1>1, <1>2, GroupsGoOn DEF Proper
  <2>7. RegisteredTo(position', model', contents', paths', tbd', groups')
    BY <1>2, <2>1, <2>2, <2>3, <2>4, <2>5, <2>6 DEF RegisteredTo, GroupsTo
  <2>8. Registering'
    BY <2>1, <2>7, RegisteringNext
  <2> QED
    BY <2>1, <2>8 DEF Proceeds
<1> QED
  BY <1>4, <1>5 DEF RegisterElement

LEMMA RegisterCcfGroupStep ==
  ASSUME input \in Inputs, stage = "register", Registering, RegisterCcfGroup
  PROVE  Proceeds
<1> DEFINE p == position
<1>1. p <= Len(Document) /\ Kind(p) = "ccf"
  BY DEF RegisterCcfGroup, At
<1>2. /\ p \in DOMAIN Document /\ p \in Nat /\ p + 1 \in 1..(Len(Document) + 1)
      /\ model \subseteq ModelTable /\ model = ModelUpTo(p) /\ p \notin model
      /\ contents \subseteq Elements /\ GroupsTo(p, groups)
  BY <1>1, RegisterAt
<1>3. p \in Elements /\ p \in ModelTable /\ p \notin PathTable /\ ListedAt(p) = {}
  BY <1>1, <1>2, EntryListing DEF Elements, ModelTable, PathTable, Proper
<1>4. CASE KnownId(p, model) /\ Throw_
  <2>1. input' = input /\ stage' = "thrown"
    BY <1>4 DEF Throw_
  <2>2. ~WellNamed
    BY <1>2, <1>3, <1>4, TakenId
  <2> QED
    BY <2>1, <2>2 DEF Proceeds
<1>5. CASE /\ ~KnownId(p, model)
           /\ model' = model \cup {p}
           /\ groups' = [g \in DOMAIN groups \cup {p} |->
                           IF g = p THEN NewGroup(Document[p].model) ELSE groups[g]]
           /\ Onwards /\ UNCHANGED <<paths, contents, tbd, formula, used, child>>
  <2>1. /\ input' = input /\ stage' = "register" /\ position' = p + 1
        /\ paths' = paths /\ contents' = contents /\ tbd' = tbd
    BY <1>5 DEF Onwards
  <2>2. model' = ModelUpTo(p + 1) /\ DistinctIds(model') /\ NothingPrivate(model')
    <3>1. model' = ModelUpTo(p + 1)
      BY <1>2, <1>3, <1>5, NextEntry
    <3>2. DistinctIds(model) /\ NothingPrivate(model)
      BY DEF Registering, RegisteredTo
    <3>3. DistinctIds(model \cup {p})
      BY <1>5, <3>2, NewId
    <3>4. NothingPrivate(model \cup {p})
      <4>1. Parent(p) = 0 => RoleOf(p) = "public"
        BY <1>1, <1>2, InheritedRole
      <4> QED
        BY <3>2, <4>1 DEF NothingPrivate
    <3> QED
      BY <1>5, <3>1, <3>3, <3>4
  <2>3. contents' = ListedUpTo(p + 1) /\ DistinctNames(contents')
    <3>1. contents = ListedUpTo(p) /\ DistinctNames(contents)
      BY DEF Registering, RegisteredTo
    <3>2. ListedUpTo(p + 1) = ListedUpTo(p)
      BY <1>2, <1>3, SameTables
    <3> QED
      BY <2>1, <3>1, <3>2
  <2>4. KeepsPaths(paths', PathsUpTo(p + 1))
    <3>1. KeepsPaths(paths, PathsUpTo(p))
      BY DEF Registering, RegisteredTo
    <3>2. PathsUpTo(p + 1) = PathsUpTo(p)
      BY <1>2, <1>3, SameTables
    <3> QED
      BY <2>1, <3>1, <3>2
  <2>5. Enumerates(tbd', DeferredUpTo(p + 1))
    <3>1. Enumerates(tbd, DeferredUpTo(p))
      BY DEF Registering, RegisteredTo
    <3>2. DeferredUpTo(p + 1) = DeferredUpTo(p)
      BY <1>2, <1>3, NextEntry
    <3> QED
      BY <2>1, <3>1, <3>2
  <2>6. GroupsTo(p + 1, groups')
    <3>1. DOMAIN groups' = GroupsUpTo(p + 1) /\ DOMAIN groups = GroupsUpTo(p) /\ p \notin GroupsUpTo(p)
      BY <1>1, <1>2, <1>5, NextEntry DEF GroupsTo
    <3>2. ASSUME NEW g \in GroupsUpTo(p) PROVE groups'[g] = FreshGroup(g, Count(g, p + 1))
      <4>1. groups'[g] = groups[g]
        BY <1>5, <3>1
      <4>2. Count(g, p + 1) = Count(g, p)
        BY <1>1, <1>2, OtherGroups
      <4> QED
        BY <1>2, <3>1, <4>1, <4>2 DEF GroupsTo
    <3>3. groups'[p] = FreshGroup(p, Count(p, p + 1))
      <4>1. EndOf(p) > p + 1 /\ EndOf(p) \in Nat
        BY <1>1, <1>2, GroupFacts, EndFacts, ParentFacts
      <4>2. Count(p, p + 1) = 0
        BY <1>2, <4>1 DEF Count
      <4>3. [k \in 1..0 |-> p + k] = <<>>
        OBVIOUS
      <4>4. groups'[p] = NewGroup(Document[p].model)
        BY <1>5
      <4> QED
        BY <4>2, <4>3, <4>4 DEF NewGroup, FreshGroup
    <3>4. GroupsUpTo(p + 1) = GroupsUpTo(p) \cup {p}
      BY <1>1, <1>2, NextEntry
    <3> QED
      BY <3>1, <3>2, <3>3, <3>4 DEF GroupsTo
  <2>7. RegisteredTo(position', model', contents', paths', tbd', groups')
    BY <1>2, <2>1, <2>2, <2>3, <2>4, <2>5, <2>6 DEF RegisteredTo, GroupsTo
  <2>8. Registering'
    BY <2>1, <2>7, RegisteringNext
  <2> QED
    BY <2>1, <2>8 DEF Proceeds
<1> QED
  BY <1>4, <1>5 DEF RegisterCcfGroup

(* The members of a group that has some.                                   *)
LEMMA FreshMembers ==
  ASSUME NEW g \in Nat, NEW count \in Nat, groups[g] = FreshGroup(g, count)
  PROVE  /\ Members(g) = (g + 1)..(g + count)
         /\ ~groups[g].distribution /\ groups[g].factors = <<>>
         /\ WithMember(groups[g], g + count + 1) = FreshGroup(g, count + 1)
<1> DEFINE members == [k \in 1..count |-> g + k]
<1>1. groups[g].members = members /\ ~groups[g].distribution /\ groups[g].factors = <<>>
  BY DEF FreshGroup
<1>2. Members(g) = {g + k : k \in 1..count}
  BY <1>1 DEF Members
<1>3. {g + k : k \in 1..count} = (g + 1)..(g + count)
  <2>1. \A j \in (g + 1)..(g + count) : j - g \in 1..count /\ g + (j - g) = j
    OBVIOUS
  <2>2. \A k \in 1..count : g + k \in (g + 1)..(g + count)
    OBVIOUS
  <2> QED
    BY <2>1, <2>2
<1> DEFINE more == [k \in 1..(count + 1) |-> g + k]
<1>4. Append(members, g + count + 1) = more
  <2>1. /\ members \in Seq(Nat) /\ Len(members) = count /\ more \in Seq(Nat) /\ Len(more) = count + 1
        /\ g + count + 1 \in Nat /\ \A k \in 1..count : members[k] = g + k
        /\ \A k \in 1..(count + 1) : more[k] = g + k
    OBVIOUS
  <2>2. \A k \in 1..(count + 1) : k \in 1..count \/ k = count + 1
    OBVIOUS
  <2> HIDE DEF members, more
  <2>3. /\ Append(members, g + count + 1) \in Seq(Nat)
        /\ Len(Append(members, g + count + 1)) = count + 1
        /\ \A k \in 1..count : Append(members, g + count + 1)[k] = members[k]
        /\ Append(members, g + count + 1)[count + 1] = g + count + 1
    BY <2>1, AppendProperties
  <2>4. \A k \in 1..(count + 1) : Append(members, g + count + 1)[k] = more[k]
    BY <2>1, <2>2, <2>3
  <2> QED
    BY <2>1, <2>3, <2>4, SeqEqual
<1>5. WithMember(groups[g], g + count + 1) = FreshGroup(g, count + 1)
  <2> DEFINE no == FALSE
  <2>1. /\ FreshGroup(g, count) = [model |-> Document[g].model, members |-> members,
                                   distribution |-> no, factors |-> <<>>, last |-> 0]
        /\ FreshGroup(g, count + 1) = [model |-> Document[g].model, members |-> more,
                                       distribution |-> no, factors |-> <<>>, last |-> 0]
    BY DEF FreshGroup
  <2> HIDE DEF members, more, no
  <2>2. \A m, old, d, f, l, x :
          WithMember([model |-> m, members |-> old, distribution |-> d, factors |-> f, last |-> l], x) =
            [model |-> m, members |-> Append(old, x), distribution |-> d, factors |-> f, last |-> l]
    <3> TAKE m, old, d, f, l, x
    <3> DEFINE group == [model |-> m, members |-> old, distribution |-> d, factors |-> f, last |-> l]
    <3>1. group.members = old
      OBVIOUS
    <3>2. \A new : [group EXCEPT !.members = new] =
            [model |-> m, members |-> new, distribution |-> d, factors |-> f, last |-> l]
      OBVIOUS
    <3>3. WithMember(group, x) = [group EXCEPT !.members = Append(group.members, x)]
      BY DEF WithMember
    <3> HIDE DEF group
    <3> QED
      BY <3>1, <3>2, <3>3 DEF group
  <2>3. WithMember(FreshGroup(g, count), g + count + 1) = FreshGroup(g, count + 1)
    BY <1>4, <2>1, <2>2
  <2> QED
    BY <2>3
<1> QED
  BY <1>1, <1>2, <1>3, <1>5

LEMMA ProcessCcfMemberStep ==
  ASSUME input \in Inputs, stage = "register", Registering, ProcessCcfMember
  PROVE  Proceeds
<1> DEFINE p == position
           g == GroupOf(p)
<1>1. p <= Len(Document) /\ Kind(p) = "ccf-member"
  BY DEF ProcessCcfMember, At
<1>2. /\ p \in DOMAIN Document /\ p \in Nat /\ p + 1 \in 1..(Len(Document) + 1)
      /\ model \subseteq ModelTable /\ model = ModelUpTo(p) /\ p \notin model
      /\ GroupsTo(p, groups)
  BY <1>1, RegisterAt
<1>3. p \in Elements /\ p \in ModelTable /\ p \notin PathTable /\ ListedAt(p) = {}
  BY <1>1, <1>2, EntryListing DEF Elements, ModelTable, PathTable, Proper
<1>4. /\ g \in DOMAIN Document /\ Kind(g) = "ccf" /\ g < p /\ p < EndOf(g)
      /\ Parent(g) = Parent(p) /\ g \in Elements /\ g \in GroupsUpTo(p)
      /\ \A j \in (g + 1)..p : Kind(j) = "ccf-member"
  BY <1>1, <1>2, MemberFacts DEF Elements, GroupsUpTo
<1>5. /\ p = g + Count(g, p) + 1 /\ Count(g, p + 1) = Count(g, p) + 1
      /\ g \in Nat /\ Count(g, p) \in Nat /\ EndOf(g) \in Nat
  <2>1. g \in Nat /\ EndOf(g) \in Nat
    BY <1>4, ParentFacts, EndFacts
  <2>2. Count(g, p) = p - 1 - g
    BY <1>2, <1>4, <2>1 DEF Count
  <2>3. Count(g, p) \in Nat
    BY <1>2, <1>4, <2>1, <2>2
  <2> QED
    BY <1>1, <1>2, <1>4, <2>1, <2>3, OtherGroups
<1>6. groups[g] = FreshGroup(g, Count(g, p))
  BY <1>2, <1>4 DEF GroupsTo
<1>7. /\ Members(g) = (g + 1)..(g + Count(g, p))
      /\ ~groups[g].distribution /\ groups[g].factors = <<>>
      /\ WithMember(groups[g], p) = FreshGroup(g, Count(g, p + 1))
  BY <1>5, <1>6, FreshMembers
<1> DEFINE accepted == AcceptsMember(groups[g], {Name(m) : m \in Members(g)}, Name(p)) /\ ~KnownId(p, model)
<1>8. CASE ~accepted /\ Throw_
  <2>1. input' = input /\ stage' = "thrown"
    BY <1>8 DEF Throw_
  <2>2. CASE KnownId(p, model)
    <3>1. ~WellNamed
      BY <1>2, <1>3, <2>2, TakenId
    <3> QED
      BY <2>1, <3>1 DEF Proceeds
  <2>3. CASE ~AcceptsMember(groups[g], {Name(m) : m \in Members(g)}, Name(p))
    <3>1. PICK m \in Members(g) : Name(m) = Name(p)
      BY <1>7, <2>3 DEF AcceptsMember
    <3>2. m \in (g + 1)..p /\ m \in Nat /\ m < p /\ g < m
      BY <1>5, <1>7, <3>1
    <3>3. m \in DOMAIN Document /\ Kind(m) = "ccf-member"
      BY <1>2, <1>4, <1>5, <3>2, InDocument
    <3>4. GroupOf(m) = g
      BY <1>2, <1>4, <1>5, <3>2, <3>3, MemberFacts
    <3>5. Parent(m) = Parent(p)
      BY <1>4, <3>3, <3>4, MemberFacts
    <3>6. m \in Elements /\ m /= p
      BY <1>2, <3>2, <3>3 DEF Elements
    <3>7. ~WellNamed
      BY <1>1, <1>3, <3>1, <3>3, <3>5, <3>6 DEF WellNamed
    <3> QED
      BY <2>1, <3>7 DEF Proceeds
  <2> QED
    BY <1>8, <2>2, <2>3
<1>9. CASE /\ accepted
           /\ groups' = [groups EXCEPT ![g] = WithMember(@, p)]
           /\ model' = model \cup {p}
           /\ Onwards /\ UNCHANGED <<paths, contents, tbd, formula, used, child>>
  <2>1. /\ input' = input /\ stage' = "register" /\ position' = p + 1
        /\ paths' = paths /\ contents' = contents /\ tbd' = tbd
    BY <1>9 DEF Onwards
  <2>2. model' = ModelUpTo(p + 1) /\ DistinctIds(model') /\ NothingPrivate(model')
    <3>1. model' = ModelUpTo(p + 1)
      BY <1>2, <1>3, <1>9, NextEntry
    <3>2. DistinctIds(model) /\ NothingPrivate(model)
      BY DEF Registering, RegisteredTo
    <3>3. DistinctIds(model \cup {p})
      BY <1>9, <3>2, NewId
    <3>4. NothingPrivate(model \cup {p})
      <4>1. Parent(p) = 0 => RoleOf(p) = "public"
        BY <1>1, <1>2, InheritedRole
      <4> QED
        BY <3>2, <4>1 DEF NothingPrivate
    <3> QED
      BY <1>9, <3>1, <3>3, <3>4
  <2>3. contents' = ListedUpTo(p + 1) /\ DistinctNames(contents')
    <3>1. contents = ListedUpTo(p) /\ DistinctNames(contents)
      BY DEF Registering, RegisteredTo
    <3>2. ListedUpTo(p + 1) = ListedUpTo(p)
      BY <1>2, <1>3, SameTables
    <3> QED
      BY <2>1, <3>1, <3>2
  <2>4. KeepsPaths(paths', PathsUpTo(p + 1))
    <3>1. KeepsPaths(paths, PathsUpTo(p))
      BY DEF Registering, RegisteredTo
    <3>2. PathsUpTo(p + 1) = PathsUpTo(p)
      BY <1>2, <1>3, SameTables
    <3> QED
      BY <2>1, <3>1, <3>2
  <2>5. Enumerates(tbd', DeferredUpTo(p + 1))
    <3>1. Enumerates(tbd, DeferredUpTo(p))
      BY DEF Registering, RegisteredTo
    <3>2. DeferredUpTo(p + 1) = DeferredUpTo(p)
      <4>1. {i \in ListedAt(p) : i \in Deferred} = {}
        BY <1>3
      <4> QED
        BY <1>2, <4>1, SameTables
    <3> QED
      BY <2>1, <3>1, <3>2
  <2>6. GroupsTo(p + 1, groups')
    <3>1. GroupsUpTo(p + 1) = GroupsUpTo(p)
      BY <1>1, <1>2, SameTables
    <3>2. DOMAIN groups' = GroupsUpTo(p + 1) /\ DOMAIN groups = GroupsUpTo(p)
      BY <1>2, <1>9, <3>1 DEF GroupsTo
    <3>3. ASSUME NEW h \in GroupsUpTo(p), h /= g PROVE groups'[h] = FreshGroup(h, Count(h, p + 1))
      <4>1. groups'[h] = groups[h]
        BY <1>9, <3>2, <3>3
      <4>2. Count(h, p + 1) = Count(h, p)
        BY <1>2, <3>3, OtherGroups
      <4> QED
        BY <1>2, <3>2, <4>1, <4>2 DEF GroupsTo
    <3>4. groups'[g] = FreshGroup(g, Count(g, p + 1))
      BY <1>4, <1>7, <1>9, <3>2
    <3> QED
      BY <3>1, <3>2, <3>3, <3>4 DEF GroupsTo
  <2>7. RegisteredTo(position', model', contents', paths', tbd', groups')
    BY <1>2, <2>1, <2>2, <2>3, <2>4, <2>5, <2>6 DEF RegisteredTo, GroupsTo
  <2>8. Registering'
    BY <2>1, <2>7, RegisteringNext
  <2> QED
    BY <2>1, <2>8 DEF Proceeds
<1> QED
  BY <1>8, <1>9 DEF ProcessCcfMember

LEMMA AddCcfGroupStep ==
  ASSUME input \in Inputs, stage = "register", Registering, AddCcfGroup
  PROVE  Proceeds
<1> DEFINE p == position
           g == Parent(p)
           new == {g} \cup Members(g)
<1>1. p <= Len(Document) /\ Kind(p) = "end" /\ Kind(g) = "ccf"
  BY DEF AddCcfGroup, At
<1>2. /\ p \in DOMAIN Document /\ p \in Nat /\ p + 1 \in 1..(Len(Document) + 1)
      /\ model \subseteq ModelTable /\ model = ModelUpTo(p) /\ p \notin model
      /\ contents \subseteq Elements /\ contents \cap ListedAt(p) = {}
      /\ GroupsTo(p, groups)
  BY <1>1, RegisterAt
<1>3. /\ p \notin ModelTable /\ p \notin PathTable
      /\ ListedAt(p) = {g} \cup MembersMeant(g)
  BY <1>1, <1>2, EntryListing DEF Elements, ModelTable, PathTable
<1>4. /\ g \in DOMAIN Document /\ g < p /\ g \in Elements /\ g \in GroupsUpTo(p) /\ g \in Nat
      /\ p = EndOf(g)
  <2>1. g \in DOMAIN Document
    BY <1>1, <1>2, EntryFacts
  <2>2. p = EndOf(g)
    BY <1>1, <1>2, <2>1, EndFacts
  <2> QED
    BY <1>1, <2>1, <2>2, ParentFacts, EndFacts DEF Elements, GroupsUpTo
<1>5. /\ Count(g, p) = Size(g) /\ Size(g) \in Nat
      /\ MembersMeant(g) = (g + 1)..(p - 1) /\ p = g + Size(g) + 1
  BY <1>1, <1>2, <1>4, OtherGroups, MembersOfGroup
<1>6. Members(g) = MembersMeant(g)
  <2>1. groups[g] = FreshGroup(g, Size(g))
    BY <1>2, <1>4, <1>5 DEF GroupsTo
  <2>2. Members(g) = (g + 1)..(g + Size(g))
    BY <1>4, <1>5, <2>1, FreshMembers
  <2> QED
    BY <1>4, <1>5, <2>2
<1> HIDE DEF p, g
<1>7. new = ListedAt(p) /\ new \subseteq Elements
  BY <1>3, <1>4, <1>6 DEF MembersMeant
<1>8. ASSUME NEW m \in Members(g)
      PROVE  /\ m \in DOMAIN Document /\ m \in Elements /\ Kind(m) = "ccf-member"
             /\ Parent(m) = Parent(g) /\ RoleOf(m) = RoleOf(g) /\ m \in model
  <2>1. m \in DOMAIN Document /\ m \in Elements /\ Kind(m) = "ccf-member" /\ GroupOf(m) = g /\ m \in ModelTable
    BY <1>6 DEF MembersMeant, Elements, ModelTable
  <2>2. Parent(m) = Parent(g)
    BY <2>1, MemberFacts
  <2>3. RoleOf(m) = RoleOf(g)
    BY <1>1, <1>4, <2>1, <2>2, InheritedRole DEF p, g
  <2>4. m < p
    <3>1. m \in (g + 1)..(p - 1)
      BY <1>5, <1>6
    <3> QED
      BY <1>2, <1>4, <3>1
  <2> QED
    BY <1>2, <2>1, <2>2, <2>3, <2>4 DEF ModelUpTo
<1>9. \A i \in new : Parent(i) = Parent(g) /\ (InTables(i) <=> Parent(g) /= 0)
  BY <1>1, <1>8 DEF InTables, g
<1> DEFINE known == Parent(g) /= 0 /\ \E i \in new : KnownName(i, contents)
<1>10. CASE known /\ Throw_
  <2>1. input' = input /\ stage' = "thrown"
    BY <1>10 DEF Throw_
  <2>2. PICK i \in new : KnownName(i, contents)
    BY <1>10
  <2>3. i \in Elements \ contents
    BY <1>2, <1>7
  <2>4. ~WellNamed
    BY <1>2, <2>2, <2>3, TakenName
  <2> QED
    BY <2>1, <2>4 DEF Proceeds
<1>11. CASE /\ ~known
            /\ contents' = contents \cup InComponents(new)
            /\ tbd' = Append(tbd, g)
            /\ Onwards /\ UNCHANGED <<model, paths, definitions>>
  <2>1. /\ input' = input /\ stage' = "register" /\ position' = p + 1
        /\ paths' = paths /\ model' = model /\ groups' = groups
    BY <1>11 DEF Onwards, definitions, p
  <2>2. model' = ModelUpTo(p + 1) /\ DistinctIds(model') /\ NothingPrivate(model')
    <3>1. ModelUpTo(p + 1) = ModelUpTo(p)
      BY <1>2, <1>3, SameTables
    <3> QED
      BY <1>2, <2>1, <3>1 DEF Registering, RegisteredTo
  <2>3. contents' = ListedUpTo(p + 1)
    <3>1. contents = ListedUpTo(p)
      BY DEF Registering, RegisteredTo, p
    <3>2. InComponents(new) = {i \in ListedAt(p) : InTables(i)}
      BY <1>7, <1>9 DEF InComponents
    <3> QED
      BY <1>2, <1>11, <3>1, <3>2, NextEntry
  <2>4. DistinctNames(contents')
    <3>1. DistinctNames(contents) /\ DistinctIds(model)
      BY DEF Registering, RegisteredTo
    <3>2. CASE Parent(g) = 0
      <4>1. InComponents(new) = {}
        BY <1>9, <3>2 DEF InComponents
      <4> QED
        BY <1>11, <3>1, <4>1
    <3>3. CASE Parent(g) /= 0
      <4>1. InComponents(new) = new
        BY <1>9, <3>3 DEF InComponents
      <4>2. \A i \in new : ~KnownName(i, contents)
        BY <1>11, <3>3
      <4>3. ASSUME NEW i \in new, NEW j \in new, i /= j, Space(Kind(i)) = Space(Kind(j))
            PROVE  Name(i) /= Name(j)
        <5>1. Kind(g) = "ccf"
          BY <1>1 DEF g
        <5>2. Space("ccf") /= Space("ccf-member")
          BY DEF Space, Events, BasicEvents
        <5>3. i \in Members(g) /\ j \in Members(g)
          BY <1>8, <4>3, <5>1, <5>2
        <5>4. Id(i) /= Id(j)
          BY <1>8, <3>1, <4>3, <5>3 DEF DistinctIds
        <5> QED
          BY <1>8, <5>3, <5>4, SameScope
      <4>4. DistinctNames(contents \cup new)
        <5>1. ASSUME NEW i \in new, NEW j \in contents,
                     Space(Kind(i)) = Space(Kind(j)), Parent(i) = Parent(j)
              PROVE  Name(i) /= Name(j)
          BY <4>2, <5>1, SpaceFacts DEF KnownName
        <5> QED
          BY <3>1, <4>3, <5>1 DEF DistinctNames
      <4> QED
        BY <1>11, <4>1, <4>4
    <3> QED
      BY <3>2, <3>3
  <2>5. KeepsPaths(paths', PathsUpTo(p + 1))
    <3>1. KeepsPaths(paths, PathsUpTo(p))
      BY DEF Registering, RegisteredTo, p
    <3>2. PathsUpTo(p + 1) = PathsUpTo(p)
      BY <1>2, <1>3, SameTables
    <3> QED
      BY <2>1, <3>1, <3>2
  <2>6. Enumerates(tbd', DeferredUpTo(p + 1))
    <3>1. Enumerates(tbd, DeferredUpTo(p))
      BY DEF Registering, RegisteredTo, p
    <3>2. {i \in ListedAt(p) : i \in Deferred} = {g}
      <4>1. g \in Deferred
        BY <1>1, <1>4 DEF Deferred, g
      <4>2. \A m \in Members(g) : m \notin Deferred
        BY <1>8 DEF Deferred
      <4> QED
        BY <1>7, <4>1, <4>2
    <3>3. DeferredUpTo(p + 1) = DeferredUpTo(p) \cup {g} /\ g \notin DeferredUpTo(p)
      <4>1. g \in ListedAt(p)
        BY <1>7
      <4> QED
        BY <1>2, <3>2, <4>1, NextEntry
    <3>4. Enumerates(Append(tbd, g), DeferredUpTo(p) \cup {g})
      BY <3>1, <3>3, OneMore
    <3> QED
      BY <1>11, <3>3, <3>4
  <2>7. GroupsTo(p + 1, groups)
    <3>1. Kind(p) \notin {"ccf", "ccf-member"}
      BY <1>1 DEF p
    <3> QED
      BY <1>2, <3>1, GroupsGoOn
  <2>8. RegisteredTo(position', model', contents', paths', tbd', groups')
    BY <1>2, <2>1, <2>2, <2>3, <2>4, <2>5, <2>6, <2>7 DEF RegisteredTo, GroupsTo
  <2>9. Registering'
    BY <2>1, <2>8, RegisteringNext
  <2> QED
    BY <2>1, <2>9 DEF Proceeds
<1> QED
  BY <1>10, <1>11 DEF AddCcfGroup, p, g

LEMMA ComponentStep ==
  ASSUME input \in Inputs, stage = "register", Registering, DefineComponent \/ AddComponent
  PROVE  Proceeds
<1> DEFINE p == position
           c == Parent(p)
           ends == Kind(p) = "end" /\ Kind(c) = "component"
<1>1. p <= Len(Document) /\ (Kind(p) = "component" \/ ends)
  BY DEF DefineComponent, AddComponent, At
<1>2. /\ p \in DOMAIN Document /\ p \in Nat /\ p + 1 \in 1..(Len(Document) + 1)
      /\ model \subseteq ModelTable /\ model = ModelUpTo(p)
      /\ contents \subseteq Elements /\ contents \cap ListedAt(p) = {}
      /\ contents = ListedUpTo(p) /\ DistinctNames(contents)
      /\ GroupsTo(p, groups)
  BY <1>1, RegisterAt DEF Registering, RegisteredTo
<1>3. p \notin ModelTable /\ p \notin PathTable /\ Kind(p) \notin {"ccf", "ccf-member"}
  BY <1>1 DEF ModelTable, PathTable, Elements, Proper
<1>4. ends => c \in DOMAIN Document
  BY <1>2, EntryFacts
<1>5. /\ ends => ListedAt(p) = {c} /\ c \in Elements /\ InTables(c) /\ c \notin Deferred
      /\ ~ends => ListedAt(p) = {}
  BY <1>1, <1>2, <1>4, EntryListing DEF Elements, InTables, Deferred
<1>6. CASE ends /\ KnownName(c, contents) /\ Throw_
  <2>1. input' = input /\ stage' = "thrown"
    BY <1>6 DEF Throw_
  <2>2. c \in Elements \ contents
    BY <1>2, <1>5, <1>6
  <2>3. ~WellNamed
    BY <1>2, <1>6, <2>2, TakenName
  <2> QED
    BY <2>1, <2>3 DEF Proceeds
<1>7. CASE /\ contents' = contents \cup (IF ends THEN {c} ELSE {})
           /\ ends => ~KnownName(c, contents)
           /\ Onwards /\ UNCHANGED <<model, paths, tbd, definitions>>
  <2>1. /\ input' = input /\ stage' = "register" /\ position' = p + 1
        /\ paths' = paths /\ model' = model /\ groups' = groups /\ tbd' = tbd
    BY <1>7 DEF Onwards, definitions
  <2>2. model' = ModelUpTo(p + 1) /\ DistinctIds(model') /\ NothingPrivate(model')
    <3>1. ModelUpTo(p + 1) = ModelUpTo(p)
      BY <1>2, <1>3, SameTables
    <3> QED
      BY <1>2, <2>1, <3>1 DEF Registering, RegisteredTo
  <2>3. contents' = ListedUpTo(p + 1)
    BY <1>2, <1>5, <1>7, NextEntry
  <2>4. DistinctNames(contents')
    BY <1>2, <1>7, NewName
  <2>5. KeepsPaths(paths', PathsUpTo(p + 1))
    <3>1. KeepsPaths(paths, PathsUpTo(p))
      BY DEF Registering, RegisteredTo
    <3>2. PathsUpTo(p + 1) = PathsUpTo(p)
      BY <1>2, <1>3, SameTables
    <3> QED
      BY <2>1, <3>1, <3>2
  <2>6. Enumerates(tbd', DeferredUpTo(p + 1))
    <3>1. Enumerates(tbd, DeferredUpTo(p))
      BY DEF Registering, RegisteredTo
    <3>2. DeferredUpTo(p + 1) = DeferredUpTo(p)
      <4>1. {i \in ListedAt(p) : i \in Deferred} = {}
        BY <1>5
      <4> QED
        BY <1>2, <4>1, SameTables
    <3> QED
      BY <2>1, <3>1, <3>2
  <2>7. GroupsTo(p + 1, groups)
    BY <1>2, <1>3, GroupsGoOn
  <2>8. RegisteredTo(position', model', contents', paths', tbd', groups')
    BY <1>2, <2>1, <2>2, <2>3, <2>4, <2>5, <2>6, <2>7 DEF RegisteredTo, GroupsTo
  <2>9. Registering'
    BY <2>1, <2>8, RegisteringNext
  <2> QED
    BY <2>1, <2>9 DEF Proceeds
<1>8. CASE DefineComponent
  <2>1. ~ends
    BY <1>8 DEF DefineComponent, At
  <2>2. contents' = contents \cup {}
    BY <1>8 DEF DefineComponent, registry
  <2> QED
    BY <1>7, <1>8, <2>1, <2>2 DEF DefineComponent, registry
<1>9. CASE AddComponent
  <2>1. ends
    BY <1>9 DEF AddComponent, At
  <2> QED
    BY <1>6, <1>7, <1>9, <2>1 DEF AddComponent
<1> QED
  BY <1>8, <1>9

-----------------------------------------------------------------------------
(* The tables when all entries are registered.                             *)
Groups == {g \in Elements : Kind(g) = "ccf"}

TablesComplete ==
  /\ WellNamed
  /\ model = ModelTable /\ paths = PathTable /\ contents = {i \in Elements : InTables(i)}
  /\ Enumerates(tbd, Deferred)
  /\ DOMAIN groups = Groups

LEMMA AtTheEnd ==
  ASSUME input \in Inputs
  PROVE  LET end == Len(Document) + 1
         IN /\ ModelUpTo(end) = ModelTable /\ PathsUpTo(end) = PathTable
            /\ ListedUpTo(end) = {i \in Elements : InTables(i)}
            /\ DeferredUpTo(end) = Deferred /\ GroupsUpTo(end) = Groups
            /\ \A g \in Groups : Count(g, end) = Size(g)
<1> DEFINE end == Len(Document) + 1
<1>1. \A i \in DOMAIN Document : i < end
  BY InDocument
<1>2. \A i \in Elements : i < end /\ Listing(i) < end
  BY <1>1, ListingFacts DEF Elements
<1> HIDE DEF end
<1>3. ModelUpTo(end) = ModelTable /\ PathsUpTo(end) = PathTable
  BY <1>2 DEF ModelUpTo, PathsUpTo, ModelTable, PathTable
<1>4. ListedUpTo(end) = {i \in Elements : InTables(i)}
  BY <1>2 DEF ListedUpTo
<1>5. DeferredUpTo(end) = Deferred
  BY <1>2 DEF DeferredUpTo, Deferred
<1>6. GroupsUpTo(end) = Groups
  BY <1>2 DEF GroupsUpTo, Groups
<1>7. \A g \in Groups : Count(g, end) = Size(g)
  <2> TAKE g \in Groups
  <2>1. EndOf(g) < end
    BY <1>1, EndFacts DEF Groups, Elements
  <2> QED
    BY <2>1 DEF Count
<1> QED
  BY <1>3, <1>4, <1>5, <1>6, <1>7 DEF end

(* Distinct ids and names in the tables mean distinct ones in the documents*)
LEMMA TablesNamed ==
  ASSUME input \in Inputs, DistinctIds(ModelTable), NothingPrivate(ModelTable),
         DistinctNames({i \in Elements : InTables(i)})
  PROVE  WellNamed
<1>1. ASSUME NEW i \in Elements, NEW j \in Elements, i /= j, Space(Kind(i)) = Space(Kind(j))
      PROVE  Kind(i) = "component" <=> Kind(j) = "component"
  BY <1>1 DEF Space, Events, BasicEvents
<1>2. ASSUME NEW i \in Elements, NEW j \in Elements, i /= j, Space(Kind(i)) = Space(Kind(j)),
             Kind(i) /= "component"
      PROVE  Id(i) /= Id(j)
  <2>1. i \in ModelTable /\ j \in ModelTable
    BY <1>1, <1>2 DEF ModelTable
  <2> QED
    BY <1>2, <2>1 DEF DistinctIds
<1>3. ASSUME NEW i \in Elements, NEW j \in Elements, i /= j, Space(Kind(i)) = Space(Kind(j)),
             Parent(i) = Parent(j)
      PROVE  Name(i) /= Name(j)
  <2>1. CASE InTables(i) /\ InTables(j)
    BY <1>3, <2>1 DEF DistinctNames
  <2>2. CASE ~(InTables(i) /\ InTables(j))
    <3>1. Parent(i) = 0 /\ Parent(j) = 0 /\ Kind(i) /= "component" /\ Kind(j) /= "component"
      BY <1>1, <1>3, <2>2 DEF InTables
    <3>2. i \in ModelTable /\ j \in ModelTable /\ i \in DOMAIN Document /\ j \in DOMAIN Document
      BY <3>1 DEF ModelTable, Elements
    <3>3. RoleOf(i) = "public" /\ RoleOf(j) = "public"
      BY <3>1, <3>2, IdFacts DEF NothingPrivate
    <3>4. Id(i) /= Id(j)
      BY <1>2, <1>3, <3>1
    <3> QED
      BY <1>3, <3>2, <3>3, <3>4, SameScope
  <2> QED
    BY <2>1, <2>2
<1>4. ASSUME NEW i \in Elements, RoleOf(i) = "private" PROVE Parent(i) /= 0
  <2>1. CASE Kind(i) = "component"
    BY <1>4, <2>1, InheritedRole DEF Elements
  <2>2. CASE Kind(i) /= "component"
    BY <1>4, <2>2 DEF ModelTable, NothingPrivate
  <2> QED
    BY <2>1, <2>2
<1> QED
  BY <1>2, <1>3, <1>4 DEF WellNamed

LEMMA AllRegistered ==
  ASSUME input \in Inputs, Registering, position > Len(Document)
  PROVE  /\ TablesComplete
         /\ \A g \in Groups : groups[g] = FreshGroup(g, Size(g))
<1>1. position = Len(Document) + 1
  BY InDocument DEF Registering, RegisteredTo
<1>2. /\ model = ModelTable /\ contents = {i \in Elements : InTables(i)}
      /\ DistinctIds(ModelTable) /\ NothingPrivate(ModelTable)
      /\ DistinctNames({i \in Elements : InTables(i)})
      /\ KeepsPaths(paths, PathTable) /\ Enumerates(tbd, Deferred) /\ DOMAIN groups = Groups
  BY <1>1, AtTheEnd DEF Registering, RegisteredTo
<1>3. WellNamed
  BY <1>2, TablesNamed
<1>4. paths = PathTable
  <2>1. ASSUME NEW i \in PathTable PROVE i \in paths
    <3>1. PICK j \in paths : Kind(j) = Kind(i) /\ Path(j) = Path(i)
      BY <1>2 DEF KeepsPaths
    <3>2. i \in Elements /\ j \in Elements /\ Space(Kind(i)) = Space(Kind(j))
      BY <1>2, <3>1 DEF KeepsPaths, PathTable
    <3>3. i = j
      BY <1>3, <3>1, <3>2, ElementsByPath
    <3> QED
      BY <3>3
  <2> QED
    BY <1>2, <2>1 DEF KeepsPaths
<1>5. \A g \in Groups : groups[g] = FreshGroup(g, Size(g))
  BY <1>1, <1>2, AtTheEnd DEF Registering, RegisteredTo
<1> QED
  BY <1>2, <1>3, <1>4, <1>5 DEF TablesComplete

(* They stay as they are.                                                  *)
LEMMA SameTablesComplete ==
  ASSUME input' = input, UNCHANGED registry, DOMAIN groups' = DOMAIN groups, TablesComplete
  PROVE  TablesComplete'
<1>1. /\ Elements' = Elements /\ (WellNamed' <=> WellNamed)
      /\ ModelTable' = ModelTable /\ PathTable' = PathTable
      /\ \A i : Kind(i)' = Kind(i) /\ Parent(i)' = Parent(i)
  BY SameEntries, SameMeaning
<1>2. Deferred' = Deferred /\ Groups' = Groups
  BY <1>1 DEF Deferred, Groups
<1>3. {i \in Elements : InTables(i)}' = {i \in Elements : InTables(i)}
  BY <1>1 DEF InTables
<1>4. Enumerates(tbd, Deferred)'
  BY <1>2 DEF registry, TablesComplete, Enumerates
<1> QED
  BY <1>1, <1>2, <1>3, <1>4 DEF TablesComplete, registry

-----------------------------------------------------------------------------
(* The factors of a CCF group after the first k: each at the place of its  *)
(* level, and no other but missing ones up to the highest place.           *)
Place(g, j) == FactorLevels(g)[j] - LeastLevel(g) + 1

Factor(g, j) == [level |-> FactorLevels(g)[j], value |-> Document[g].factors[j].value]

Placed(g, k, factors) ==
  /\ Len(factors) \in Nat /\ DOMAIN factors = 1..Len(factors)
  /\ \A j \in 1..k : /\ FactorLevels(g)[j] \in LeastLevel(g)..Size(g)
                     /\ Place(g, j) \in 1..Len(factors) /\ factors[Place(g, j)] = Factor(g, j)
  /\ \A i, j \in 1..k : Place(g, i) = Place(g, j) => i = j
  /\ \A x \in 1..Len(factors) : factors[x] = Missing \/ \E j \in 1..k : Place(g, j) = x
  /\ Len(factors) > 0 => \E j \in 1..k : Place(g, j) = Len(factors)

Factored(g, k, group) ==
  /\ DOMAIN group = {"model", "members", "distribution", "factors", "last"}
  /\ group.model = Document[g].model /\ group.members = [j \in 1..Size(g) |-> g + j]
  /\ group.distribution /\ Size(g) >= 2
  /\ group.last = IF k = 0 THEN 0 ELSE FactorLevels(g)[k]
  /\ Placed(g, k, group.factors)

LEMMA LengthOf ==
  ASSUME NEW n \in Nat, NEW f, f = [i \in 1..n |-> f[i]]
  PROVE  Len(f) = n /\ DOMAIN f = 1..n
<1> DEFINE V == {f[i] : i \in 1..n}
<1>1. f \in [1..n -> V]
  OBVIOUS
<1>2. f \in Seq(V)
  BY <1>1
<1> QED
  BY <1>1, <1>2, LenProperties

(* Numbers that the next lemmas are about.                                 *)
LEMMA GroupNumbers ==
  ASSUME input \in Inputs, NEW g \in Groups
  PROVE  /\ g \in DOMAIN Document /\ Kind(g) = "ccf" /\ g \in Nat
         /\ Size(g) \in Nat \ {0} /\ LeastLevel(g) \in Nat \ {0}
         /\ Cardinality(MembersMeant(g)) = Size(g) /\ MembersMeant(g) = (g + 1)..(g + Size(g))
         /\ Len(Document[g].factors) \in Nat \ {0}
         /\ \A k \in 1..Len(Document[g].factors) :
              /\ FactorLevels(g)[k] \in Nat \ {0} /\ Place(g, k) \in Int
              /\ FactorLevels(g)[k] = Place(g, k) + LeastLevel(g) - 1
<1>1. g \in DOMAIN Document /\ Kind(g) = "ccf"
  BY DEF Groups, Elements
<1>2. /\ Size(g) \in Nat \ {0} /\ LeastLevel(g) \in Nat \ {0} /\ g \in Nat
      /\ Cardinality(MembersMeant(g)) = Size(g) /\ EndOf(g) = g + Size(g) + 1
      /\ MembersMeant(g) = (g + 1)..(EndOf(g) - 1)
      /\ Len(Document[g].factors) \in Nat \ {0}
  BY <1>1, MembersOfGroup, FactorFacts
<1>3. MembersMeant(g) = (g + 1)..(g + Size(g))
  BY <1>2
<1>4. ASSUME NEW k \in 1..Len(Document[g].factors)
      PROVE  /\ FactorLevels(g)[k] \in Nat \ {0} /\ Place(g, k) \in Int
             /\ FactorLevels(g)[k] = Place(g, k) + LeastLevel(g) - 1
  <2>1. FactorLevels(g)[k] \in Nat \ {0}
    BY <1>1, LevelFacts
  <2> QED
    <3>1. \A a, b \in Int : a - b + 1 \in Int /\ a = (a - b + 1) + b - 1
      OBVIOUS
    <3>2. FactorLevels(g)[k] \in Int /\ LeastLevel(g) \in Int
      BY <1>2, <2>1
    <3> QED
      BY <2>1, <3>1, <3>2 DEF Place
<1> QED
  BY <1>1, <1>2, <1>3, <1>4

(* The distribution comes first, to two members at least.                  *)
LEMMA DistributionStep ==
  ASSUME input \in Inputs, NEW g \in Groups, NEW group, group = FreshGroup(g, Size(g))
  PROVE  /\ AcceptsDistribution(group) => Factored(g, 0, WithDistribution(group))
         /\ ~AcceptsDistribution(group) => ~Replaceable(g)
<1>1. Size(g) \in Nat /\ Cardinality(MembersMeant(g)) = Size(g)
  BY GroupNumbers
<1>2. /\ DOMAIN group = {"model", "members", "distribution", "factors", "last"}
      /\ group.model = Document[g].model /\ group.members = [j \in 1..Size(g) |-> g + j]
      /\ ~group.distribution /\ group.factors = <<>> /\ group.last = 0
  BY DEF FreshGroup
<1>3. Len(group.members) = Size(g)
  BY <1>1, <1>2, LengthOf
<1>4. ASSUME AcceptsDistribution(group) PROVE Factored(g, 0, WithDistribution(group))
  <2> DEFINE next == WithDistribution(group)
  <2>1. /\ DOMAIN next = DOMAIN group /\ next.model = group.model /\ next.members = group.members
        /\ next.distribution /\ next.factors = group.factors /\ next.last = group.last
    BY <1>2 DEF WithDistribution
  <2>2. Placed(g, 0, <<>>)
    <3>1. Len(<<>>) = 0 /\ DOMAIN <<>> = 1..0
      BY EmptySeq
    <3>2. \A j \in 1..0 : FALSE
      OBVIOUS
    <3> QED
      BY <3>1, <3>2 DEF Placed
  <2> HIDE DEF next
  <2>3. Factored(g, 0, next)
    BY <1>2, <1>3, <1>4, <2>1, <2>2 DEF Factored, AcceptsDistribution
  <2> QED
    BY <2>3 DEF next
<1>5. ASSUME ~AcceptsDistribution(group) PROVE ~Replaceable(g)
  BY <1>1, <1>2, <1>3, <1>5 DEF AcceptsDistribution, Replaceable, WellFactored
<1> QED
  BY <1>4, <1>5

(* The level and the place of the next factor.                             *)
LEMMA NextLevel ==
  ASSUME input \in Inputs, NEW g \in Groups, NEW k \in 0..(Len(Document[g].factors) - 1),
         NEW group, Factored(g, k, group)
  PROVE  /\ Len(group.members) = Size(g) /\ MinLevel(group) = LeastLevel(g)
         /\ LevelOf(group, Document[g].factors[k + 1].level) = FactorLevels(g)[k + 1]
         /\ Index(group, Document[g].factors[k + 1].level) = Place(g, k + 1)
<1>1. /\ g \in DOMAIN Document /\ Kind(g) = "ccf" /\ Size(g) \in Nat
      /\ Len(Document[g].factors) \in Nat \ {0}
  BY GroupNumbers
<1>2. group.members = [j \in 1..Size(g) |-> g + j] /\ group.model = Document[g].model
  BY DEF Factored
<1>3. Len(group.members) = Size(g)
  BY <1>1, <1>2, LengthOf
<1>4. MinLevel(group) = LeastLevel(g)
  <2>1. Cardinality(MembersMeant(g)) = Size(g)
    BY GroupNumbers
  <2> QED
    BY <1>2, <1>3, <2>1 DEF MinLevel, LeastLevel
<1>5. LevelOf(group, Document[g].factors[k + 1].level) = FactorLevels(g)[k + 1]
  <2>1. k + 1 \in 1..Len(Document[g].factors) /\ k + 1 - 1 = k /\ (k + 1 = 1 <=> k = 0)
    BY <1>1
  <2>2. FactorLevels(g)[k + 1] =
          IF Document[g].factors[k + 1].level > 0 THEN Document[g].factors[k + 1].level
          ELSE IF k = 0 THEN LeastLevel(g) ELSE FactorLevels(g)[k] + 1
    BY <1>1, <2>1, LevelFacts
  <2>3. k /= 0 => FactorLevels(g)[k] \in Nat \ {0}
    <3>1. k /= 0 => k \in 1..Len(Document[g].factors)
      BY <1>1
    <3> QED
      BY <1>1, <3>1, LevelFacts
  <2>4. group.last = IF k = 0 THEN 0 ELSE FactorLevels(g)[k]
    BY DEF Factored
  <2>5. group.last > 0 <=> k /= 0
    BY <2>3, <2>4
  <2> QED
    BY <1>4, <2>2, <2>4, <2>5 DEF LevelOf
<1> QED
  BY <1>3, <1>4, <1>5 DEF Index, Place

(* In a well-factored group, the levels are all those from the least to the*)
(* highest, each given once.                                               *)
LEMMA WellFactoredLevels ==
  ASSUME input \in Inputs, NEW g \in Groups, WellFactored(g)
  PROVE  /\ \A j \in 1..Len(Document[g].factors) : FactorLevels(g)[j] \in LeastLevel(g)..Size(g)
         /\ \A i, j \in 1..Len(Document[g].factors) : FactorLevels(g)[i] = FactorLevels(g)[j] => i = j
<1> DEFINE n == Len(Document[g].factors)
           low == LeastLevel(g)
           high == HighestLevel(g)
           levels == FactorLevels(g)
<1>1. /\ n \in Nat \ {0} /\ low \in Nat \ {0} /\ Size(g) \in Nat
      /\ DOMAIN levels = 1..n /\ DOMAIN Document[g].factors = 1..n
  BY GroupNumbers, LevelFacts, FactorFacts
<1>2. /\ high \in 1..Size(g) /\ {levels[k] : k \in 1..n} = low..high
      /\ n = high - low + 1
  BY <1>1, GroupNumbers DEF WellFactored
<1> DEFINE given == [k \in 1..n |-> levels[k]]
<1>3. given \in Surjection(1..n, low..high)
  <2>1. \A k \in 1..n : given[k] \in low..high
    BY <1>2
  <2>2. \A l \in low..high : \E k \in 1..n : given[k] = l
    BY <1>2
  <2> QED
    BY <2>1, <2>2 DEF Surjection
<1> HIDE DEF n, low, high, levels
<1>4. IsFiniteSet(1..n) /\ Cardinality(1..n) = n /\ Cardinality(low..high) = n
  <2>1. 1 \in Int /\ n \in Int /\ low \in Int /\ high \in Int /\ low <= high
    BY <1>1, <1>2
  <2>2. IsFiniteSet(1..n) /\ Cardinality(1..n) = IF 1 <= n THEN n - 1 + 1 ELSE 0
    BY <2>1, FS_Interval
  <2>3. Cardinality(low..high) = high - low + 1
    BY <2>1, FS_Interval
  <2>4. Cardinality(1..n) = n
    BY <1>1, <2>2
  <2> QED
    BY <1>2, <2>2, <2>3, <2>4
<1> HIDE DEF given
<1>5. given \in Injection(1..n, low..high)
  BY <1>3, <1>4, FS_Surjection
<1>6. \A i, j \in 1..n : given[i] = given[j] => i = j
  BY <1>5 DEF Injection, IsInjective
<1>7. \A i, j \in 1..n : levels[i] = levels[j] => i = j
  BY <1>6 DEF given
<1>8. \A j \in 1..n : levels[j] \in low..Size(g)
  <2>1. \A l \in low..high : l \in low..Size(g)
    BY <1>1, <1>2
  <2> QED
    BY <1>2, <2>1
<1> QED
  BY <1>7, <1>8 DEF n, low, levels

(* AddFactor (ccf_group.cc): what it refuses is a level out of bounds or   *)
(* given before.                                                           *)
LEMMA FactorStep ==
  ASSUME input \in Inputs, NEW g \in Groups, NEW k \in 0..(Len(Document[g].factors) - 1),
         NEW group, Factored(g, k, group)
  PROVE  /\ AcceptsFactor(group, Document[g].factors[k + 1]) =>
              Factored(g, k + 1, WithFactor(group, Document[g].factors[k + 1]))
         /\ ~AcceptsFactor(group, Document[g].factors[k + 1]) => ~Replaceable(g)
<1> DEFINE n == Len(Document[g].factors)
           factor == Document[g].factors[k + 1]
           low == LeastLevel(g)
           level == FactorLevels(g)[k + 1]
           index == Place(g, k + 1)
           old == group.factors
<1>1. /\ n \in Nat \ {0} /\ k + 1 \in 1..n /\ k \in Nat /\ Size(g) \in Nat /\ low \in Nat \ {0}
      /\ level \in Nat \ {0} /\ index \in Int /\ level = index + low - 1
      /\ \A j \in 1..k : j \in 1..n /\ j /= k + 1 /\ j \in 1..(k + 1)
      /\ \A j \in 1..(k + 1) : j = k + 1 \/ j \in 1..k
      /\ \A j \in 1..k : Place(g, j) \in Int /\ FactorLevels(g)[j] \in Nat \ {0}
      /\ \A j \in 1..k : FactorLevels(g)[j] = Place(g, j) + low - 1
  <2>1. n \in Nat \ {0} /\ Size(g) \in Nat /\ low \in Nat \ {0}
    BY GroupNumbers
  <2>2. /\ k + 1 \in 1..n /\ k \in Nat
        /\ \A j \in 1..k : j \in 1..n /\ j /= k + 1 /\ j \in 1..(k + 1)
        /\ \A j \in 1..(k + 1) : j = k + 1 \/ j \in 1..k
    BY <2>1
  <2> QED
    BY <2>1, <2>2, GroupNumbers
<1>2. /\ LevelOf(group, factor.level) = level /\ Index(group, factor.level) = index
      /\ MinLevel(group) = low /\ Len(group.members) = Size(g)
  BY NextLevel
<1>3. /\ DOMAIN group = {"model", "members", "distribution", "factors", "last"}
      /\ Placed(g, k, old)
  BY DEF Factored
<1>4. /\ Len(old) \in Nat /\ DOMAIN old = 1..Len(old)
      /\ \A j \in 1..k : Place(g, j) \in 1..Len(old) /\ old[Place(g, j)] = Factor(g, j)
      /\ \A i, j \in 1..k : Place(g, i) = Place(g, j) => i = j
      /\ \A x \in 1..Len(old) : old[x] = Missing \/ \E j \in 1..k : Place(g, j) = x
      /\ Len(old) > 0 => \E j \in 1..k : Place(g, j) = Len(old)
  BY <1>3 DEF Placed
<1> HIDE DEF n, factor, low, level, index, old
<1>5. AcceptsFactor(group, factor) <=>
        level \in low..Size(g) /\ (index \in DOMAIN old => old[index] = Missing)
  BY <1>2 DEF AcceptsFactor, old
<1>6. \A j \in 1..k : Factor(g, j) /= Missing
  <2> TAKE j \in 1..k
  <2>1. Factor(g, j).level /= 0 /\ Missing.level = 0
    BY <1>1 DEF Factor, Missing
  <2> QED
    BY <2>1
<1>7. ASSUME ~AcceptsFactor(group, factor) PROVE ~Replaceable(g)
  <2> SUFFICES ASSUME Replaceable(g) PROVE FALSE
    OBVIOUS
  <2>1. /\ \A j \in 1..n : FactorLevels(g)[j] \in low..Size(g)
        /\ \A i, j \in 1..n : FactorLevels(g)[i] = FactorLevels(g)[j] => i = j
    BY WellFactoredLevels DEF n, low, Replaceable
  <2>2. level \in low..Size(g)
    BY <1>1, <2>1 DEF level
  <2>3. index \in DOMAIN old /\ old[index] /= Missing
    BY <1>5, <1>7, <2>2
  <2>4. PICK j \in 1..k : Place(g, j) = index
    BY <1>4, <2>3
  <2>5. FactorLevels(g)[j] = level
    BY <1>1, <2>4
  <2> QED
    BY <1>1, <2>1, <2>5 DEF level
<1>8. ASSUME AcceptsFactor(group, factor) PROVE Factored(g, k + 1, WithFactor(group, factor))
  <2> DEFINE count == IF index > Len(old) THEN index ELSE Len(old)
             new == [i \in 1..count |->
                       IF i = index THEN [level |-> level, value |-> factor.value]
                       ELSE IF i \in DOMAIN old THEN old[i] ELSE Missing]
             next == WithFactor(group, factor)
  <2>1. next = [group EXCEPT !.factors = new, !.last = level]
    BY <1>2 DEF WithFactor, old
  <2>2. level \in low..Size(g) /\ index \in Nat \ {0} /\ count \in Nat \ {0} /\ index \in 1..count
    <3>1. level \in low..Size(g)
      BY <1>5, <1>8
    <3> QED
      BY <1>1, <1>4, <3>1
  <2>3. Len(new) = count /\ DOMAIN new = 1..count
    BY <2>2, LengthOf
  <2>4. \A x \in 1..Len(old) : x \in 1..count
    BY <1>4, <2>2
  <2>5. \A j \in 1..k : Place(g, j) /= index
    <3> SUFFICES ASSUME NEW j \in 1..k, Place(g, j) = index PROVE FALSE
      OBVIOUS
    <3>1. index \in DOMAIN old /\ old[index] = Factor(g, j)
      BY <1>4
    <3> QED
      BY <1>5, <1>6, <1>8, <3>1
  <2>6. new[index] = Factor(g, k + 1)
    BY <2>2 DEF Factor, level, factor
  <2>7. \A x \in 1..count : x /= index => new[x] = IF x \in DOMAIN old THEN old[x] ELSE Missing
    OBVIOUS
  <2>8. count = index \/ count = Len(old)
    OBVIOUS
  <2> HIDE DEF count, new
  <2>9. Placed(g, k + 1, new)
    <3>1. ASSUME NEW j \in 1..(k + 1)
          PROVE  /\ FactorLevels(g)[j] \in low..Size(g)
                 /\ Place(g, j) \in 1..count /\ new[Place(g, j)] = Factor(g, j)
      <4>1. CASE j = k + 1
        BY <2>2, <2>6, <4>1 DEF level, index
      <4>2. CASE j \in 1..k
        <5>1. FactorLevels(g)[j] \in low..Size(g)
          BY <1>3, <4>2 DEF Placed, low
        <5>2. Place(g, j) \in 1..Len(old) /\ Place(g, j) /= index /\ old[Place(g, j)] = Factor(g, j)
          BY <1>4, <2>5, <4>2
        <5> QED
          BY <1>4, <2>4, <2>7, <5>1, <5>2
      <4> QED
        BY <1>1, <4>1, <4>2
    <3>2. ASSUME NEW i \in 1..(k + 1), NEW j \in 1..(k + 1), Place(g, i) = Place(g, j) PROVE i = j
      BY <1>1, <1>4, <2>5, <3>2 DEF index
    <3>3. ASSUME NEW x \in 1..count PROVE new[x] = Missing \/ \E j \in 1..(k + 1) : Place(g, j) = x
      <4>1. CASE x = index
        BY <1>1, <4>1 DEF index
      <4>2. CASE x /= index /\ x \in DOMAIN old
        BY <1>1, <1>4, <2>7, <4>2
      <4>3. CASE x /= index /\ x \notin DOMAIN old
        BY <2>7, <4>3
      <4> QED
        BY <4>1, <4>2, <4>3
    <3>4. count > 0 => \E j \in 1..(k + 1) : Place(g, j) = count
      <4>1. CASE count = index
        BY <1>1, <4>1 DEF index
      <4>2. CASE count = Len(old)
        BY <1>1, <1>4, <4>2
      <4> QED
        BY <2>8, <4>1, <4>2
    <3> QED
      BY <2>2, <2>3, <3>1, <3>2, <3>3, <3>4 DEF Placed, low
  <2>10. /\ DOMAIN next = DOMAIN group
         /\ next.model = group.model /\ next.members = group.members
         /\ next.distribution = group.distribution
         /\ next.factors = new /\ next.last = level
    BY <1>3, <2>1
  <2> HIDE DEF next
  <2>11. Factored(g, k + 1, next)
    <3>1. k + 1 /= 0
      BY <1>1
    <3> QED
      BY <2>9, <2>10, <3>1 DEF Factored, level
  <2> QED
    BY <2>11 DEF next
<1> QED
  BY <1>7, <1>8 DEF factor

(* The group with all of its factors: its highest level.                   *)
LEMMA HighestFacts ==
  ASSUME input \in Inputs, NEW g \in Groups, NEW group,
         Factored(g, Len(Document[g].factors), group)
  PROVE  /\ Len(group.factors) \in Nat \ {0} /\ DOMAIN group.factors = 1..Len(group.factors)
         /\ HighestLevel(g) = Len(group.factors) + LeastLevel(g) - 1
         /\ HighestLevel(g) \in Nat \ {0} /\ HighestLevel(g) <= Size(g)
         /\ group.factors[Len(group.factors)].level = HighestLevel(g)
<1> DEFINE n == Len(Document[g].factors)
           low == LeastLevel(g)
           F == group.factors
           c == Len(F)
           levels == {FactorLevels(g)[k] : k \in DOMAIN FactorLevels(g)}
<1>1. /\ n \in Nat \ {0} /\ low \in Nat \ {0} /\ DOMAIN FactorLevels(g) = 1..n /\ Size(g) \in Nat
      /\ \A k \in 1..n : /\ FactorLevels(g)[k] \in Nat \ {0} /\ Place(g, k) \in Int
                         /\ FactorLevels(g)[k] = Place(g, k) + low - 1
  BY GroupNumbers, LevelFacts
<1>2. /\ c \in Nat /\ DOMAIN F = 1..c
      /\ \A j \in 1..n : /\ FactorLevels(g)[j] \in low..Size(g)
                         /\ Place(g, j) \in 1..c /\ F[Place(g, j)] = Factor(g, j)
      /\ c > 0 => \E j \in 1..n : Place(g, j) = c
  BY DEF Factored, Placed
<1> HIDE DEF n, low, F, c
<1>3. c \in Nat \ {0}
  <2>1. 1 \in 1..n
    BY <1>1
  <2>2. Place(g, 1) \in 1..c
    BY <1>2, <2>1
  <2> QED
    BY <1>2, <2>2
<1>4. PICK j \in 1..n : Place(g, j) = c
  BY <1>2, <1>3
<1>5. /\ c + low - 1 \in levels
      /\ \A l \in levels : l \in Nat /\ l <= c + low - 1
  <2>1. FactorLevels(g)[j] = c + low - 1
    BY <1>1, <1>4
  <2>2. \A k \in 1..n : FactorLevels(g)[k] <= c + low - 1
    BY <1>1, <1>2, <1>3
  <2> QED
    BY <1>1, <2>1, <2>2
<1>6. HighestLevel(g) = c + low - 1
  <2> DEFINE max == c + low - 1
  <2>1. max \in Nat
    BY <1>1, <1>3
  <2>2. max \in levels /\ \A y \in levels : y \in Nat /\ max >= y
    BY <1>5, <2>1
  <2> HIDE DEF max, levels
  <2>3. \A x \in levels : (\A y \in levels : x >= y) => x = max
    BY <2>1, <2>2
  <2>4. Max(levels) = max
    BY <2>2, <2>3 DEF Max
  <2> QED
    BY <2>4 DEF HighestLevel, levels, max
<1>7. HighestLevel(g) <= Size(g) /\ HighestLevel(g) \in Nat \ {0}
  <2>1. FactorLevels(g)[j] = c + low - 1 /\ FactorLevels(g)[j] \in low..Size(g)
    BY <1>1, <1>2, <1>4
  <2> QED
    BY <1>1, <1>3, <1>6, <2>1
<1>8. F[c].level = HighestLevel(g)
  <2>1. F[c] = Factor(g, j)
    BY <1>2, <1>4
  <2>2. Factor(g, j).level = FactorLevels(g)[j]
    BY DEF Factor
  <2> QED
    BY <1>1, <1>4, <1>6, <2>1, <2>2
<1> QED
  BY <1>2, <1>3, <1>6, <1>7, <1>8 DEF F, c, low

(* CcfGroup::Validate accepts the factors that the documents should have,  *)
(* but for the level at which members fail together.                       *)
LEMMA ValidGroup ==
  ASSUME input \in Inputs, NEW g \in Groups, NEW group,
         Factored(g, Len(Document[g].factors), group)
  PROVE  Replaceable(g) <=> IsValidGroup(group) /\ HighestLevel(g) >= 2
<1> DEFINE n == Len(Document[g].factors)
           low == LeastLevel(g)
           high == HighestLevel(g)
           F == group.factors
           c == Len(F)
           levels == FactorLevels(g)
           value(k) == Document[g].factors[k].value
           full == \A x \in 1..c : F[x] /= Missing
<1>1. /\ n \in Nat \ {0} /\ low \in Nat \ {0} /\ DOMAIN levels = 1..n /\ Size(g) \in Nat
      /\ Cardinality(MembersMeant(g)) = Size(g) /\ DOMAIN Document[g].factors = 1..n
      /\ \A k \in 1..n : /\ levels[k] \in Nat \ {0} /\ Place(g, k) \in Int
                         /\ levels[k] = Place(g, k) + low - 1
  BY GroupNumbers, LevelFacts, FactorFacts
<1>2. /\ c \in Nat \ {0} /\ DOMAIN F = 1..c /\ high = c + low - 1 /\ high \in Nat \ {0} /\ high <= Size(g)
  BY HighestFacts
<1>3. /\ \A j \in 1..n : /\ levels[j] \in low..Size(g)
                         /\ Place(g, j) \in 1..c /\ F[Place(g, j)] = Factor(g, j)
      /\ \A i, j \in 1..n : Place(g, i) = Place(g, j) => i = j
      /\ \A x \in 1..c : F[x] = Missing \/ \E j \in 1..n : Place(g, j) = x
      /\ Size(g) >= 2 /\ group.distribution /\ group.model = Document[g].model
      /\ group.members = [j \in 1..Size(g) |-> g + j]
  BY DEF Factored, Placed
<1>4. \A j \in 1..n : Factor(g, j) /= Missing /\ Factor(g, j).value = value(j)
  <2> TAKE j \in 1..n
  <2>1. Factor(g, j).level /= 0 /\ Missing.level = 0
    BY <1>1 DEF Factor, Missing
  <2>2. Factor(g, j).value = value(j)
    BY DEF Factor
  <2> QED
    BY <2>1, <2>2
<1>5. group.members /= <<>> /\ F /= <<>>
  <2>1. Len(group.members) = Size(g)
    BY <1>1, <1>3, LengthOf
  <2>2. Len(<<>>) = 0
    BY EmptySeq
  <2> QED
    BY <1>2, <1>3, <2>1, <2>2
<1> HIDE DEF n, low, high, F, c, levels
<1>6. full <=> \A x \in 1..c : \E j \in 1..n : Place(g, j) = x
  BY <1>3, <1>4
<1>7. full <=> {levels[k] : k \in 1..n} = low..high
  <2>1. ASSUME full PROVE {levels[k] : k \in 1..n} = low..high
    <3>1. ASSUME NEW k \in 1..n PROVE levels[k] \in low..high
      <4>1. /\ levels[k] \in Nat \ {0} /\ levels[k] = Place(g, k) + low - 1
            /\ Place(g, k) \in 1..c
        BY <1>1, <1>3
      <4> QED
        BY <1>1, <1>2, <4>1
    <3>2. ASSUME NEW l \in low..high PROVE \E k \in 1..n : levels[k] = l
      <4>1. l - low + 1 \in 1..c
        BY <1>1, <1>2
      <4>2. PICK j \in 1..n : Place(g, j) = l - low + 1
        BY <1>6, <2>1, <4>1
      <4> QED
        BY <1>1, <4>2
    <3> QED
      BY <3>1, <3>2
  <2>2. ASSUME {levels[k] : k \in 1..n} = low..high PROVE full
    <3>1. ASSUME NEW x \in 1..c PROVE \E j \in 1..n : Place(g, j) = x
      <4>1. x + low - 1 \in low..high
        BY <1>1, <1>2
      <4>2. PICK j \in 1..n : levels[j] = x + low - 1
        BY <2>2, <4>1
      <4>3. Place(g, j) + low - 1 = x + low - 1 /\ Place(g, j) \in Int
        BY <1>1, <4>2
      <4> QED
        BY <1>1, <4>3
    <3> QED
      BY <1>6, <3>1
  <2> QED
    BY <2>1, <2>2
<1>8. full => n = high - low + 1
  <2> SUFFICES ASSUME full PROVE n = c
    BY <1>1, <1>2
  <2> DEFINE place == [k \in 1..n |-> Place(g, k)]
  <2>1. place \in Surjection(1..n, 1..c)
    BY <1>3, <1>6 DEF Surjection
  <2>2. place \in Injection(1..n, 1..c)
    BY <1>3 DEF Injection, IsInjective
  <2>3. 1 \in Int /\ n \in Int /\ c \in Int
    BY <1>1, <1>2
  <2>4. /\ IsFiniteSet(1..n) /\ Cardinality(1..n) = IF 1 <= n THEN n - 1 + 1 ELSE 0
        /\ IsFiniteSet(1..c) /\ Cardinality(1..c) = IF 1 <= c THEN c - 1 + 1 ELSE 0
    BY <2>3, FS_Interval
  <2> HIDE DEF place
  <2>5. Cardinality(1..c) = Cardinality(1..n)
    BY <2>1, <2>2, <2>4, FS_Surjection
  <2>6. Cardinality(1..n) = n /\ Cardinality(1..c) = c
    BY <1>1, <1>2, <2>4
  <2> QED
    BY <2>5, <2>6
<1>9. full => ((\A x \in 1..c : F[x].value[1] <= F[x].value[2]) <=>
                 \A k \in 1..n : value(k)[1] <= value(k)[2])
  <2> SUFFICES ASSUME full
               PROVE  (\A x \in 1..c : F[x].value[1] <= F[x].value[2]) <=>
                        \A k \in 1..n : value(k)[1] <= value(k)[2]
    OBVIOUS
  <2>1. \A k \in 1..n : Place(g, k) \in 1..c /\ F[Place(g, k)].value = value(k)
    BY <1>3, <1>4
  <2>2. \A x \in 1..c : \E k \in 1..n : Place(g, k) = x
    BY <1>6
  <2> HIDE DEF value
  <2> QED
    BY <2>1, <2>2
<1>10. full /\ Document[g].model = "phi-factor" =>
         [x \in DOMAIN F |-> F[x].value] = [level \in 1..high |-> ValueAt(g, level)]
  <2> SUFFICES ASSUME full, Document[g].model = "phi-factor"
               PROVE  [x \in DOMAIN F |-> F[x].value] = [level \in 1..high |-> ValueAt(g, level)]
    OBVIOUS
  <2>1. low = 1
    BY <1>1, GroupNumbers, FactorFacts DEF low
  <2>2. high = c
    BY <1>2, <2>1
  <2>3. ASSUME NEW x \in 1..c PROVE F[x].value = ValueAt(g, x)
    <3>1. PICK j \in 1..n : Place(g, j) = x
      BY <1>6
    <3>2. levels[j] = x
      BY <1>1, <2>1, <3>1
    <3>3. \A k \in 1..n : levels[k] = x => k = j
      <4> SUFFICES ASSUME NEW k \in 1..n, levels[k] = x PROVE k = j
        OBVIOUS
      <4>1. Place(g, k) = x
        BY <1>1, <2>1
      <4> QED
        BY <1>3, <3>1, <4>1
    <3>4. (CHOOSE k \in 1..n : levels[k] = x) = j
      BY <3>2, <3>3
    <3>5. ValueAt(g, x) = value(j)
      BY <1>1, <3>4 DEF ValueAt, levels
    <3>6. F[x].value = value(j)
      BY <1>3, <1>4, <3>1
    <3> QED
      BY <3>5, <3>6
  <2> QED
    BY <1>2, <2>2, <2>3
<1> DEFINE total == TotalOf([x \in DOMAIN F |-> F[x].value])
           whole == TotalOf([level \in 1..high |-> ValueAt(g, level)])
<1>11. full /\ Document[g].model = "phi-factor" => total = whole
  BY <1>10
<1>12. IsValidGroup(group) <=>
         /\ full /\ \A x \in 1..c : F[x].value[1] <= F[x].value[2]
         /\ Document[g].model = "phi-factor" => total[1] = total[2]
  BY <1>2, <1>3, <1>5 DEF IsValidGroup, F
<1>13. WellFactored(g) <=>
         /\ high \in 1..Size(g)
         /\ {levels[k] : k \in 1..n} = low..high /\ n = high - low + 1
         /\ \A k \in 1..n : value(k)[1] <= value(k)[2]
         /\ Document[g].model = "phi-factor" => whole[1] = whole[2]
  BY <1>1, <1>3 DEF WellFactored, n, low, high, levels
<1>14. high \in 1..Size(g)
  BY <1>1, <1>2
<1> HIDE DEF full, total, whole, value
<1> QED
  BY <1>7, <1>8, <1>9, <1>11, <1>12, <1>13, <1>14 DEF high, Replaceable

(* The numbers of members that fail together in a model.                   *)
LevelsTaken(g) ==
  IF Document[g].model = "beta-factor" THEN {1, HighestLevel(g)} ELSE 1..HighestLevel(g)

LEMMA LevelsOfEvents ==
  ASSUME input \in Inputs, NEW g \in Groups, NEW group,
         Factored(g, Len(Document[g].factors), group)
  PROVE  /\ DOMAIN Probabilities(group) = LevelsTaken(g)
         /\ {1, HighestLevel(g)} \subseteq LevelsTaken(g)
         /\ HighestLevel(g) = 1 => LevelsTaken(g) = {1}
<1> DEFINE F == group.factors
           c == Len(F)
           high == HighestLevel(g)
           factor == [i \in DOMAIN F |-> F[i].value]
<1>1. /\ c \in Nat \ {0} /\ DOMAIN F = 1..c /\ high \in Nat \ {0} /\ high = c + LeastLevel(g) - 1
      /\ F[c].level = high
  BY HighestFacts
<1> HIDE DEF c, high
<1>2. Len(factor) = c
  BY <1>1, LengthOf
<1>3. F[Len(factor)].level = high
  BY <1>1, <1>2
<1>4. /\ group.model = Document[g].model
      /\ Document[g].model \in {"beta-factor", "MGL", "alpha-factor", "phi-factor"}
  BY FactorFacts DEF Groups, Elements, Factored
<1>5. CASE group.model = "beta-factor"
  <2>1. DOMAIN Probabilities(group) = {1, high}
    BY <1>3, <1>5 DEF Probabilities
  <2> QED
    BY <1>4, <1>5, <2>1 DEF LevelsTaken, high
<1>6. CASE group.model \in {"MGL", "alpha-factor", "phi-factor"}
  <2>1. DOMAIN Probabilities(group) = 1..high
    <3>1. CASE group.model = "MGL"
      BY <1>3, <3>1 DEF Probabilities
    <3>2. CASE group.model = "alpha-factor"
      BY <1>3, <3>2 DEF Probabilities
    <3>3. CASE group.model = "phi-factor"
      BY <1>3, <3>3 DEF Probabilities
    <3> QED
      BY <1>6, <3>1, <3>2, <3>3
  <2>2. 1 \in 1..high /\ high \in 1..high /\ 1..1 = {1}
    BY <1>1
  <2> QED
    BY <1>4, <1>6, <2>1, <2>2 DEF LevelsTaken, high
<1> QED
  BY <1>4, <1>5, <1>6

(* A set of members of any number with a given one in it.                  *)
HasSubsets(M, n) == \A m \in M, k \in 1..n : \E S \in SUBSET M : m \in S /\ Cardinality(S) = k

LEMMA SetWithMember ==
  ASSUME NEW g \in Nat, NEW n \in Nat, NEW M, M = (g + 1)..(g + n)
  PROVE  HasSubsets(M, n) /\ IsFiniteSet(M)
<1> SUFFICES ASSUME NEW m \in M, NEW k \in 1..n
             PROVE  \E S \in SUBSET M : m \in S /\ Cardinality(S) = k
  <2>1. g + 1 \in Int /\ g + n \in Int
    OBVIOUS
  <2>2. IsFiniteSet(M)
    BY <2>1, FS_Interval
  <2> QED
    BY <2>2 DEF HasSubsets
<1>1. CASE m <= g + k
  <2> DEFINE S == (g + 1)..(g + k)
  <2>1. g + 1 \in Int /\ g + k \in Int /\ g + 1 <= g + k
    OBVIOUS
  <2>2. Cardinality(S) = g + k - (g + 1) + 1
    BY <2>1, FS_Interval
  <2>3. m \in S /\ S \subseteq M /\ Cardinality(S) = k
    BY <1>1, <2>2
  <2> QED
    BY <2>3
<1>2. CASE m > g + k
  <2> DEFINE S == (m - k + 1)..m
  <2>1. m - k + 1 \in Int /\ m \in Int /\ m - k + 1 <= m
    OBVIOUS
  <2>2. Cardinality(S) = m - (m - k + 1) + 1
    BY <2>1, FS_Interval
  <2>3. m \in S /\ S \subseteq M /\ Cardinality(S) = k
    BY <1>2, <2>2
  <2> QED
    BY <2>3
<1> QED
  BY <1>1, <1>2

(* The events of a group are the combinations of its members that the model*)
(* has a level for.                                                        *)
LEMMA CombinationsOfGroup ==
  ASSUME input \in Inputs, NEW g \in Groups, NEW group,
         Factored(g, Len(Document[g].factors), group)
  PROVE  /\ {group.members[i] : i \in DOMAIN group.members} = MembersMeant(g)
         /\ \A e \in CcfEvents(group) : e.members \subseteq MembersMeant(g)
         /\ \A m \in MembersMeant(g) :
              {e.members : e \in Proxied(CcfEvents(group), m)} =
                {S \in SUBSET MembersMeant(g) : m \in S /\ Cardinality(S) \in LevelsTaken(g)}
<1> DEFINE n == Size(g)
           M == MembersMeant(g)
           all == {group.members[i] : i \in DOMAIN group.members}
           levels == LevelsTaken(g)
           Event(S, k) == [members |-> S, probability |-> Probabilities(group)[k]]
           events == CcfEvents(group)
<1>1. /\ g \in Nat /\ n \in Nat /\ M = (g + 1)..(g + n)
      /\ group.members = [j \in 1..n |-> g + j]
  BY GroupNumbers DEF Factored
<1>2. all = M
  <2>1. all = {g + j : j \in 1..n}
    BY <1>1
  <2>2. \A j \in M : j - g \in 1..n /\ g + (j - g) = j
    BY <1>1
  <2>3. \A k \in 1..n : g + k \in M
    BY <1>1
  <2> QED
    BY <2>1, <2>2, <2>3
<1>3. events = UNION {{Event(S, k) : S \in kSubset(k, M)} : k \in levels}
  <2>1. events = UNION {{Event(S, k) : S \in kSubset(k, all)} : k \in DOMAIN Probabilities(group)}
    BY DEF CcfEvents
  <2>2. DOMAIN Probabilities(group) = levels
    BY LevelsOfEvents
  <2> HIDE DEF all, M, events, levels, Event
  <2> QED
    BY <1>2, <2>1, <2>2
<1> HIDE DEF n, M, all, levels, Event, events
<1>4. \A S, k : Event(S, k).members = S
  BY DEF Event
<1>5. \A k : kSubset(k, M) = {S \in SUBSET M : Cardinality(S) = k}
  BY DEF kSubset
<1>6. \A e \in events : \E k \in levels, S \in SUBSET M : Cardinality(S) = k /\ e = Event(S, k)
  BY <1>3, <1>5
<1>7. \A k \in levels, S \in SUBSET M : Cardinality(S) = k => Event(S, k) \in events
  BY <1>3, <1>5
<1>8. ASSUME NEW m \in M
      PROVE  {e.members : e \in Proxied(events, m)} = {S \in SUBSET M : m \in S /\ Cardinality(S) \in levels}
  <2>1. ASSUME NEW e \in Proxied(events, m) PROVE e.members \in {S \in SUBSET M : m \in S /\ Cardinality(S) \in levels}
    BY <1>4, <1>6, <2>1 DEF Proxied
  <2>2. ASSUME NEW S \in SUBSET M, m \in S, Cardinality(S) \in levels
        PROVE  \E e \in Proxied(events, m) : e.members = S
    <3>1. Event(S, Cardinality(S)) \in events /\ Event(S, Cardinality(S)).members = S
      BY <1>4, <1>7, <2>2
    <3> QED
      BY <2>2, <3>1 DEF Proxied
  <2> QED
    BY <2>1, <2>2
<1>9. \A e \in events : e.members \subseteq M
  BY <1>4, <1>6
<1> QED
  BY <1>2, <1>8, <1>9 DEF all, M, levels, events

(* A member has more than one of them, unless all of the group's levels are*)
(* the first: then the OR gate of its proxy would lack an argument.        *)
LEMMA ProxyGates ==
  ASSUME input \in Inputs, NEW g \in Groups, NEW group,
         Factored(g, Len(Document[g].factors), group)
  PROVE  (\E m \in MembersMeant(g) : \A e, f \in Proxied(CcfEvents(group), m) : e = f) <=>
           HighestLevel(g) = 1
<1> DEFINE n == Size(g)
           high == HighestLevel(g)
           M == MembersMeant(g)
           levels == LevelsTaken(g)
           events == CcfEvents(group)
           Combined(m) == {e.members : e \in Proxied(events, m)}
           Event(S, k) == [members |-> S, probability |-> Probabilities(group)[k]]
           all == {group.members[i] : i \in DOMAIN group.members}
<1>1. /\ g \in Nat /\ n \in Nat /\ n >= 2 /\ M = (g + 1)..(g + n)
      /\ high \in Nat \ {0} /\ high <= n
  BY GroupNumbers, HighestFacts DEF Factored
<1>2. HasSubsets(M, n) /\ IsFiniteSet(M)
  <2> HIDE DEF M
  <2> QED
    BY <1>1, SetWithMember
<1>3. /\ 1 \in levels /\ high \in levels
      /\ high = 1 => levels = {1}
  BY LevelsOfEvents
<1>4. \A m \in M : Combined(m) = {S \in SUBSET M : m \in S /\ Cardinality(S) \in levels}
  BY CombinationsOfGroup
<1>5. events = UNION {{Event(S, k) : S \in kSubset(k, all)} : k \in levels}
  BY LevelsOfEvents DEF CcfEvents
<1> HIDE DEF high, n, levels, events, M, all, Event
<1>6. \A S, k : Event(S, k).members = S
  BY DEF Event
<1>7. ASSUME high = 1 PROVE \E m \in M : \A e, f \in Proxied(events, m) : e = f
  <2>1. g + 1 \in M
    BY <1>1
  <2>2. \A e \in events : e = Event(e.members, 1)
    BY <1>3, <1>5, <1>7, <1>6
  <2>3. \A e \in Proxied(events, g + 1) : e.members = {g + 1}
    <3> TAKE e \in Proxied(events, g + 1)
    <3>1. e.members \in SUBSET M /\ g + 1 \in e.members /\ Cardinality(e.members) = 1
      BY <1>3, <1>4, <1>7, <2>1
    <3>2. IsFiniteSet(e.members)
      BY <1>2, <3>1, FS_Subset
    <3>3. \E x : e.members = {x}
      BY <3>1, <3>2, FS_Singleton
    <3> QED
      BY <3>1, <3>3
  <2>4. \A e \in Proxied(events, g + 1) : e \in events
    BY DEF Proxied
  <2> QED
    BY <2>1, <2>2, <2>3, <2>4
<1>8. ASSUME high /= 1, NEW m \in M PROVE \E e, f \in Proxied(events, m) : e /= f
  <2>1. 1 \in 1..n /\ high \in 1..n
    BY <1>1
  <2>2. PICK S \in SUBSET M : m \in S /\ Cardinality(S) = 1
    BY <1>2, <2>1 DEF HasSubsets
  <2>3. PICK T \in SUBSET M : m \in T /\ Cardinality(T) = high
    BY <1>2, <2>1 DEF HasSubsets
  <2>4. S \in Combined(m) /\ T \in Combined(m)
    BY <1>3, <1>4, <2>2, <2>3
  <2> QED
    BY <1>8, <2>2, <2>3, <2>4
<1> QED
  BY <1>7, <1>8 DEF high, events, M

-----------------------------------------------------------------------------
(* What the second pass has made of a set of elements.                     *)
Searched == {"gate", "parameter"}

ArgumentsFound(set, graph) ==
  /\ graph \in [Nodes -> Seq(Nodes)]
  /\ \A n \in Nodes : graph[n] = <<>> \/ (n \in Elements /\ Kind(n) \in Searched)
  /\ \A i \in set : Kind(i) \in Searched =>
       {graph[i][k] : k \in DOMAIN graph[i]} = {x \in AllFound(i) : Kind(x) = Kind(i)}

DefinedIn(set, form, flags, graph) ==
  /\ DOMAIN form = Nodes
  /\ \A i \in set : Kind(i) /= "ccf" => DefinedAsFound(i) /\ Follows(i, form[i])
  /\ flags = UNION {AllFound(i) : i \in {j \in set : Kind(j) /= "ccf"}}
  /\ ArgumentsFound(set, graph)

DoneUpTo(p, list) == {list[k] : k \in 1..(p - 1)}

(* Groups before, in the middle of and after their definition.             *)
FactoredTo(p, c, list, given) ==
  /\ c \in Nat
  /\ c > 0 => p <= Len(list) /\ list[p] \in Groups /\ c <= Len(Document[list[p]].factors)
  /\ \A g \in Groups :
       IF g \in DoneUpTo(p, list) THEN Factored(g, Len(Document[g].factors), given[g])
       ELSE IF c > 0 /\ g = list[p] THEN Factored(g, c - 1, given[g])
       ELSE given[g] = FreshGroup(g, Size(g))

Underway ==
  /\ TablesComplete
  /\ position \in 1..(Len(tbd) + 1)
  /\ DefinedIn(DoneUpTo(position, tbd), formula, used, args)
  /\ FactoredTo(position, child, tbd, groups)

(* The elements of the second pass come one after the other.               *)
LEMMA TbdFacts ==
  ASSUME input \in Inputs, TablesComplete
  PROVE  /\ Len(tbd) \in Nat
         /\ DoneUpTo(1, tbd) = {} /\ DoneUpTo(Len(tbd) + 1, tbd) = Deferred
         /\ \A p \in 1..Len(tbd) :
              /\ tbd[p] \in Deferred /\ tbd[p] \in Elements /\ tbd[p] \in DOMAIN Document
              /\ tbd[p] \in Nodes /\ tbd[p] \notin DoneUpTo(p, tbd)
              /\ DoneUpTo(p + 1, tbd) = DoneUpTo(p, tbd) \cup {tbd[p]}
              /\ Kind(tbd[p]) \in {"gate", "basic-event", "parameter", "ccf"}
<1> DEFINE n == Len(tbd)
<1>1. /\ tbd \in Seq(Deferred) /\ n \in Nat
      /\ \A k \in 1..n : tbd[k] \in Deferred
      /\ \A i \in Deferred : \E k \in 1..n : tbd[k] = i
      /\ \A j, k \in 1..n : tbd[j] = tbd[k] => j = k
  BY ElementOfSeq, LenProperties DEF TablesComplete, Enumerates
<1> HIDE DEF n
<1>2. DoneUpTo(1, tbd) = {}
  BY DEF DoneUpTo
<1>3. DoneUpTo(n + 1, tbd) = Deferred
  <2>1. \A k : k \in 1..(n + 1 - 1) <=> k \in 1..n
    BY <1>1
  <2>2. \A x \in DoneUpTo(n + 1, tbd) : x \in Deferred
    BY <1>1, <2>1 DEF DoneUpTo
  <2>3. \A x \in Deferred : x \in DoneUpTo(n + 1, tbd)
    BY <1>1, <2>1 DEF DoneUpTo
  <2> QED
    BY <2>2, <2>3
<1>4. ASSUME NEW p \in 1..n
      PROVE  /\ tbd[p] \in Deferred /\ tbd[p] \in Elements /\ tbd[p] \in DOMAIN Document
             /\ tbd[p] \in Nodes /\ tbd[p] \notin DoneUpTo(p, tbd)
             /\ DoneUpTo(p + 1, tbd) = DoneUpTo(p, tbd) \cup {tbd[p]}
             /\ Kind(tbd[p]) \in {"gate", "basic-event", "parameter", "ccf"}
  <2>1. /\ tbd[p] \in Deferred /\ tbd[p] \in Elements /\ tbd[p] \in DOMAIN Document
        /\ Kind(tbd[p]) \in {"gate", "basic-event", "parameter", "ccf"}
    BY <1>1 DEF Deferred, Elements
  <2>2. tbd[p] \in Nodes
    BY <2>1, InDocument
  <2>3. /\ \A k \in 1..(p - 1) : k \in 1..n /\ k /= p /\ k \in 1..(p + 1 - 1)
        /\ \A k \in 1..(p + 1 - 1) : k = p \/ k \in 1..(p - 1)
        /\ p \in 1..(p + 1 - 1)
    BY <1>1
  <2>4. tbd[p] \notin DoneUpTo(p, tbd)
    BY <1>1, <2>3 DEF DoneUpTo
  <2>5. DoneUpTo(p + 1, tbd) = DoneUpTo(p, tbd) \cup {tbd[p]}
    BY <2>3 DEF DoneUpTo
  <2> QED
    BY <2>1, <2>2, <2>4, <2>5
<1> QED
  BY <1>1, <1>2, <1>3, <1>4 DEF n

(* The references of an element, followed in the full tables.              *)
LEMMA ReferredFacts ==
  ASSUME input \in Inputs, TablesComplete, NEW i \in Elements
  PROVE  /\ Undefined(i) <=> \E k \in DOMAIN Document[i].refs : Found(i, Document[i].refs[k]) = {}
         /\ ~Undefined(i) =>
              /\ Follows(i, Referred(i)) /\ Referred(i) \in Seq(Nodes)
              /\ ToSet(Referred(i)) = AllFound(i)
              /\ DOMAIN Referred(i) = DOMAIN Document[i].refs
              /\ Referred(i) = [k \in DOMAIN Document[i].refs |-> Referred(i)[k]]
              /\ \A k \in DOMAIN Document[i].refs :
                   /\ Referred(i)[k] \in Found(i, Document[i].refs[k])
                   /\ Referred(i)[k] \in Elements
                   /\ Kind(i) = "gate" => Kind(Referred(i)[k]) \in Events
<1> DEFINE refs == Document[i].refs
           r == Referred(i)
<1>1. i \in DOMAIN Document /\ Kind(i) /= "end" /\ WellNamed /\ model = ModelTable /\ paths = PathTable
  BY DEF Elements, TablesComplete
<1>2. \A k \in DOMAIN refs : Entities(i, refs[k], model, paths) = Found(i, refs[k])
  BY <1>1, LookupFinds
<1>3. Undefined(i) <=> \E k \in DOMAIN refs : Found(i, refs[k]) = {}
  BY <1>2 DEF Undefined
<1>4. ASSUME ~Undefined(i)
      PROVE  /\ Follows(i, r) /\ r \in Seq(Nodes) /\ ToSet(r) = AllFound(i) /\ DOMAIN r = DOMAIN refs
             /\ r = [k \in DOMAIN refs |-> r[k]]
             /\ \A k \in DOMAIN refs : /\ r[k] \in Found(i, refs[k]) /\ r[k] \in Elements
                                       /\ Kind(i) = "gate" => Kind(r[k]) \in Events
  <2>1. DOMAIN r = DOMAIN refs /\ r = [k \in DOMAIN refs |-> r[k]]
    BY DEF Referred
  <2>2. \A k \in DOMAIN refs : r[k] \in Found(i, refs[k])
    <3> TAKE k \in DOMAIN refs
    <3>1. r[k] = CHOOSE j \in Entities(i, refs[k], model, paths) : TRUE
      BY DEF Referred
    <3>2. Entities(i, refs[k], model, paths) /= {}
      BY <1>2, <1>3, <1>4
    <3> QED
      BY <1>2, <3>1, <3>2
  <2> HIDE DEF r
  <2>3. /\ \A k \in DOMAIN refs : {r[k]} = Found(i, refs[k])
        /\ AllFound(i) = {r[k] : k \in DOMAIN refs}
        /\ AllFound(i) \subseteq Elements
        /\ Kind(i) = "gate" => \A x \in AllFound(i) : Kind(x) \in Events
    BY <1>1, <2>1, <2>2, ChoiceOfFound
  <2>4. ToSet(r) = AllFound(i)
    BY <2>1, <2>3 DEF ToSet
  <2>5. Elements \subseteq Nodes
    BY InDocument DEF Elements
  <2>6. r \in Seq(Nodes)
    <3>1. DOMAIN refs = 1..Len(refs) /\ Len(refs) \in Nat
      BY <1>1, RefFacts
    <3>2. r \in [1..Len(refs) -> Nodes]
      BY <2>1, <2>3, <2>5, <3>1
    <3> QED
      BY <3>1, <3>2
  <2>7. Follows(i, r)
    BY <2>1, <2>3 DEF Follows
  <2>8. \A k \in DOMAIN refs : r[k] \in Elements /\ (Kind(i) = "gate" => Kind(r[k]) \in Events)
    BY <2>3
  <2> QED
    BY <2>1, <2>2, <2>4, <2>6, <2>7, <2>8
<1> QED
  BY <1>3, <1>4

(* The arguments of one more element.                                      *)
LEMMA MoreArguments ==
  ASSUME input \in Inputs, TablesComplete, NEW set, NEW i \in Deferred, i \notin set,
         ArgumentsFound(set, args)
  PROVE  /\ Kind(i) \notin Searched => ArgumentsFound(set \cup {i}, args)
         /\ \A a \in Seq(Nodes) :
              /\ Kind(i) \in Searched
              /\ {a[k] : k \in DOMAIN a} = {x \in AllFound(i) : Kind(x) = Kind(i)}
              => ArgumentsFound(set \cup {i}, [args EXCEPT ![i] = a])
<1>1. i \in Elements /\ i \in Nodes
  BY InDocument DEF Deferred, Elements
<1>2. /\ args \in [Nodes -> Seq(Nodes)]
      /\ \A n \in Nodes : args[n] = <<>> \/ (n \in Elements /\ Kind(n) \in Searched)
      /\ \A j \in set : Kind(j) \in Searched =>
           {args[j][k] : k \in DOMAIN args[j]} = {x \in AllFound(j) : Kind(x) = Kind(j)}
  BY DEF ArgumentsFound
<1>3. Kind(i) \notin Searched => ArgumentsFound(set \cup {i}, args)
  BY <1>2 DEF ArgumentsFound
<1>4. ASSUME NEW a \in Seq(Nodes), Kind(i) \in Searched,
             {a[k] : k \in DOMAIN a} = {x \in AllFound(i) : Kind(x) = Kind(i)}
      PROVE  ArgumentsFound(set \cup {i}, [args EXCEPT ![i] = a])
  <2> DEFINE graph == [args EXCEPT ![i] = a]
  <2>1. /\ graph \in [Nodes -> Seq(Nodes)] /\ graph[i] = a
        /\ \A n : n /= i => graph[n] = args[n]
    BY <1>1, <1>2
  <2> HIDE DEF graph
  <2>2. \A n \in Nodes : graph[n] = <<>> \/ (n \in Elements /\ Kind(n) \in Searched)
    BY <1>1, <1>2, <1>4, <2>1
  <2>3. \A j \in set : Kind(j) \in Searched =>
          {graph[j][k] : k \in DOMAIN graph[j]} = {x \in AllFound(j) : Kind(x) = Kind(j)}
    <3> TAKE j \in set
    <3>1. graph[j] = args[j]
      BY <2>1
    <3> QED
      BY <1>2, <3>1
  <2>4. {graph[i][k] : k \in DOMAIN graph[i]} = {x \in AllFound(i) : Kind(x) = Kind(i)}
    BY <1>4, <2>1
  <2>5. ArgumentsFound(set \cup {i}, graph)
    <3>1. \A j \in set \cup {i} : Kind(j) \in Searched =>
            {graph[j][k] : k \in DOMAIN graph[j]} = {x \in AllFound(j) : Kind(x) = Kind(j)}
      <4> TAKE j \in set \cup {i}
      <4>1. CASE j = i
        BY <2>4, <4>1
      <4>2. CASE j \in set
        BY <2>3, <4>2
      <4> QED
        BY <4>1, <4>2
    <3> QED
      BY <2>1, <2>2, <3>1 DEF ArgumentsFound
  <2> QED
    BY <2>5 DEF graph
<1> QED
  BY <1>3, <1>4

LEMMA MoreDefined ==
  ASSUME input \in Inputs, NEW set, NEW i \in Deferred, i \notin set, Kind(i) /= "ccf",
         DefinedIn(set, formula, used, args), DefinedAsFound(i),
         NEW r, Follows(i, r), ToSet(r) = AllFound(i),
         NEW graph, ArgumentsFound(set \cup {i}, graph)
  PROVE  DefinedIn(set \cup {i}, [formula EXCEPT ![i] = r], used \cup ToSet(r), graph)
<1> DEFINE form == [formula EXCEPT ![i] = r]
<1>1. i \in Nodes
  BY InDocument DEF Deferred, Elements
<1>2. /\ DOMAIN formula = Nodes
      /\ \A j \in set : Kind(j) /= "ccf" => DefinedAsFound(j) /\ Follows(j, formula[j])
      /\ used = UNION {AllFound(j) : j \in {j \in set : Kind(j) /= "ccf"}}
  BY DEF DefinedIn
<1>3. DOMAIN form = Nodes /\ form[i] = r /\ \A j \in Nodes : j /= i => form[j] = formula[j]
  BY <1>1, <1>2
<1>4. \A j \in set : j /= i => form[j] = formula[j]
  BY <1>1, <1>2
<1> HIDE DEF form
<1>5. \A j \in set \cup {i} : Kind(j) /= "ccf" => DefinedAsFound(j) /\ Follows(j, form[j])
  BY <1>2, <1>3, <1>4
<1>6. used \cup ToSet(r) = UNION {AllFound(j) : j \in {j \in set \cup {i} : Kind(j) /= "ccf"}}
  <2>1. {j \in set \cup {i} : Kind(j) /= "ccf"} = {j \in set : Kind(j) /= "ccf"} \cup {i}
    OBVIOUS
  <2> QED
    BY <1>2, <2>1
<1>7. DefinedIn(set \cup {i}, form, used \cup ToSet(r), graph)
  BY <1>3, <1>5, <1>6 DEF DefinedIn
<1> QED
  BY <1>7 DEF form

-----------------------------------------------------------------------------
(* A step of the second pass goes on as before, or throws at documents that*)
(* are not valid.                                                          *)
Pursues ==
  /\ input' = input
  /\ \/ stage' = "define" /\ Underway'
     \/ stage' = "thrown" /\ ~ValidAsFound

LEMMA SameFactored ==
  ASSUME input' = input
  PROVE  /\ Groups' = Groups /\ Deferred' = Deferred
         /\ \A g, k, group : Factored(g, k, group)' <=> Factored(g, k, group)
         /\ \A g, count : FreshGroup(g, count)' = FreshGroup(g, count)
<1>1. /\ Document' = Document /\ Elements' = Elements
      /\ \A i : Kind(i)' = Kind(i) /\ Size(i)' = Size(i)
  BY SameEntries
<1>2. \A g : LeastLevel(g)' = LeastLevel(g) /\ FactorLevels(g)' = FactorLevels(g)
  BY SameFactors
<1>3. Groups' = Groups /\ Deferred' = Deferred
  BY <1>1 DEF Groups, Deferred
<1>4. \A g, j : Place(g, j)' = Place(g, j) /\ Factor(g, j)' = Factor(g, j)
  BY <1>1, <1>2 DEF Place, Factor
<1>5. \A g, k, factors : Placed(g, k, factors)' <=> Placed(g, k, factors)
  BY <1>1, <1>2, <1>4 DEF Placed
<1>6. \A g, k, group : Factored(g, k, group)' <=> Factored(g, k, group)
  BY <1>1, <1>2, <1>5 DEF Factored
<1>7. \A g, count : FreshGroup(g, count)' = FreshGroup(g, count)
  BY <1>1 DEF FreshGroup
<1> QED
  BY <1>3, <1>6, <1>7

LEMMA UnderwayNext ==
  ASSUME input' = input, UNCHANGED registry, TablesComplete, DOMAIN groups' = DOMAIN groups,
         position' \in 1..(Len(tbd) + 1),
         DefinedIn(DoneUpTo(position', tbd), formula', used', args'),
         FactoredTo(position', child', tbd, groups')
  PROVE  Underway'
<1>1. TablesComplete' /\ tbd' = tbd
  BY SameTablesComplete DEF registry
<1>2. DefinedIn(DoneUpTo(position, tbd), formula, used, args)'
  <2> DEFINE set == DoneUpTo(position', tbd)
             form == formula'
             flags == used'
             graph == args'
  <2>1. DoneUpTo(position, tbd)' = set
    BY <1>1 DEF DoneUpTo
  <2>2. DefinedIn(set, form, flags, graph)
    OBVIOUS
  <2>3. /\ Document' = Document /\ Elements' = Elements
        /\ \A i : Kind(i)' = Kind(i)
    BY SameEntries
  <2>4. /\ \A i, ref : Found(i, ref)' = Found(i, ref)
        /\ \A i : AllFound(i)' = AllFound(i)
        /\ \A i : DefinedAsFound(i)' <=> DefinedAsFound(i)
    BY SameMeaning
  <2>5. \A i, r : Follows(i, r)' <=> Follows(i, r)
    BY <2>3, <2>4 DEF Follows
  <2> HIDE DEF set, form, flags, graph
  <2>6. /\ DOMAIN form = Nodes
        /\ \A i \in set : Kind(i) /= "ccf" => DefinedAsFound(i) /\ Follows(i, form[i])
        /\ flags = UNION {AllFound(i) : i \in {j \in set : Kind(j) /= "ccf"}}
        /\ ArgumentsFound(set, graph)
    BY <2>2 DEF DefinedIn
  <2>7. ArgumentsFound(DoneUpTo(position, tbd), args)'
    BY <2>1, <2>3, <2>4, <2>6 DEF ArgumentsFound, graph
  <2>8. (\A i \in DoneUpTo(position, tbd) : Kind(i) /= "ccf" => DefinedAsFound(i) /\ Follows(i, formula[i]))'
    BY <2>1, <2>3, <2>4, <2>5, <2>6 DEF form
  <2>9. (used = UNION {AllFound(i) : i \in {j \in DoneUpTo(position, tbd) : Kind(j) /= "ccf"}})'
    BY <2>1, <2>3, <2>4, <2>6 DEF flags
  <2>10. (DOMAIN formula = Nodes)'
    BY <2>6 DEF form
  <2> QED
    BY <2>7, <2>8, <2>9, <2>10 DEF DefinedIn
<1>3. FactoredTo(position, child, tbd, groups)'
  <2>1. /\ Document' = Document /\ Groups' = Groups
        /\ \A g, k, group : Factored(g, k, group)' <=> Factored(g, k, group)
        /\ \A g : FreshGroup(g, Size(g))' = FreshGroup(g, Size(g))
    <3>1. \A g : Size(g)' = Size(g)
      BY SameEntries
    <3>2. \A g : FreshGroup(g, Size(g))' = FreshGroup(g, Size(g))
      BY <3>1, SameEntries DEF FreshGroup
    <3> QED
      BY <3>2, SameEntries, SameFactored
  <2>2. DoneUpTo(position, tbd)' = DoneUpTo(position', tbd)
    BY <1>1 DEF DoneUpTo
  <2> QED
    BY <1>1, <2>1, <2>2 DEF FactoredTo
<1> QED
  BY <1>1, <1>2, <1>3 DEF Underway

(* What is known of the element whose turn it is.                          *)
LEMMA AtElement ==
  ASSUME input \in Inputs, Underway, position <= Len(tbd)
  PROVE  /\ position \in 1..Len(tbd) /\ position \in Nat /\ Len(tbd) \in Nat
         /\ position + 1 \in 1..(Len(tbd) + 1)
         /\ tbd[position] \in Deferred /\ tbd[position] \in Elements /\ tbd[position] \in Nodes
         /\ tbd[position] \notin DoneUpTo(position, tbd)
         /\ DoneUpTo(position + 1, tbd) = DoneUpTo(position, tbd) \cup {tbd[position]}
         /\ Kind(tbd[position]) \in Searched \cup {"basic-event"} => tbd[position] \in Definable
<1>1. TablesComplete /\ position \in 1..(Len(tbd) + 1)
  BY DEF Underway
<1>2. Len(tbd) \in Nat
  BY <1>1, TbdFacts
<1>3. /\ position \in 1..Len(tbd) /\ position \in Nat /\ position + 1 \in 1..(Len(tbd) + 1)
  BY <1>1, <1>2
<1> QED
  BY <1>1, <1>2, <1>3, TbdFacts DEF Definable, Searched

LEMMA NotDefined ==
  ASSUME NEW i \in Definable, ~DefinedAsFound(i)
  PROVE  ~ValidAsFound
  BY DEF ValidAsFound

(* Groups are as they were when an element that is not a group is defined. *)
LEMMA GroupsAside ==
  ASSUME input \in Inputs, Underway, position <= Len(tbd), Kind(tbd[position]) /= "ccf"
  PROVE  child = 0 /\ FactoredTo(position + 1, child, tbd, groups)
<1> DEFINE i == tbd[position]
<1>1. i \notin Groups
  BY DEF Groups
<1>2. FactoredTo(position, child, tbd, groups)
  BY DEF Underway
<1>3. child = 0
  BY <1>1, <1>2 DEF FactoredTo
<1>4. \A g \in Groups : g \in DoneUpTo(position + 1, tbd) <=> g \in DoneUpTo(position, tbd)
  BY <1>1, AtElement
<1> QED
  BY <1>2, <1>3, <1>4 DEF FactoredTo

(* An element that is well defined gets its definition.                    *)
LEMMA ElementDefined ==
  ASSUME input \in Inputs, Underway, position <= Len(tbd), Kind(tbd[position]) /= "ccf",
         ~Undefined(tbd[position]), DefinedAsFound(tbd[position]),
         input' = input, UNCHANGED <<registry, groups, child>>, position' = position + 1,
         formula' = [formula EXCEPT ![tbd[position]] = Referred(tbd[position])],
         used' = used \cup ToSet(Referred(tbd[position])),
         ArgumentsFound(DoneUpTo(position, tbd) \cup {tbd[position]}, args')
  PROVE  Underway'
<1> DEFINE i == tbd[position]
           done == DoneUpTo(position, tbd)
<1>1. /\ i \in Deferred /\ i \in Elements /\ i \notin done
      /\ DoneUpTo(position + 1, tbd) = done \cup {i} /\ position + 1 \in 1..(Len(tbd) + 1)
  BY AtElement
<1>2. TablesComplete /\ DefinedIn(done, formula, used, args)
  BY DEF Underway
<1>3. Follows(i, Referred(i)) /\ ToSet(Referred(i)) = AllFound(i)
  BY <1>1, <1>2, ReferredFacts
<1> DEFINE graph == args'
<1>4. ArgumentsFound(done \cup {i}, graph) /\ DefinedAsFound(i) /\ Kind(i) /= "ccf"
  OBVIOUS
<1> HIDE DEF graph, done, i
<1>5. DefinedIn(done \cup {i}, [formula EXCEPT ![i] = Referred(i)], used \cup ToSet(Referred(i)), graph)
  BY <1>1, <1>2, <1>3, <1>4, MoreDefined
<1>6. DefinedIn(DoneUpTo(position', tbd), formula', used', args')
  BY <1>1, <1>5 DEF graph, i
<1>7. FactoredTo(position', child', tbd, groups') /\ DOMAIN groups' = DOMAIN groups
  BY GroupsAside
<1> QED
  BY <1>1, <1>2, <1>6, <1>7, UnderwayNext

LEMMA DefineGateStep ==
  ASSUME input \in Inputs, stage = "define", Underway, DefineGate
  PROVE  Pursues
<1> DEFINE i == tbd[position]
           entry == Document[i]
           r == Referred(i)
           distinct == \A j, k \in DOMAIN entry.refs : Id(r[j]) = Id(r[k]) => j = k
           accepted == /\ ~Undefined(i) /\ distinct
                       /\ ValidConnective(entry.connective, entry.min, Len(entry.refs))
           done == DoneUpTo(position, tbd)
<1>1. position <= Len(tbd) /\ Kind(i) = "gate"
  BY DEF DefineGate, Defining
<1>2. /\ i \in Deferred /\ i \in Elements /\ i \in DOMAIN Document /\ i \notin done /\ i \in Definable
      /\ TablesComplete /\ WellNamed /\ DefinedIn(done, formula, used, args)
  BY <1>1, AtElement DEF Underway, Searched, TablesComplete, Elements
<1>3. DefinedAsFound(i) <=>
        /\ \A k \in DOMAIN entry.refs : Found(i, entry.refs[k]) /= {}
        /\ Cardinality(AllFound(i)) = Len(entry.refs)
        /\ ValidConnective(entry.connective, entry.min, Len(entry.refs))
  BY <1>1 DEF DefinedAsFound
<1>4. Undefined(i) <=> \E k \in DOMAIN entry.refs : Found(i, entry.refs[k]) = {}
  BY <1>2, ReferredFacts
<1>5. ~Undefined(i) => (distinct <=> Cardinality(AllFound(i)) = Len(entry.refs))
  <2> SUFFICES ASSUME ~Undefined(i)
               PROVE  distinct <=> Cardinality(AllFound(i)) = Len(entry.refs)
    OBVIOUS
  <2>1. /\ r = [k \in DOMAIN entry.refs |-> r[k]]
        /\ \A k \in DOMAIN entry.refs : r[k] \in Found(i, entry.refs[k])
        /\ \A k \in DOMAIN entry.refs : r[k] \in Elements /\ Kind(r[k]) \in Events
    BY <1>1, <1>2, ReferredFacts
  <2> HIDE DEF r
  <2>2. Cardinality(AllFound(i)) = Len(entry.refs) <=>
          \A j, k \in DOMAIN entry.refs : r[j] = r[k] => j = k
    BY <1>1, <1>2, <2>1, CountOfFound
  <2>3. \A j, k \in DOMAIN entry.refs : Id(r[j]) = Id(r[k]) <=> r[j] = r[k]
    BY <1>2, <2>1, EventsById
  <2> QED
    BY <2>2, <2>3
<1>6. accepted <=> DefinedAsFound(i)
  BY <1>3, <1>4, <1>5
<1>7. CASE ~accepted /\ Throw_
  <2>1. ~ValidAsFound
    BY <1>2, <1>6, <1>7, NotDefined
  <2> QED
    BY <1>7, <2>1 DEF Pursues, Throw_
<1>8. CASE /\ accepted
           /\ formula' = [formula EXCEPT ![i] = Referred(i)]
           /\ args' = [args EXCEPT ![i] = GatesAmong(Referred(i))]
           /\ used' = used \cup ToSet(Referred(i))
           /\ position' = position + 1
           /\ UNCHANGED <<input, stage, registry, groups, child>>
  <2>1. r \in Seq(Nodes) /\ ToSet(r) = AllFound(i)
    BY <1>2, <1>8, ReferredFacts
  <2> DEFINE a == GatesAmong(r)
  <2>2. a \in Seq(Nodes) /\ {a[k] : k \in DOMAIN a} = {x \in AllFound(i) : Kind(x) = Kind(i)}
    <3> HIDE DEF r
    <3>1. a \in Seq(Nodes) /\ {a[k] : k \in DOMAIN a} = {r[k] : k \in {k \in DOMAIN r : Kind(r[k]) = "gate"}}
      BY <2>1, GatesAmongFacts
    <3>2. {r[k] : k \in {k \in DOMAIN r : Kind(r[k]) = "gate"}} = {x \in ToSet(r) : Kind(x) = "gate"}
      BY DEF ToSet
    <3> QED
      BY <1>1, <2>1, <3>1, <3>2
  <2> HIDE DEF a
  <2>3. ArgumentsFound(done \cup {i}, [args EXCEPT ![i] = a])
    <3>1. Kind(i) \in Searched
      BY <1>1 DEF Searched
    <3>2. ArgumentsFound(done, args)
      BY <1>2 DEF DefinedIn
    <3> HIDE DEF done, i
    <3> QED
      BY <1>2, <2>2, <3>1, <3>2, MoreArguments
  <2>4. ArgumentsFound(done \cup {i}, args')
    BY <1>8, <2>3 DEF a
  <2>5. Kind(i) /= "ccf" /\ DefinedAsFound(i) /\ ~Undefined(i)
    BY <1>1, <1>6, <1>8
  <2>6. Underway'
    BY <1>1, <1>8, <2>4, <2>5, ElementDefined
  <2> QED
    BY <1>8, <2>6 DEF Pursues
<1> QED
  BY <1>7, <1>8 DEF DefineGate

LEMMA DefineParameterStep ==
  ASSUME input \in Inputs, stage = "define", Underway, DefineParameter
  PROVE  Pursues
<1> DEFINE i == tbd[position]
           r == Referred(i)
           done == DoneUpTo(position, tbd)
<1>1. position <= Len(tbd) /\ Kind(i) = "parameter"
  BY DEF DefineParameter, Defining
<1>2. /\ i \in Deferred /\ i \in Elements /\ i \in DOMAIN Document /\ i \notin done /\ i \in Definable
      /\ TablesComplete /\ WellNamed /\ DefinedIn(done, formula, used, args)
  BY <1>1, AtElement DEF Underway, Searched, TablesComplete, Elements
<1>3. Undefined(i) <=> ~DefinedAsFound(i)
  BY <1>1, <1>2, ReferredFacts DEF DefinedAsFound
<1>4. CASE Undefined(i) /\ Throw_
  <2>1. ~ValidAsFound
    BY <1>2, <1>3, <1>4, NotDefined
  <2> QED
    BY <1>4, <2>1 DEF Pursues, Throw_
<1>5. CASE /\ ~Undefined(i)
           /\ formula' = [formula EXCEPT ![i] = Referred(i)]
           /\ args' = [args EXCEPT ![i] = Referred(i)]
           /\ used' = used \cup ToSet(Referred(i))
           /\ position' = position + 1
           /\ UNCHANGED <<input, stage, registry, groups, child>>
  <2>1. r \in Seq(Nodes) /\ ToSet(r) = AllFound(i) /\ DOMAIN r = DOMAIN Document[i].refs
    BY <1>2, <1>5, ReferredFacts
  <2>2. \A x \in AllFound(i) : Kind(x) = "parameter"
    <3>1. /\ r = [k \in DOMAIN Document[i].refs |-> r[k]]
          /\ \A k \in DOMAIN Document[i].refs : r[k] \in Found(i, Document[i].refs[k])
      BY <1>2, <1>5, ReferredFacts
    <3> HIDE DEF r
    <3> QED
      BY <1>1, <1>2, <2>1, <3>1, ChoiceOfFound
  <2> HIDE DEF r
  <2>3. {r[k] : k \in DOMAIN r} = {x \in AllFound(i) : Kind(x) = Kind(i)}
    BY <1>1, <2>1, <2>2 DEF ToSet
  <2>4. ArgumentsFound(done \cup {i}, [args EXCEPT ![i] = r])
    <3>1. Kind(i) \in Searched
      BY <1>1 DEF Searched
    <3>2. ArgumentsFound(done, args)
      BY <1>2 DEF DefinedIn
    <3> HIDE DEF done, i
    <3> QED
      BY <1>2, <2>1, <2>3, <3>1, <3>2, MoreArguments
  <2>5. ArgumentsFound(done \cup {i}, args')
    BY <1>5, <2>4 DEF r
  <2>6. Kind(i) /= "ccf" /\ DefinedAsFound(i) /\ ~Undefined(i)
    BY <1>1, <1>3, <1>5
  <2>7. Underway'
    BY <1>1, <1>5, <2>5, <2>6, ElementDefined
  <2> QED
    BY <1>5, <2>7 DEF Pursues
<1> QED
  BY <1>4, <1>5 DEF DefineParameter

LEMMA DefineBasicEventStep ==
  ASSUME input \in Inputs, stage = "define", Underway, DefineBasicEvent
  PROVE  Pursues
<1> DEFINE i == tbd[position]
           done == DoneUpTo(position, tbd)
           refused == Undefined(i) \/ (~Document[i].expression /\ input.probability_analysis)
<1>1. position <= Len(tbd) /\ Kind(i) = "basic-event"
  BY DEF DefineBasicEvent, Defining
<1>2. /\ i \in Deferred /\ i \in Elements /\ i \notin done /\ i \in Definable
      /\ TablesComplete /\ DefinedIn(done, formula, used, args)
  BY <1>1, AtElement DEF Underway, Searched
<1>3. refused <=> ~DefinedAsFound(i)
  BY <1>1, <1>2, ReferredFacts DEF DefinedAsFound
<1>4. CASE refused /\ Throw_
  <2>1. ~ValidAsFound
    BY <1>2, <1>3, <1>4, NotDefined
  <2> QED
    BY <1>4, <2>1 DEF Pursues, Throw_
<1>5. CASE /\ ~refused
           /\ formula' = [formula EXCEPT ![i] = Referred(i)]
           /\ used' = used \cup ToSet(Referred(i))
           /\ Onwards /\ UNCHANGED <<registry, groups, child>>
  <2>1. input' = input /\ stage' = "define" /\ args' = args /\ position' = position + 1
    BY <1>5 DEF Onwards, search
  <2>2. ArgumentsFound(done \cup {i}, args')
    <3>1. Kind(i) \notin Searched
      BY <1>1 DEF Searched
    <3>2. ArgumentsFound(done, args)
      BY <1>2 DEF DefinedIn
    <3> HIDE DEF done, i
    <3>3. ArgumentsFound(done \cup {i}, args)
      BY <1>2, <3>1, <3>2, MoreArguments
    <3> QED
      BY <2>1, <3>3
  <2>3. Kind(i) /= "ccf" /\ DefinedAsFound(i) /\ ~Undefined(i)
    BY <1>1, <1>3, <1>5
  <2>4. Underway'
    BY <1>1, <1>5, <2>1, <2>2, <2>3, ElementDefined
  <2> QED
    BY <2>1, <2>4 DEF Pursues
<1> QED
  BY <1>4, <1>5 DEF DefineBasicEvent

(* The group whose turn it is, and the others.                             *)
LEMMA AtGroup ==
  ASSUME input \in Inputs, Underway, position <= Len(tbd), Kind(tbd[position]) = "ccf"
  PROVE  /\ tbd[position] \in Groups /\ DOMAIN groups = Groups
         /\ child = 0 => groups[tbd[position]] = FreshGroup(tbd[position], Size(tbd[position]))
         /\ child > 0 => /\ child \in 1..Len(Document[tbd[position]].factors)
                         /\ Factored(tbd[position], child - 1, groups[tbd[position]])
         /\ \A g \in Groups : g /= tbd[position] =>
              /\ g \in DoneUpTo(position, tbd) => Factored(g, Len(Document[g].factors), groups[g])
              /\ g \notin DoneUpTo(position, tbd) => groups[g] = FreshGroup(g, Size(g))
<1> DEFINE i == tbd[position]
<1>1. i \in Groups /\ i \notin DoneUpTo(position, tbd)
  BY AtElement DEF Groups
<1>2. FactoredTo(position, child, tbd, groups) /\ DOMAIN groups = Groups
  BY DEF Underway, TablesComplete
<1>3. child \in Nat /\ Len(Document[i].factors) \in Nat
  BY <1>1, <1>2, GroupNumbers DEF FactoredTo
<1>4. child > 0 => child \in 1..Len(Document[i].factors)
  BY <1>2, <1>3 DEF FactoredTo
<1>5. child = 0 => ~(child > 0)
  OBVIOUS
<1> QED
  BY <1>1, <1>2, <1>4, <1>5 DEF FactoredTo

(* One step of the definition of a group changes nothing else.             *)
LEMMA GroupGoesOn ==
  ASSUME input \in Inputs, Underway, position <= Len(tbd), Kind(tbd[position]) = "ccf",
         NEW group, input' = input, groups' = [groups EXCEPT ![tbd[position]] = group],
         UNCHANGED <<registry, formula, used, args>>,
         \/ /\ position' = position /\ child' \in 1..Len(Document[tbd[position]].factors)
            /\ Factored(tbd[position], child' - 1, group)
         \/ /\ position' = position + 1 /\ child' = 0
            /\ Factored(tbd[position], Len(Document[tbd[position]].factors), group)
  PROVE  Underway'
<1> DEFINE i == tbd[position]
           done == DoneUpTo(position, tbd)
           n == Len(Document[i].factors)
<1>1. /\ i \in Groups /\ DOMAIN groups = Groups /\ i \notin done /\ Kind(i) = "ccf"
      /\ DoneUpTo(position + 1, tbd) = done \cup {i}
      /\ position + 1 \in 1..(Len(tbd) + 1) /\ position \in 1..(Len(tbd) + 1)
      /\ n \in Nat \ {0}
  BY AtGroup, AtElement, GroupNumbers DEF Underway
<1>2. /\ TablesComplete /\ DefinedIn(done, formula, used, args)
      /\ formula' = formula /\ used' = used /\ args' = args
  BY DEF Underway
<1>3. /\ DOMAIN groups' = Groups /\ groups'[i] = group
      /\ \A g \in Groups : g /= i => groups'[g] = groups[g]
  BY <1>1
<1>4. \A g \in Groups : g /= i =>
        /\ g \in done => Factored(g, Len(Document[g].factors), groups'[g])
        /\ g \notin done => groups'[g] = FreshGroup(g, Size(g))
  BY <1>3, AtGroup
<1> DEFINE given == groups'
           c == child'
           p == position'
<1>5. /\ DOMAIN given = Groups /\ given[i] = group
      /\ \A g \in Groups : g /= i =>
           /\ g \in done => Factored(g, Len(Document[g].factors), given[g])
           /\ g \notin done => given[g] = FreshGroup(g, Size(g))
      /\ \/ p = position /\ c \in 1..n /\ Factored(i, c - 1, group)
         \/ p = position + 1 /\ c = 0 /\ Factored(i, n, group)
      /\ position <= Len(tbd)
  BY <1>3, <1>4
<1> HIDE DEF given, c, p
<1>6. CASE p = position /\ c \in 1..n /\ Factored(i, c - 1, group)
  <2>1. c \in Nat /\ c > 0 /\ c <= n
    BY <1>1, <1>6
  <2>2. FactoredTo(p, c, tbd, given)
    <3>1. \A g \in Groups :
            IF g \in DoneUpTo(p, tbd) THEN Factored(g, Len(Document[g].factors), given[g])
            ELSE IF c > 0 /\ g = tbd[p] THEN Factored(g, c - 1, given[g])
            ELSE given[g] = FreshGroup(g, Size(g))
      BY <1>1, <1>5, <1>6, <2>1
    <3> QED
      BY <1>1, <1>5, <1>6, <2>1, <3>1 DEF FactoredTo
  <2>3. DefinedIn(DoneUpTo(p, tbd), formula, used, args)
    BY <1>2, <1>6
  <2> QED
    BY <1>1, <1>2, <1>3, <1>6, <2>2, <2>3, UnderwayNext DEF p, c, given
<1>7. CASE p = position + 1 /\ c = 0 /\ Factored(i, n, group)
  <2>1. FactoredTo(p, c, tbd, given)
    <3>1. \A g \in Groups :
            IF g \in DoneUpTo(p, tbd) THEN Factored(g, Len(Document[g].factors), given[g])
            ELSE given[g] = FreshGroup(g, Size(g))
      BY <1>1, <1>5, <1>7
    <3>2. c \in Nat /\ ~(c > 0)
      BY <1>7
    <3> QED
      BY <3>1, <3>2 DEF FactoredTo
  <2>2. DefinedIn(done \cup {i}, formula, used, args)
    <3>1. {j \in done \cup {i} : Kind(j) /= "ccf"} = {j \in done : Kind(j) /= "ccf"}
      BY <1>1
    <3>2. ArgumentsFound(done \cup {i}, args)
      BY <1>1, <1>2 DEF DefinedIn, ArgumentsFound, Searched
    <3> QED
      BY <1>1, <1>2, <3>1, <3>2 DEF DefinedIn
  <2>3. DefinedIn(DoneUpTo(p, tbd), formula, used, args)
    BY <1>1, <1>7, <2>2
  <2> QED
    BY <1>1, <1>2, <1>3, <1>7, <2>1, <2>3, UnderwayNext DEF p, c, given
<1> QED
  BY <1>5, <1>6, <1>7

LEMMA NotFactored ==
  ASSUME NEW g \in Groups, ~Replaceable(g)
  PROVE  ~ValidAsFound
  BY DEF ValidAsFound, Groups

LEMMA DefineDistributionStep ==
  ASSUME input \in Inputs, stage = "define", Underway, DefineDistribution
  PROVE  Pursues
<1> DEFINE i == tbd[position]
<1>1. position <= Len(tbd) /\ Kind(i) = "ccf" /\ child = 0
  BY DEF DefineDistribution, Defining
<1>2. /\ i \in Groups /\ groups[i] = FreshGroup(i, Size(i)) /\ DOMAIN groups = Groups
      /\ Len(Document[i].factors) \in Nat \ {0}
  BY <1>1, AtGroup, GroupNumbers
<1>3. CASE ~AcceptsDistribution(groups[i]) /\ Throw_
  <2>1. ~ValidAsFound
    BY <1>2, <1>3, DistributionStep, NotFactored
  <2> QED
    BY <1>3, <2>1 DEF Pursues, Throw_
<1>4. CASE /\ AcceptsDistribution(groups[i])
           /\ groups' = [groups EXCEPT ![i] = WithDistribution(@)]
           /\ child' = 1
           /\ UNCHANGED <<input, stage, position, registry, formula, used, set_up, search>>
  <2> DEFINE group == WithDistribution(groups[i])
  <2>1. Factored(i, 0, group)
    BY <1>2, <1>4, DistributionStep
  <2>2. groups' = [groups EXCEPT ![i] = group]
    BY <1>4
  <2>3. child' \in 1..Len(Document[i].factors) /\ child' - 1 = 0
    BY <1>2, <1>4
  <2>4. UNCHANGED <<registry, formula, used, args>> /\ input' = input /\ position' = position /\ stage' = "define"
    BY <1>4 DEF search
  <2> HIDE DEF group
  <2>5. Factored(i, child' - 1, group)
    BY <2>1, <2>3
  <2>6. Underway'
    BY <1>1, <2>2, <2>3, <2>4, <2>5, GroupGoesOn
  <2> QED
    BY <2>4, <2>6 DEF Pursues
<1> QED
  BY <1>3, <1>4 DEF DefineDistribution

LEMMA DefineCcfFactorStep ==
  ASSUME input \in Inputs, stage = "define", Underway, DefineCcfFactor
  PROVE  Pursues
<1> DEFINE i == tbd[position]
           factors == Document[i].factors
           n == Len(factors)
<1>1. position <= Len(tbd) /\ Kind(i) = "ccf" /\ child > 0
  BY DEF DefineCcfFactor, Defining
<1>2. /\ i \in Groups /\ DOMAIN groups = Groups /\ n \in Nat \ {0}
      /\ child \in 1..n /\ Factored(i, child - 1, groups[i])
      /\ child - 1 \in 0..(n - 1) /\ child - 1 + 1 = child /\ child \in Nat
  <2>1. i \in Groups /\ DOMAIN groups = Groups /\ child \in 1..n /\ Factored(i, child - 1, groups[i])
    BY <1>1, AtGroup
  <2>2. n \in Nat \ {0}
    BY <2>1, GroupNumbers
  <2>3. child - 1 \in 0..(n - 1) /\ child - 1 + 1 = child /\ child \in Nat
    BY <2>1, <2>2
  <2> QED
    BY <2>1, <2>2, <2>3
<1> DEFINE k == child - 1
           group == WithFactor(groups[i], factors[child])
<1>3. /\ AcceptsFactor(groups[i], factors[child]) => Factored(i, child, group)
      /\ ~AcceptsFactor(groups[i], factors[child]) => ~Replaceable(i)
  <2>1. k \in 0..(n - 1) /\ Factored(i, k, groups[i]) /\ k + 1 = child
    BY <1>2
  <2> HIDE DEF k
  <2>2. /\ AcceptsFactor(groups[i], factors[k + 1]) =>
             Factored(i, k + 1, WithFactor(groups[i], factors[k + 1]))
        /\ ~AcceptsFactor(groups[i], factors[k + 1]) => ~Replaceable(i)
    BY <1>2, <2>1, FactorStep
  <2> QED
    BY <2>1, <2>2
<1>4. CASE ~AcceptsFactor(groups[i], factors[child]) /\ Throw_
  <2>1. ~ValidAsFound
    BY <1>2, <1>3, <1>4, NotFactored
  <2> QED
    BY <1>4, <2>1 DEF Pursues, Throw_
<1>5. CASE /\ AcceptsFactor(groups[i], factors[child])
           /\ groups' = [groups EXCEPT ![i] = WithFactor(@, factors[child])]
           /\ child' = IF child < Len(factors) THEN child + 1 ELSE 0
           /\ position' = IF child < Len(factors) THEN position ELSE position + 1
           /\ UNCHANGED <<input, stage, registry, formula, used, set_up, search>>
  <2>1. UNCHANGED <<registry, formula, used, args>> /\ input' = input /\ stage' = "define"
    BY <1>5 DEF search
  <2>2. groups' = [groups EXCEPT ![i] = group] /\ Factored(i, child, group)
    BY <1>3, <1>5
  <2> HIDE DEF group
  <2>3. CASE child < n
    <3>1. child' \in 1..n /\ child' - 1 = child /\ position' = position
      BY <1>2, <1>5, <2>3
    <3>2. Factored(i, child' - 1, group)
      BY <2>2, <3>1
    <3>3. Underway'
      BY <1>1, <2>1, <2>2, <3>1, <3>2, GroupGoesOn
    <3> QED
      BY <2>1, <3>3 DEF Pursues
  <2>4. CASE ~(child < n)
    <3>1. child = n /\ child' = 0 /\ position' = position + 1
      BY <1>2, <1>5, <2>4
    <3>2. Underway'
      BY <1>1, <2>1, <2>2, <3>1, GroupGoesOn
    <3> QED
      BY <2>1, <3>2 DEF Pursues
  <2> QED
    BY <2>3, <2>4
<1> QED
  BY <1>4, <1>5 DEF DefineCcfFactor

-----------------------------------------------------------------------------
(* What the second pass leaves: every element defined by what is found.    *)
Established ==
  /\ TablesComplete
  /\ DefinedIn(Deferred, formula, used, args)
  /\ \A g \in Groups : Factored(g, Len(Document[g].factors), groups[g])

LEMMA AllDefined ==
  ASSUME input \in Inputs, Underway, position > Len(tbd)
  PROVE  Established
<1>1. TablesComplete /\ position \in 1..(Len(tbd) + 1) /\ Len(tbd) \in Nat
  BY TbdFacts DEF Underway
<1>2. position = Len(tbd) + 1
  BY <1>1
<1>3. DoneUpTo(position, tbd) = Deferred
  BY <1>1, <1>2, TbdFacts
<1>4. Groups \subseteq Deferred
  BY DEF Groups, Deferred
<1> QED
  BY <1>1, <1>3, <1>4 DEF Underway, Established, FactoredTo

LEMMA EstablishedStays ==
  ASSUME input' = input, UNCHANGED <<registry, definitions, args>>, Established
  PROVE  Established'
<1>1. groups' = groups /\ formula' = formula /\ used' = used /\ args' = args
  BY DEF definitions
<1>2. TablesComplete'
  BY <1>1, SameTablesComplete DEF Established
<1>3. /\ Document' = Document /\ Elements' = Elements
      /\ \A i : Kind(i)' = Kind(i)
  BY SameEntries
<1>4. /\ \A i, ref : Found(i, ref)' = Found(i, ref)
      /\ \A i : AllFound(i)' = AllFound(i)
      /\ \A i : DefinedAsFound(i)' <=> DefinedAsFound(i)
  BY SameMeaning
<1>5. Deferred' = Deferred /\ Groups' = Groups /\ \A g, k, group : Factored(g, k, group)' <=> Factored(g, k, group)
  BY SameFactored
<1>6. \A i, r : Follows(i, r)' <=> Follows(i, r)
  BY <1>3, <1>4 DEF Follows
<1>7. ArgumentsFound(Deferred, args)'
  BY <1>1, <1>3, <1>4, <1>5 DEF ArgumentsFound, Established, DefinedIn
<1>8. (used = UNION {AllFound(i) : i \in {j \in Deferred : Kind(j) /= "ccf"}})'
  BY <1>1, <1>3, <1>4, <1>5 DEF Established, DefinedIn
<1>9. (\A i \in Deferred : Kind(i) /= "ccf" => DefinedAsFound(i) /\ Follows(i, formula[i]))'
  BY <1>1, <1>3, <1>4, <1>5, <1>6 DEF Established, DefinedIn
<1>10. (DOMAIN formula = Nodes)'
  BY <1>1 DEF Established, DefinedIn
<1>11. DefinedIn(Deferred, formula, used, args)'
  BY <1>7, <1>8, <1>9, <1>10 DEF DefinedIn
<1>12. (\A g \in Groups : Factored(g, Len(Document[g].factors), groups[g]))'
  BY <1>1, <1>3, <1>5 DEF Established
<1> QED
  BY <1>2, <1>11, <1>12 DEF Established

(* The graph that is searched is that of the definitions: arguments are    *)
(* what is found, of the same kind.                                        *)
LEMMA GraphFound ==
  ASSUME input \in Inputs, Established
  PROVE  /\ \A n \in Nodes : Arguments(n) = {} \/ (n \in Elements /\ Kind(n) \in Searched)
         /\ \A i \in Elements : Kind(i) \in Searched =>
              /\ i \in Nodes /\ i \in Modelled(Kind(i))
              /\ Arguments(i) = {x \in AllFound(i) : Kind(x) = Kind(i)}
         /\ \A kind \in Searched : Modelled(kind) = {i \in Elements : Kind(i) = kind} /\ Modelled(kind) \subseteq Nodes
<1>1. ArgumentsFound(Deferred, args) /\ model = ModelTable
  BY DEF Established, DefinedIn, TablesComplete
<1>2. Elements \subseteq Nodes
  BY InDocument DEF Elements
<1>3. \A n \in Nodes : Arguments(n) = {} \/ (n \in Elements /\ Kind(n) \in Searched)
  <2> TAKE n \in Nodes
  <2>1. args[n] = <<>> => Arguments(n) = {}
    BY DEF Arguments
  <2> QED
    BY <1>1, <2>1 DEF ArgumentsFound
<1>4. \A kind \in Searched : Modelled(kind) = {i \in Elements : Kind(i) = kind}
  BY <1>1 DEF Modelled, ModelTable, Searched
<1>5. \A i \in Elements : Kind(i) \in Searched => Arguments(i) = {x \in AllFound(i) : Kind(x) = Kind(i)}
  <2>1. \A i \in Elements : Kind(i) \in Searched => i \in Deferred
    BY DEF Deferred, Searched
  <2> QED
    BY <1>1, <2>1 DEF ArgumentsFound, Arguments
<1> QED
  BY <1>2, <1>3, <1>4, <1>5

LEMMA AcyclicMeans ==
  ASSUME input \in Inputs, Established, Acyclic(Nodes)
  PROVE  NoCycleFound("gate") /\ NoCycleFound("parameter")
<1>1. ASSUME NEW kind \in Searched PROVE NoCycleFound(kind)
  <2> SUFFICES ASSUME NEW part \in (SUBSET {i \in Elements : Kind(i) = kind}) \ {{}}
               PROVE  \E i \in part : AllFound(i) \cap part = {}
    BY DEF NoCycleFound
  <2>1. /\ \A i \in part : i \in Elements /\ Kind(i) = kind
        /\ part \subseteq Nodes /\ part /= {}
    BY <1>1, GraphFound
  <2>2. PICK i \in part : Arguments(i) \cap part = {}
    BY <2>1 DEF Acyclic
  <2>3. Arguments(i) = {x \in AllFound(i) : Kind(x) = kind}
    BY <1>1, <2>1, GraphFound
  <2> QED
    BY <2>1, <2>2, <2>3
<1> QED
  BY <1>1 DEF Searched

(* A cycle is one of gates or of parameters, as arguments are of one kind. *)
LEMMA CycleMeans ==
  ASSUME input \in Inputs, Established, NEW path \in Seq(Nodes), IsCycle(path)
  PROVE  ~ValidAsFound
<1> DEFINE n == Len(path)
           part == {path[i] : i \in 1..n}
<1>1. /\ n \in Nat /\ n > 1 /\ path[1] = path[n] /\ DOMAIN path = 1..n
      /\ \A i \in 1..(n - 1) : path[i] \in Arguments(path[i + 1])
      /\ \A i \in 1..n : path[i] \in Nodes
  BY LenProperties, ElementOfSeq DEF IsCycle
<1> HIDE DEF n
<1>2. ASSUME NEW x \in part PROVE x \in Nodes /\ \E y \in part : y \in Arguments(x)
  <2>1. PICK i \in 1..n : x = path[i]
    OBVIOUS
  <2>2. CASE i = 1
    <3>1. n - 1 \in 1..(n - 1) /\ n - 1 \in 1..n /\ n - 1 + 1 = n
      BY <1>1
    <3>2. path[n - 1] \in Arguments(path[n])
      BY <1>1, <3>1
    <3> QED
      BY <1>1, <2>1, <2>2, <3>1, <3>2
  <2>3. CASE i /= 1
    <3>1. i - 1 \in 1..(n - 1) /\ i - 1 \in 1..n /\ i - 1 + 1 = i
      BY <1>1, <2>3
    <3>2. path[i - 1] \in Arguments(path[i])
      BY <1>1, <3>1
    <3> QED
      BY <1>1, <2>1, <3>1, <3>2
  <2> QED
    BY <2>2, <2>3
<1>3. part /= {}
  <2>1. 1 \in 1..n
    BY <1>1
  <2> QED
    BY <2>1
<1> HIDE DEF part
<1>4. \A x \in part : x \in Elements /\ Kind(x) \in Searched
  BY <1>2, GraphFound
<1>5. PICK x \in part : x \in Elements /\ Kind(x) \in Searched
  BY <1>3, <1>4
<1> DEFINE kind == Kind(x)
           some == {y \in part : Kind(y) = kind}
<1>6. some \in (SUBSET {i \in Elements : Kind(i) = kind}) \ {{}}
  BY <1>4, <1>5
<1>7. \A y \in some : AllFound(y) \cap some /= {}
  <2> TAKE y \in some
  <2>1. y \in Elements /\ Kind(y) = kind /\ Kind(y) \in Searched
    BY <1>4
  <2>2. Arguments(y) = {z \in AllFound(y) : Kind(z) = kind}
    BY <2>1, GraphFound
  <2>3. PICK z \in part : z \in Arguments(y)
    BY <1>2
  <2> QED
    BY <2>2, <2>3
<1>8. ~NoCycleFound(kind)
  <2> HIDE DEF some
  <2> QED
    BY <1>6, <1>7 DEF NoCycleFound
<1>9. kind = "gate" \/ kind = "parameter"
  BY <1>5 DEF Searched
<1> QED
  BY <1>8, <1>9 DEF ValidAsFound

-----------------------------------------------------------------------------
(* A search for cycles under way, in the elements of a kind.               *)
Searching(kind) ==
  /\ phase \in {"search", "report"}
  /\ \E container \in SUBSET Nodes : container = Modelled(kind) /\ SearchInv(container)

(* What has passed the checks for cycles, and those of CCF groups.         *)
Accepted == Established /\ phase = "acyclic" /\ Acyclic(Nodes)

Validated == Accepted /\ \A g \in Groups : IsValidGroup(groups[g])

NothingSetUp == top_events = <<>> /\ proxies = <<>>

GatesOnTop(tree) == {g \in GatesOf(tree) : \A h \in GatesOf(tree) : g \notin AllFound(h)}

(* No gate has a mark left, and the trees that have been looked at have    *)
(* their top events.                                                       *)
Collected ==
  /\ \A n \in Modelled("gate") : mark[n] = "clear"
  /\ \A tree \in DOMAIN top_events : top_events[tree] = GatesOnTop(tree)

(* Members are only replaced where others fail with them.                  *)
Replaced ==
  \A m \in DOMAIN proxies :
    \E g \in Groups : /\ m \in MembersMeant(g) /\ HighestLevel(g) >= 2
                      /\ proxies[m] = Proxied(CcfEvents(groups[g]), m)

DefinitionsAsFound ==
  /\ \A i \in Definable : Follows(i, formula[i])
  /\ used = UNION {AllFound(i) : i \in Definable}

Ready == DefinitionsAsFound /\ TopEventsOnTop /\ EventsCombined

Blank ==
  /\ Idle /\ untried = {}
  /\ formula = [n \in Nodes |-> <<>>] /\ used = {} /\ child = 0
  /\ \A n \in Nodes : args[n] = <<>>

SearchProperties == MarksOnStack /\ AcceptsOnlyAcyclic /\ ReportsACycle

(* The inductive invariant: what every stage has established for the next. *)
InitializerInv ==
  /\ input \in Inputs
  /\ SearchProperties
  /\ stage \notin {"top events", "ready", "thrown"} => NothingSetUp
  /\ \/ stage = "register" /\ Registering /\ Blank
     \/ stage = "define" /\ Underway /\ Idle /\ untried = {}
     \/ stage = "gates" /\ Established /\ Searching("gate")
     \/ stage = "parameters" /\ Established /\ Searching("parameter") /\ Modelled("gate") \subseteq Permanent
     \/ stage = "expressions" /\ Accepted
     \/ stage = "setup" /\ Validated
     \/ stage = "top events" /\ Validated /\ Collected /\ Replaced
     \/ stage = "ready" /\ ValidAsFound /\ Ready
     \/ stage = "thrown" /\ ~ValidAsFound

LEMMA SameSearch ==
  ASSUME UNCHANGED search
  PROVE  /\ SearchProperties => SearchProperties'
         /\ Idle => Idle'
         /\ args' = args /\ untried' = untried /\ phase' = phase
         /\ UNCHANGED vars
<1>1. UNCHANGED <<args, mark, stack, untried, cycle, phase>>
  BY DEF search
<1>2. \A n : Arguments(n)' = Arguments(n)
  BY <1>1 DEF Arguments
<1>3. SearchProperties => SearchProperties'
  BY <1>1, <1>2 DEF SearchProperties, MarksOnStack, AcceptsOnlyAcyclic, ReportsACycle, Acyclic, IsCycle
<1>4. Idle => Idle'
  BY <1>1 DEF Idle
<1> QED
  BY <1>1, <1>3, <1>4 DEF vars

(* Whoever throws leaves all else as it is.                                *)
LEMMA Throwing ==
  ASSUME InitializerInv, Throw_, ~ValidAsFound
  PROVE  InitializerInv'
<1>1. input' = input /\ stage' = "thrown" /\ UNCHANGED search
  BY DEF Throw_
<1>2. ~ValidAsFound'
  BY <1>1, SameValidity
<1> QED
  BY <1>1, <1>2, SameSearch DEF InitializerInv

LEMMA NotNamed ==
  ASSUME ~WellNamed
  PROVE  ~ValidAsFound
  BY DEF ValidAsFound

(* The first pass.                                                         *)
LEMMA FirstPassStep ==
  ASSUME InitializerInv,
         \/ RegisterElement \/ RegisterCcfGroup \/ ProcessCcfMember \/ AddCcfGroup
         \/ DefineComponent \/ AddComponent
  PROVE  InitializerInv'
<1>1. stage = "register"
  BY DEF RegisterElement, RegisterCcfGroup, ProcessCcfMember, AddCcfGroup, DefineComponent, AddComponent, At
<1>2. input \in Inputs /\ SearchProperties /\ NothingSetUp /\ Registering /\ Blank
  BY <1>1 DEF InitializerInv
<1>3. Proceeds
  BY <1>1, <1>2, RegisterElementStep, RegisterCcfGroupStep, ProcessCcfMemberStep, AddCcfGroupStep, ComponentStep
<1>4. /\ UNCHANGED <<search, set_up>>
      /\ stage' /= "thrown" => UNCHANGED <<formula, used, child>>
  BY DEF RegisterElement, RegisterCcfGroup, ProcessCcfMember, AddCcfGroup, DefineComponent, AddComponent,
         Throw_, Onwards, definitions
<1>5. SearchProperties' /\ Idle' /\ args' = args /\ untried' = untried /\ UNCHANGED <<top_events, proxies>>
  BY <1>2, <1>4, SameSearch DEF Blank, NothingSetUp, set_up
<1>6. CASE stage' = "register" /\ Registering'
  <2>1. Blank'
    BY <1>2, <1>4, <1>5, <1>6 DEF Blank
  <2> QED
    BY <1>2, <1>3, <1>5, <1>6, <2>1 DEF InitializerInv, NothingSetUp, Proceeds
<1>7. CASE stage' = "thrown" /\ ~WellNamed
  <2>1. ~ValidAsFound' /\ input' = input
    BY <1>3, <1>7, NotNamed, SameValidity DEF Proceeds
  <2> QED
    BY <1>2, <1>5, <1>7, <2>1 DEF InitializerInv
<1> QED
  BY <1>3, <1>6, <1>7 DEF Proceeds

LEMMA RegisteredStep ==
  ASSUME InitializerInv, Registered
  PROVE  InitializerInv'
<1>1. /\ stage = "register" /\ position > Len(Document) /\ stage' = "define" /\ position' = 1
      /\ UNCHANGED <<input, registry, definitions, set_up, search>>
  BY DEF Registered
<1>2. input \in Inputs /\ SearchProperties /\ NothingSetUp /\ Registering /\ Blank
  BY <1>1 DEF InitializerInv
<1>3. TablesComplete /\ \A g \in Groups : groups[g] = FreshGroup(g, Size(g))
  BY <1>1, <1>2, AllRegistered
<1>4. Len(tbd) \in Nat /\ DoneUpTo(1, tbd) = {}
  BY <1>2, <1>3, TbdFacts
<1>5. DefinedIn({}, formula, used, args)
  <2>1. args \in [Nodes -> Seq(Nodes)] /\ \A n \in Nodes : args[n] = <<>>
    BY <1>2 DEF Blank, Idle
  <2>2. ArgumentsFound({}, args)
    BY <2>1 DEF ArgumentsFound
  <2>3. used = UNION {AllFound(i) : i \in {j \in {} : Kind(j) /= "ccf"}}
    BY <1>2 DEF Blank
  <2> QED
    BY <1>2, <2>2, <2>3 DEF DefinedIn, Blank
<1>6. FactoredTo(1, 0, tbd, groups)
  BY <1>3, <1>4 DEF FactoredTo
<1>7. Underway'
  <2>1. /\ input' = input /\ UNCHANGED registry /\ groups' = groups /\ formula' = formula /\ used' = used
        /\ args' = args /\ child' = 0
    BY <1>1, <1>2 DEF definitions, search, Blank
  <2>2. position' \in 1..(Len(tbd) + 1)
    BY <1>1, <1>4
  <2>3. DefinedIn(DoneUpTo(position', tbd), formula', used', args')
    BY <1>1, <1>4, <1>5, <2>1
  <2>4. FactoredTo(position', child', tbd, groups')
    BY <1>1, <1>6, <2>1
  <2> QED
    BY <1>3, <2>1, <2>2, <2>3, <2>4, UnderwayNext
<1>8. SearchProperties' /\ Idle' /\ untried' = {} /\ NothingSetUp'
  BY <1>1, <1>2, SameSearch DEF Blank, NothingSetUp, set_up
<1> QED
  BY <1>1, <1>2, <1>7, <1>8 DEF InitializerInv

(* A search that has not begun.                                            *)
LEMMA IdleProperties == Idle => SearchProperties
<1> SUFFICES ASSUME Idle PROVE SearchProperties
  OBVIOUS
<1>1. DOMAIN stack = {} /\ \A n \in Nodes : mark[n] = "clear"
  BY EmptySeq DEF Idle
<1> QED
  BY <1>1 DEF Idle, SearchProperties, MarksOnStack, AcceptsOnlyAcyclic, ReportsACycle

(* The second pass.                                                        *)
LEMMA SecondPassStep ==
  ASSUME InitializerInv,
         DefineGate \/ DefineParameter \/ DefineBasicEvent \/ DefineDistribution \/ DefineCcfFactor
  PROVE  InitializerInv'
<1>1. stage = "define"
  BY DEF DefineGate, DefineParameter, DefineBasicEvent, DefineDistribution, DefineCcfFactor, Defining
<1>2. input \in Inputs /\ SearchProperties /\ NothingSetUp /\ Underway /\ Idle /\ untried = {}
  BY <1>1 DEF InitializerInv
<1>3. Pursues
  BY <1>1, <1>2, DefineGateStep, DefineParameterStep, DefineBasicEventStep, DefineDistributionStep,
     DefineCcfFactorStep
<1>4. UNCHANGED <<mark, stack, untried, cycle, phase, top_events, proxies>>
  BY DEF DefineGate, DefineParameter, DefineBasicEvent, DefineDistribution, DefineCcfFactor,
         Throw_, Onwards, set_up, search
<1>5. CASE stage' = "define" /\ Underway'
  <2>1. (args \in [Nodes -> Seq(Nodes)])'
    BY <1>5 DEF Underway, DefinedIn, ArgumentsFound
  <2>2. Idle'
    BY <1>2, <1>4, <2>1 DEF Idle
  <2>3. SearchProperties'
    BY <2>2, IdleProperties, PTL
  <2> QED
    BY <1>2, <1>3, <1>4, <1>5, <2>2, <2>3 DEF InitializerInv, NothingSetUp, Pursues
<1>6. CASE stage' = "thrown" /\ ~ValidAsFound
  <2>1. ~ValidAsFound' /\ input' = input
    BY <1>3, <1>6, SameValidity DEF Pursues
  <2>2. UNCHANGED search
    BY <1>6, <1>1 DEF DefineGate, DefineParameter, DefineBasicEvent, DefineDistribution, DefineCcfFactor,
         Throw_, Onwards, search
  <2>3. SearchProperties'
    BY <1>2, <2>2, SameSearch
  <2> QED
    BY <1>2, <1>6, <2>1, <2>3 DEF InitializerInv
<1> QED
  BY <1>3, <1>5, <1>6 DEF Pursues

LEMMA DefinedStep ==
  ASSUME InitializerInv, Defined
  PROVE  InitializerInv'
<1>1. /\ stage = "define" /\ position > Len(tbd) /\ stage' = "gates" /\ untried' = Modelled("gate")
      /\ UNCHANGED <<input, position, registry, definitions, set_up, args, mark, stack, cycle, phase>>
  BY DEF Defined
<1>2. input \in Inputs /\ SearchProperties /\ NothingSetUp /\ Underway /\ Idle /\ untried = {}
  BY <1>1 DEF InitializerInv
<1>3. Established
  BY <1>1, <1>2, AllDefined
<1>4. Established'
  BY <1>1, <1>3, EstablishedStays
<1>5. PICK c \in SUBSET Nodes : c = Modelled("gate")
  BY <1>2, <1>3, GraphFound DEF Searched
<1>6. SearchInv({})
  BY <1>2, IdleSearch
<1>7. phase = "search"
  BY <1>2 DEF Idle
<1>8. SearchInv(c)'
  BY <1>1, <1>5, <1>6, <1>7, EnterStep
<1>9. Modelled("gate")' = c
  <2>1. \A i : Kind(i)' = Kind(i)
    BY <1>1, SameEntries
  <2> QED
    BY <1>1, <1>5, <2>1 DEF Modelled, registry
<1>10. Searching("gate")'
  BY <1>1, <1>7, <1>8, <1>9 DEF Searching
<1>11. SearchProperties'
  BY <1>1, <1>7, <1>8 DEF SearchInv, SearchProperties, AcceptsOnlyAcyclic
<1> QED
  BY <1>1, <1>2, <1>4, <1>10, <1>11 DEF InitializerInv, NothingSetUp, set_up

(* The checks for cycles.                                                  *)
LEMMA SameModelled ==
  ASSUME input' = input, model' = model
  PROVE  \A kind : Modelled(kind)' = Modelled(kind)
<1>1. \A i : Kind(i)' = Kind(i)
  BY SameEntries
<1> QED
  BY <1>1 DEF Modelled

LEMMA SearchingStep ==
  ASSUME InitializerInv, SearchStep
  PROVE  InitializerInv'
<1>1. /\ stage \in {"gates", "parameters"}
      /\ CheckCycle \/ ContinueConnector \/ Return \/ Report
      /\ UNCHANGED <<input, stage, position, registry, definitions, set_up>>
  BY DEF SearchStep
<1>2. /\ input \in Inputs /\ NothingSetUp /\ Established
      /\ stage = "gates" => Searching("gate")
      /\ stage = "parameters" => Searching("parameter") /\ Modelled("gate") \subseteq Permanent
  BY <1>1 DEF InitializerInv
<1> DEFINE kind == IF stage = "gates" THEN "gate" ELSE "parameter"
<1>3. PICK c \in SUBSET Nodes : c = Modelled(kind) /\ SearchInv(c)
  BY <1>1, <1>2 DEF Searching
<1>4. SearchInv(c)'
  BY <1>1, <1>3, CheckCycleStep, ContinueStep, ReturnStep, ReportStep
<1>5. Permanent \subseteq Permanent' /\ args' = args /\ phase' \in {"search", "report"}
  BY <1>1, <1>3, PermanentStays
<1>6. /\ \A k : Modelled(k)' = Modelled(k)
      /\ Established'
  <2>1. model' = model
    BY <1>1 DEF registry
  <2> QED
    BY <1>1, <1>2, <1>5, <2>1, SameModelled, EstablishedStays
<1>7. stage = "gates" => Searching("gate")'
  BY <1>3, <1>4, <1>5, <1>6 DEF Searching
<1>8. stage = "parameters" => Searching("parameter")' /\ (Modelled("gate") \subseteq Permanent)'
  BY <1>1, <1>2, <1>3, <1>4, <1>5, <1>6 DEF Searching
<1>9. SearchProperties'
  BY <1>4, <1>5 DEF SearchInv, SearchProperties, AcceptsOnlyAcyclic
<1> QED
  BY <1>1, <1>2, <1>6, <1>7, <1>8, <1>9 DEF InitializerInv, NothingSetUp, set_up

(* A search that is over has left no node of its container without a mark. *)
LEMMA SearchOver ==
  ASSUME NEW c \in SUBSET Nodes, SearchInv(c), phase = "search", stack = <<>>, untried = {}
  PROVE  c \subseteq Permanent
<1>1. /\ mark \in [Nodes -> {"clear", "temporary", "permanent"}]
      /\ \A n \in c : mark[n] /= "clear"
      /\ MarksOnStack
  BY DEF SearchInv, SearchTyped, Tried
<1>2. DOMAIN stack = {}
  BY EmptySeq
<1>3. \A n \in Nodes : mark[n] /= "temporary"
  BY <1>1, <1>2 DEF MarksOnStack
<1> QED
  BY <1>1, <1>3 DEF Permanent

LEMMA GatesCheckedStep ==
  ASSUME InitializerInv, GatesChecked
  PROVE  InitializerInv'
<1>1. /\ stage = "gates" /\ phase = "search" /\ stack = <<>> /\ untried = {}
      /\ stage' = "parameters" /\ untried' = Modelled("parameter")
      /\ UNCHANGED <<input, position, registry, definitions, set_up, args, mark, stack, cycle, phase>>
  BY DEF GatesChecked
<1>2. input \in Inputs /\ NothingSetUp /\ Established /\ Searching("gate")
  BY <1>1 DEF InitializerInv
<1>3. PICK c \in SUBSET Nodes : c = Modelled("gate") /\ SearchInv(c)
  BY <1>2 DEF Searching
<1>4. c \subseteq Permanent
  BY <1>1, <1>3, SearchOver
<1>5. PICK d \in SUBSET Nodes : d = Modelled("parameter")
  BY <1>2, GraphFound DEF Searched
<1>6. SearchInv(d)'
  BY <1>1, <1>3, <1>5, EnterStep
<1>7. /\ \A k : Modelled(k)' = Modelled(k)
      /\ Established'
  <2>1. model' = model
    BY <1>1 DEF registry
  <2> QED
    BY <1>1, <1>2, <2>1, SameModelled, EstablishedStays
<1>8. Searching("parameter")'
  BY <1>1, <1>5, <1>6, <1>7 DEF Searching
<1>9. (Modelled("gate") \subseteq Permanent)'
  BY <1>1, <1>3, <1>4, <1>7 DEF Permanent
<1>10. SearchProperties'
  BY <1>1, <1>6 DEF SearchInv, SearchProperties, AcceptsOnlyAcyclic
<1> QED
  BY <1>1, <1>2, <1>7, <1>8, <1>9, <1>10 DEF InitializerInv, NothingSetUp, set_up

LEMMA CycleFoundStep ==
  ASSUME InitializerInv, CycleFound
  PROVE  InitializerInv'
<1>1. /\ stage \in {"gates", "parameters"} /\ Throw /\ stage' = "thrown"
      /\ UNCHANGED <<input, position, registry, definitions, set_up>>
  BY DEF CycleFound
<1>2. input \in Inputs /\ Established /\ (Searching("gate") \/ Searching("parameter"))
  BY <1>1 DEF InitializerInv
<1>3. PICK c \in SUBSET Nodes : SearchInv(c)
  BY <1>2 DEF Searching
<1>4. SearchInv(c)'
  BY <1>1, <1>3, ThrowStep
<1>5. phase' = "cycle" /\ UNCHANGED <<args, cycle>>
  BY <1>1 DEF Throw
<1>6. IsCycle(cycle) /\ cycle \in Seq(Nodes)
  <2>1. IsCycle(cycle)'
    BY <1>4, <1>5 DEF SearchInv, ReportsACycle
  <2>2. \A n : Arguments(n)' = Arguments(n)
    BY <1>5 DEF Arguments
  <2> QED
    BY <1>3, <1>5, <2>1, <2>2 DEF IsCycle, SearchInv, SearchTyped
<1>7. ~ValidAsFound
  <2>1. PICK path \in Seq(Nodes) : path = cycle
    BY <1>6
  <2> QED
    BY <1>2, <1>6, <2>1, CycleMeans
<1>8. ~ValidAsFound'
  BY <1>1, <1>7, SameValidity
<1>9. SearchProperties'
  BY <1>4, <1>5 DEF SearchInv, SearchProperties, AcceptsOnlyAcyclic
<1> QED
  BY <1>1, <1>2, <1>8, <1>9 DEF InitializerInv

LEMMA ParametersCheckedStep ==
  ASSUME InitializerInv, ParametersChecked
  PROVE  InitializerInv'
<1>1. /\ stage = "parameters" /\ Accept /\ stage' = "expressions"
      /\ UNCHANGED <<input, position, registry, definitions, set_up>>
  BY DEF ParametersChecked
<1>2. /\ input \in Inputs /\ NothingSetUp /\ Established
      /\ Searching("parameter") /\ Modelled("gate") \subseteq Permanent
  BY <1>1 DEF InitializerInv
<1>3. PICK c \in SUBSET Nodes : c = Modelled("parameter") /\ SearchInv(c)
  BY <1>2 DEF Searching
<1>4. SearchInv(c)'
  BY <1>1, <1>3, AcceptStep
<1>5. /\ phase = "search" /\ stack = <<>> /\ untried = {} /\ phase' = "acyclic"
      /\ UNCHANGED <<args, mark, stack, untried, cycle>>
  BY <1>1 DEF Accept
<1>6. c \subseteq Permanent /\ Acyclic(Permanent)
  BY <1>3, <1>5, SearchOver DEF SearchInv
<1>7. Acyclic(Nodes)
  <2> SUFFICES ASSUME NEW part \in (SUBSET Nodes) \ {{}}
               PROVE  \E n \in part : Arguments(n) \cap part = {}
    BY DEF Acyclic
  <2>1. CASE part \subseteq Permanent
    BY <1>6, <2>1 DEF Acyclic
  <2>2. CASE ~(part \subseteq Permanent)
    <3>1. PICK n \in part : n \notin Permanent
      BY <2>2
    <3>2. ~(n \in Elements /\ Kind(n) \in Searched)
      <4>1. n \in Elements /\ Kind(n) \in Searched => n \in Modelled("gate") \/ n \in Modelled("parameter")
        BY <1>2, GraphFound DEF Searched
      <4> QED
        BY <1>2, <1>3, <1>6, <3>1, <4>1
    <3>3. Arguments(n) = {}
      BY <1>2, <3>2, GraphFound
    <3> QED
      BY <3>3
  <2> QED
    BY <2>1, <2>2
<1>8. Acyclic(Nodes)'
  <2>1. \A n : Arguments(n)' = Arguments(n)
    BY <1>5 DEF Arguments
  <2> QED
    BY <1>7, <2>1 DEF Acyclic
<1>9. Established'
  BY <1>1, <1>2, <1>5, EstablishedStays
<1>10. SearchProperties'
  BY <1>5, <1>8 DEF SearchProperties, MarksOnStack, AcceptsOnlyAcyclic, ReportsACycle
<1> QED
  BY <1>1, <1>2, <1>5, <1>8, <1>9, <1>10 DEF InitializerInv, Accepted, NothingSetUp, set_up

-----------------------------------------------------------------------------
(* What follows the checks for cycles.                                     *)
LEMMA AcceptedStays ==
  ASSUME input' = input, UNCHANGED <<registry, definitions, args, phase>>, Accepted
  PROVE  /\ Accepted'
         /\ Groups' = Groups /\ groups' = groups
         /\ Validated => Validated'
         /\ UNCHANGED <<stack, cycle>> => SearchProperties'
<1>1. Established' /\ groups' = groups /\ Groups' = Groups
  BY EstablishedStays, SameFactored DEF Accepted, definitions
<1>2. \A n : Arguments(n)' = Arguments(n)
  BY DEF Arguments
<1>3. Accepted'
  BY <1>1, <1>2 DEF Accepted, Acyclic
<1>4. Validated => Validated'
  BY <1>1, <1>3 DEF Validated
<1>5. SearchProperties'
  BY <1>3 DEF Accepted, SearchProperties, MarksOnStack, AcceptsOnlyAcyclic, ReportsACycle
<1> QED
  BY <1>1, <1>3, <1>4, <1>5

LEMMA ValidateCcfGroupsStep ==
  ASSUME InitializerInv, ValidateCcfGroups
  PROVE  InitializerInv'
<1>1. stage = "expressions"
  BY DEF ValidateCcfGroups
<1>2. input \in Inputs /\ NothingSetUp /\ Accepted
  BY <1>1 DEF InitializerInv
<1>3. DOMAIN groups = Groups /\ \A g \in Groups : Factored(g, Len(Document[g].factors), groups[g])
  BY <1>2 DEF Accepted, Established, TablesComplete
<1>4. CASE \A g \in DOMAIN groups : IsValidGroup(groups[g])
  <2>1. stage' = "setup" /\ UNCHANGED <<input, position, registry, definitions, set_up, search>>
    BY <1>4 DEF ValidateCcfGroups
  <2>2. UNCHANGED <<args, phase, mark, stack, cycle>>
    BY <2>1 DEF search
  <2>3. Validated
    BY <1>2, <1>3, <1>4 DEF Validated
  <2>4. Validated' /\ SearchProperties'
    BY <1>2, <2>1, <2>2, <2>3, AcceptedStays, SameSearch DEF InitializerInv
  <2> QED
    BY <1>2, <2>1, <2>4 DEF InitializerInv, NothingSetUp, set_up
<1>5. CASE ~\A g \in DOMAIN groups : IsValidGroup(groups[g])
  <2>1. Throw_
    BY <1>5 DEF ValidateCcfGroups
  <2>2. PICK g \in Groups : ~IsValidGroup(groups[g])
    BY <1>3, <1>5
  <2>3. ~Replaceable(g)
    BY <1>2, <1>3, <2>2, ValidGroup
  <2>4. ~ValidAsFound
    BY <2>3, NotFactored
  <2> QED
    BY <2>1, <2>4, Throwing
<1> QED
  BY <1>4, <1>5

(* Gates of a tree are known by the documents and the tables alone.        *)
LEMMA TreesStay ==
  ASSUME input' = input, UNCHANGED <<registry, definitions>>
  PROVE  /\ FaultTrees' = FaultTrees
         /\ \A kind : Modelled(kind)' = Modelled(kind)
         /\ \A tree : GatesOf(tree)' = GatesOf(tree) /\ GatesOnTop(tree)' = GatesOnTop(tree)
<1>1. /\ model' = model /\ contents' = contents /\ Document' = Document
      /\ \A i : Kind(i)' = Kind(i) /\ Parent(i)' = Parent(i) /\ AllFound(i)' = AllFound(i)
  BY SameEntries, SameMeaning DEF registry
<1>2. FaultTrees' = FaultTrees
  BY <1>1 DEF FaultTrees
<1>3. \A kind : Modelled(kind)' = Modelled(kind)
  BY <1>1, SameModelled
<1>4. \A tree : GatesOf(tree)' = GatesOf(tree)
  BY <1>1 DEF GatesOf, Document, Parent, Kind
<1>5. \A tree : GatesOnTop(tree)' = GatesOnTop(tree)
  BY <1>1, <1>4 DEF GatesOnTop
<1> QED
  BY <1>2, <1>3, <1>4, <1>5

LEMMA SetupForAnalysisStep ==
  ASSUME InitializerInv, SetupForAnalysis
  PROVE  InitializerInv'
<1>1. /\ stage = "setup" /\ stage' = "top events"
      /\ mark' = [n \in Nodes |-> IF n \in Modelled("gate") THEN "clear" ELSE mark[n]]
      /\ UNCHANGED <<input, position, registry, definitions, set_up, args, stack, untried, cycle, phase>>
  BY DEF SetupForAnalysis
<1>2. input \in Inputs /\ NothingSetUp /\ Validated
  BY <1>1 DEF InitializerInv
<1>3. Validated' /\ SearchProperties'
  BY <1>1, <1>2, AcceptedStays DEF Validated
<1>4. Modelled("gate")' = Modelled("gate") /\ Modelled("gate") \subseteq Nodes
  BY <1>1, <1>2, TreesStay, GraphFound DEF Validated, Accepted, Searched
<1>5. DOMAIN top_events' = {} /\ DOMAIN proxies' = {}
  <2>1. top_events' = <<>> /\ proxies' = <<>>
    BY <1>1, <1>2 DEF NothingSetUp, set_up
  <2> QED
    BY <2>1, EmptySeq
<1>6. Collected'
  BY <1>1, <1>4, <1>5 DEF Collected
<1>7. Replaced'
  BY <1>5 DEF Replaced
<1> QED
  BY <1>1, <1>2, <1>3, <1>6, <1>7 DEF InitializerInv

(* Without marks the gates that are passed over are the arguments of       *)
(* others.                                                                 *)
LEMMA TopOfTree ==
  ASSUME input \in Inputs, Established, \A n \in Modelled("gate") : mark[n] = "clear", NEW tree
  PROVE  GatesOf(tree) \ NonTopGates(GatesOf(tree)) = GatesOnTop(tree)
<1>1. ASSUME NEW g \in GatesOf(tree) PROVE g \in Elements /\ Kind(g) = "gate" /\ g \in Modelled("gate")
  BY GraphFound DEF GatesOf, Established, TablesComplete, Searched
<1>2. ASSUME NEW g \in GatesOf(tree), NEW h \in GatesOf(tree)
      PROVE  mark[h] = "clear" /\ (g \in Arguments(h) <=> g \in AllFound(h))
  <2>1. Arguments(h) = {x \in AllFound(h) : Kind(x) = Kind(h)}
    BY <1>1, GraphFound DEF Searched
  <2> QED
    BY <1>1, <2>1
<1> QED
  BY <1>2 DEF NonTopGates, GatesOnTop

LEMMA CollectTopEventsStep ==
  ASSUME InitializerInv, CollectTopEvents
  PROVE  InitializerInv'
<1>1. PICK tree \in FaultTrees :
        /\ top_events' =
             [t \in DOMAIN top_events \cup {tree} |->
                IF t = tree THEN GatesOf(tree) \ NonTopGates(GatesOf(tree)) ELSE top_events[t]]
        /\ mark' = [n \in Nodes |-> IF n \in GatesOf(tree) THEN "clear" ELSE mark[n]]
  BY DEF CollectTopEvents
<1>2. /\ stage = "top events"
      /\ UNCHANGED <<input, stage, position, registry, definitions, proxies, args, stack, untried, cycle, phase>>
  BY DEF CollectTopEvents
<1>3. input \in Inputs /\ Validated /\ Collected /\ Replaced
  BY <1>2 DEF InitializerInv
<1>4. Validated' /\ SearchProperties' /\ Groups' = Groups /\ groups' = groups
  BY <1>2, <1>3, AcceptedStays DEF Validated
<1>5. /\ Modelled("gate")' = Modelled("gate") /\ Modelled("gate") \subseteq Nodes
      /\ \A t : GatesOnTop(t)' = GatesOnTop(t)
  BY <1>2, <1>3, TreesStay, GraphFound DEF Validated, Accepted, Searched
<1>6. GatesOf(tree) \ NonTopGates(GatesOf(tree)) = GatesOnTop(tree)
  BY <1>3, TopOfTree DEF Validated, Accepted, Collected
<1>7. Collected'
  <2>1. (\A n \in Modelled("gate") : mark[n] = "clear")'
    BY <1>1, <1>3, <1>5 DEF Collected
  <2>2. (\A t \in DOMAIN top_events : top_events[t] = GatesOnTop(t))'
    BY <1>1, <1>3, <1>5, <1>6 DEF Collected
  <2> QED
    BY <2>1, <2>2 DEF Collected
<1>8. Replaced'
  BY <1>2, <1>3, <1>4, SameFactors DEF Replaced
<1> QED
  BY <1>2, <1>3, <1>4, <1>7, <1>8 DEF InitializerInv

LEMMA ApplyModelStep ==
  ASSUME InitializerInv, ApplyModel
  PROVE  InitializerInv'
<1>1. stage = "top events"
  BY DEF ApplyModel
<1>2. PICK g \in DOMAIN groups :
        IF \E m \in Members(g) : \A e, f \in Proxied(CcfEvents(groups[g]), m) : e = f
        THEN Throw_
        ELSE /\ proxies' = [m \in DOMAIN proxies \cup Members(g) |->
                              IF m \in Members(g) THEN Proxied(CcfEvents(groups[g]), m) ELSE proxies[m]]
             /\ UNCHANGED <<input, stage, position, registry, definitions, top_events, search>>
  BY DEF ApplyModel
<1>3. input \in Inputs /\ SearchProperties /\ Validated /\ Collected /\ Replaced
  BY <1>1 DEF InitializerInv
<1>4. g \in Groups /\ Factored(g, Len(Document[g].factors), groups[g])
  BY <1>3 DEF Validated, Accepted, Established, TablesComplete
<1>5. Members(g) = MembersMeant(g)
  BY <1>3, <1>4, CombinationsOfGroup DEF Members
<1>6. HighestLevel(g) \in Nat \ {0}
  BY <1>3, <1>4, HighestFacts
<1> DEFINE alone == \E m \in MembersMeant(g) : \A e, f \in Proxied(CcfEvents(groups[g]), m) : e = f
<1>7. alone <=> HighestLevel(g) = 1
  BY <1>3, <1>4, ProxyGates
<1>8. CASE alone
  <2>1. Throw_
    BY <1>2, <1>5, <1>8
  <2>2. ~Replaceable(g)
    BY <1>3, <1>4, <1>7, <1>8, ValidGroup
  <2> QED
    BY <1>4, <2>1, <2>2, NotFactored, Throwing
<1>9. CASE ~alone
  <2>1. /\ proxies' = [m \in DOMAIN proxies \cup MembersMeant(g) |->
                         IF m \in MembersMeant(g) THEN Proxied(CcfEvents(groups[g]), m) ELSE proxies[m]]
        /\ UNCHANGED <<input, stage, position, registry, definitions, top_events, search>>
    BY <1>2, <1>5, <1>9
  <2>2. HighestLevel(g) >= 2
    BY <1>6, <1>7, <1>9
  <2>3. UNCHANGED <<args, mark, stack, cycle, phase>>
    BY <2>1 DEF search
  <2>4. Validated' /\ SearchProperties' /\ Groups' = Groups /\ groups' = groups
    BY <1>3, <2>1, <2>3, AcceptedStays DEF Validated
  <2>5. Collected'
    BY <1>3, <2>1, <2>3, TreesStay DEF Collected
  <2>6. \A h : MembersMeant(h)' = MembersMeant(h) /\ HighestLevel(h)' = HighestLevel(h)
    BY <2>1, SameFactors
  <2>7. Replaced'
    <3> SUFFICES ASSUME NEW m \in DOMAIN proxies'
                 PROVE  \E h \in Groups : /\ m \in MembersMeant(h) /\ HighestLevel(h) >= 2
                                          /\ proxies'[m] = Proxied(CcfEvents(groups[h]), m)
      BY <2>4, <2>6 DEF Replaced
    <3>1. CASE m \in MembersMeant(g)
      BY <1>4, <2>1, <2>2, <3>1
    <3>2. CASE m \notin MembersMeant(g)
      BY <1>3, <2>1, <3>2 DEF Replaced
    <3> QED
      BY <3>1, <3>2
  <2> QED
    BY <1>1, <1>3, <2>1, <2>4, <2>5, <2>7 DEF InitializerInv
<1> QED
  BY <1>8, <1>9

(* The members of a group are those that no other has.                     *)
LEMMA GroupOfMember ==
  ASSUME input \in Inputs, NEW g \in Groups, NEW m \in MembersMeant(g),
         NEW h \in Groups, m \in MembersMeant(h)
  PROVE  h = g
  BY DEF MembersMeant

LEMMA EventsOfGroups ==
  ASSUME input \in Inputs, Validated, Replaced, \A g \in DOMAIN groups : Members(g) \subseteq DOMAIN proxies
  PROVE  /\ \A g \in Groups : /\ HighestLevel(g) >= 2
                              /\ \A m \in MembersMeant(g) : proxies[m] = Proxied(CcfEvents(groups[g]), m)
         /\ EventsCombined
<1>1. /\ DOMAIN groups = Groups
      /\ \A g \in Groups : Factored(g, Len(Document[g].factors), groups[g])
  BY DEF Validated, Accepted, Established, TablesComplete
<1>2. \A g \in Groups : Members(g) = MembersMeant(g)
  BY <1>1, CombinationsOfGroup DEF Members
<1>3. ASSUME NEW g \in Groups, NEW m \in MembersMeant(g)
      PROVE  HighestLevel(g) >= 2 /\ proxies[m] = Proxied(CcfEvents(groups[g]), m)
  <2>1. m \in DOMAIN proxies
    BY <1>1, <1>2
  <2>2. PICK h \in Groups : /\ m \in MembersMeant(h) /\ HighestLevel(h) >= 2
                            /\ proxies[m] = Proxied(CcfEvents(groups[h]), m)
    BY <2>1 DEF Replaced
  <2>3. h = g
    BY <2>2, GroupOfMember
  <2> QED
    BY <2>2, <2>3
<1>4. \A g \in Groups : MembersMeant(g) /= {}
  <2> TAKE g \in Groups
  <2>1. g \in Nat /\ Size(g) \in Nat \ {0} /\ MembersMeant(g) = (g + 1)..(g + Size(g))
    BY GroupNumbers
  <2>2. g + 1 \in MembersMeant(g)
    BY <2>1
  <2> QED
    BY <2>2
<1>5. ASSUME NEW g \in Groups, NEW m \in MembersMeant(g)
      PROVE  /\ {e.members : e \in proxies[m]} =
                  {S \in SUBSET MembersMeant(g) : m \in S /\ Cardinality(S) \in LevelsTaken(g)}
             /\ \A e \in proxies[m] : \A other \in e.members : e \in proxies[other]
  <2>1. proxies[m] = Proxied(CcfEvents(groups[g]), m)
    BY <1>3
  <2>2. {e.members : e \in proxies[m]} =
          {S \in SUBSET MembersMeant(g) : m \in S /\ Cardinality(S) \in LevelsTaken(g)}
    BY <1>1, <2>1, CombinationsOfGroup
  <2>3. ASSUME NEW e \in proxies[m], NEW other \in e.members PROVE e \in proxies[other]
    <3>1. e \in CcfEvents(groups[g])
      BY <2>1 DEF Proxied
    <3>2. other \in MembersMeant(g)
      BY <1>1, <3>1, CombinationsOfGroup
    <3> QED
      BY <1>3, <3>1, <3>2 DEF Proxied
  <2> QED
    BY <2>2, <2>3
<1>6. EventsCombined
  BY <1>5 DEF EventsCombined, Groups, LevelsTaken
<1> QED
  BY <1>3, <1>4, <1>6

LEMMA ReadyStays ==
  ASSUME input' = input, UNCHANGED <<registry, definitions, set_up>>, Ready
  PROVE  Ready'
<1>1. /\ Document' = Document /\ Elements' = Elements
      /\ \A i : Kind(i)' = Kind(i) /\ Parent(i)' = Parent(i)
      /\ \A i, ref : Found(i, ref)' = Found(i, ref)
      /\ \A i : AllFound(i)' = AllFound(i)
      /\ \A g : MembersMeant(g)' = MembersMeant(g) /\ HighestLevel(g)' = HighestLevel(g)
  BY SameEntries, SameMeaning, SameFactors
<1>2. formula' = formula /\ used' = used /\ top_events' = top_events /\ proxies' = proxies
  BY DEF definitions, set_up
<1>3. DefinitionsAsFound'
  BY <1>1, <1>2 DEF Ready, DefinitionsAsFound, Definable, Follows
<1>4. \A tree : GatesOf(tree)' = GatesOf(tree)
  BY TreesStay
<1>5. TopEventsOnTop'
  BY <1>1, <1>2, <1>4 DEF Ready, TopEventsOnTop
<1>6. EventsCombined'
  BY <1>1, <1>2 DEF Ready, EventsCombined
<1> QED
  BY <1>3, <1>5, <1>6 DEF Ready

(* The documents are valid if all checks have passed.                      *)
LEMMA InitializedStep ==
  ASSUME InitializerInv, Initialized
  PROVE  InitializerInv'
<1>1. /\ stage = "top events" /\ FaultTrees = DOMAIN top_events
      /\ \A g \in DOMAIN groups : Members(g) \subseteq DOMAIN proxies
      /\ stage' = "ready"
      /\ UNCHANGED <<input, position, registry, definitions, set_up, search>>
  BY DEF Initialized
<1>2. input \in Inputs /\ SearchProperties /\ Validated /\ Collected /\ Replaced
  BY <1>1 DEF InitializerInv
<1>3. /\ TablesComplete /\ DefinedIn(Deferred, formula, used, args)
      /\ \A g \in Groups : Factored(g, Len(Document[g].factors), groups[g]) /\ IsValidGroup(groups[g])
      /\ Established /\ Acyclic(Nodes)
  BY <1>2 DEF Validated, Accepted, Established
<1>4. Definable = {i \in Deferred : Kind(i) /= "ccf"}
  BY DEF Definable, Deferred
<1>5. (\A g \in Groups : HighestLevel(g) >= 2) /\ EventsCombined
  BY <1>1, <1>2, EventsOfGroups
<1>6. ValidAsFound
  <2>1. WellNamed
    BY <1>3 DEF TablesComplete
  <2>2. \A i \in Definable : DefinedAsFound(i)
    BY <1>3, <1>4 DEF DefinedIn
  <2>3. \A g \in {i \in Elements : Kind(i) = "ccf"} : Replaceable(g)
    BY <1>2, <1>3, <1>5, ValidGroup DEF Groups
  <2>4. NoCycleFound("gate") /\ NoCycleFound("parameter")
    BY <1>2, <1>3, AcyclicMeans
  <2> QED
    BY <2>1, <2>2, <2>3, <2>4 DEF ValidAsFound
<1>7. DefinitionsAsFound
  BY <1>3, <1>4 DEF DefinitionsAsFound, DefinedIn
<1>8. TopEventsOnTop
  <2>1. FaultTrees = {i \in Elements : Kind(i) = "component" /\ Parent(i) = 0}
    BY <1>3 DEF FaultTrees, TablesComplete, InTables
  <2>2. ASSUME NEW tree, NEW h \in GatesOf(tree) PROVE ToSet(formula[h]) = AllFound(h)
    <3>1. h \in Elements /\ Kind(h) = "gate"
      BY <1>3, GraphFound DEF GatesOf, Established, TablesComplete, Searched
    <3>2. h \in Definable
      BY <3>1 DEF Definable
    <3> QED
      BY <1>7, <3>2, FollowedFound DEF DefinitionsAsFound
  <2>3. \A tree \in DOMAIN top_events : top_events[tree] = GatesOnTop(tree)
    BY <1>2 DEF Collected
  <2>4. ASSUME NEW tree
        PROVE  GatesOnTop(tree) =
                 {g \in GatesOf(tree) : \A h \in GatesOf(tree) : g \notin ToSet(formula[h])}
    BY <2>2 DEF GatesOnTop
  <2> QED
    BY <1>1, <2>1, <2>3, <2>4 DEF TopEventsOnTop
<1>9. Ready'
  BY <1>1, <1>5, <1>7, <1>8, ReadyStays DEF Ready
<1>10. ValidAsFound' /\ SearchProperties'
  BY <1>1, <1>2, <1>6, SameValidity, SameSearch
<1> QED
  BY <1>1, <1>2, <1>9, <1>10 DEF InitializerInv

LEMMA UnchangedStep ==
  ASSUME InitializerInv, UNCHANGED all_vars
  PROVE  InitializerInv'
<1>1. UNCHANGED <<input, stage, position, registry, definitions, set_up, search>>
  BY DEF all_vars
<1>2. /\ UNCHANGED <<model, paths, contents, tbd, formula, used, groups, child, top_events, proxies>>
      /\ UNCHANGED <<args, mark, stack, untried, cycle, phase>>
  BY <1>1 DEF registry, definitions, set_up, search
<1>3. SearchProperties' /\ input' \in Inputs /\ (ValidAsFound' <=> ValidAsFound)
  BY <1>1, SameSearch, SameValidity DEF InitializerInv
<1>4. CASE stage = "register"
  <2>1. input \in Inputs /\ NothingSetUp /\ Registering /\ Blank
    BY <1>4 DEF InitializerInv
  <2>2. Registering'
    BY <1>1, <1>2, <2>1, RegisteringNext DEF Registering
  <2>3. Blank'
    BY <1>1, <1>2, <2>1, SameSearch DEF Blank
  <2> QED
    BY <1>1, <1>2, <1>3, <1>4, <2>1, <2>2, <2>3 DEF InitializerInv, NothingSetUp
<1>5. CASE stage = "define"
  <2>1. input \in Inputs /\ NothingSetUp /\ Underway /\ Idle /\ untried = {}
    BY <1>5 DEF InitializerInv
  <2>2. Underway'
    BY <1>1, <1>2, <2>1, UnderwayNext DEF Underway
  <2>3. Idle'
    BY <1>1, <2>1, SameSearch
  <2> QED
    BY <1>1, <1>2, <1>3, <1>5, <2>1, <2>2, <2>3 DEF InitializerInv, NothingSetUp
<1>6. CASE stage \in {"gates", "parameters"}
  <2>1. NothingSetUp /\ Established
    BY <1>6 DEF InitializerInv
  <2>2. Established' /\ \A kind : Modelled(kind)' = Modelled(kind)
    BY <1>1, <1>2, <2>1, EstablishedStays, TreesStay
  <2>3. ASSUME NEW kind, Searching(kind) PROVE Searching(kind)'
    <3>1. PICK c \in SUBSET Nodes : c = Modelled(kind) /\ SearchInv(c)
      BY <2>3 DEF Searching
    <3>2. SearchInv(c)'
      BY <1>2, <3>1, StutterStep DEF vars
    <3> QED
      BY <1>2, <2>2, <2>3, <3>1, <3>2 DEF Searching
  <2>4. Permanent' = Permanent
    BY <1>2 DEF Permanent
  <2> QED
    BY <1>1, <1>2, <1>3, <1>6, <2>1, <2>2, <2>3, <2>4 DEF InitializerInv, NothingSetUp
<1>7. CASE stage \in {"expressions", "setup", "top events"}
  <2>1. Accepted
    BY <1>7 DEF InitializerInv, Validated
  <2>2. /\ Accepted' /\ Groups' = Groups /\ groups' = groups
        /\ Validated => Validated'
    BY <1>1, <1>2, <2>1, AcceptedStays
  <2>3. Collected => Collected'
    BY <1>1, <1>2, TreesStay DEF Collected
  <2>4. Replaced => Replaced'
    BY <1>1, <1>2, <2>2, SameFactors DEF Replaced
  <2> QED
    BY <1>1, <1>2, <1>3, <1>7, <2>2, <2>3, <2>4 DEF InitializerInv, NothingSetUp
<1>8. CASE stage = "ready"
  <2>1. Ready
    BY <1>8 DEF InitializerInv
  <2>2. Ready'
    BY <1>1, <2>1, ReadyStays
  <2> QED
    BY <1>1, <1>3, <1>8, <2>2 DEF InitializerInv
<1>9. CASE stage = "thrown"
  BY <1>1, <1>3, <1>9 DEF InitializerInv
<1> QED
  BY <1>4, <1>5, <1>6, <1>7, <1>8, <1>9 DEF InitializerInv

(* Nothing is known before the first entry.                                *)
LEMMA InitialState ==
  ASSUME InitializerInit
  PROVE  InitializerInv
<1>1. /\ input \in Inputs /\ stage = "register" /\ position = 1
      /\ model = {} /\ paths = {} /\ contents = {} /\ tbd = <<>> /\ groups = <<>>
      /\ args \in Graphs /\ mark = [n \in Nodes |-> "clear"]
  BY DEF InitializerInit
<1>2. args \in [Nodes -> Seq(Nodes)] /\ \A n \in Nodes : args[n] = <<>>
  BY <1>1, GraphsAssumption, InputsAssumption
<1>3. Idle /\ Blank /\ NothingSetUp
  BY <1>2 DEF InitializerInit, Idle, Blank, NothingSetUp
<1>4. Len(Document) \in Nat
  BY <1>1, InDocument
<1>5. \A i \in Elements : ~(i < 1) /\ ~(Listing(i) < 1)
  <2>1. \A i \in Elements : i \in Nat \ {0} /\ Listing(i) \in Nat /\ Listing(i) >= i
    BY <1>1, ListingFacts, EntryFacts DEF Elements
  <2> QED
    BY <2>1
<1>6. /\ ModelUpTo(1) = {} /\ PathsUpTo(1) = {} /\ ListedUpTo(1) = {}
      /\ DeferredUpTo(1) = {} /\ GroupsUpTo(1) = {}
  BY <1>5 DEF ModelUpTo, PathsUpTo, ListedUpTo, DeferredUpTo, GroupsUpTo, ModelTable, PathTable, Deferred
<1>7. DOMAIN groups = {} /\ tbd \in Seq({}) /\ Len(tbd) = 0
  BY <1>1, EmptySeq
<1>8. Enumerates(tbd, {})
  BY <1>7 DEF Enumerates
<1>9. Registering
  <2>1. 1 \in 1..(Len(Document) + 1)
    BY <1>4
  <2>2. DistinctIds({}) /\ NothingPrivate({}) /\ DistinctNames({}) /\ KeepsPaths({}, {})
    BY DEF DistinctIds, NothingPrivate, DistinctNames, KeepsPaths
  <2> QED
    BY <1>1, <1>6, <1>7, <1>8, <2>1, <2>2 DEF Registering, RegisteredTo
<1> QED
  BY <1>1, <1>3, <1>9, IdleProperties DEF InitializerInv

-----------------------------------------------------------------------------
LEMMA DocumentsInvariance == InitializerSpec => []InitializerInv
<1>1. InitializerInit => InitializerInv
  BY InitialState
<1>2. ASSUME InitializerInv, [InitializerNext]_all_vars
      PROVE  InitializerInv'
  <2>1. CASE ProcessInputFile
    BY <1>2, <2>1, FirstPassStep, RegisteredStep DEF ProcessInputFile
  <2>2. CASE ProcessTbdElements
    BY <1>2, <2>2, SecondPassStep, DefinedStep DEF ProcessTbdElements
  <2>3. CASE ValidateInitialization
    BY <1>2, <2>3, SearchingStep, GatesCheckedStep, CycleFoundStep, ParametersCheckedStep,
       ValidateCcfGroupsStep DEF ValidateInitialization
  <2>4. CASE SetupForAnalysis \/ CollectTopEvents \/ ApplyModel \/ Initialized
    BY <1>2, <2>4, SetupForAnalysisStep, CollectTopEventsStep, ApplyModelStep, InitializedStep
  <2>5. CASE Concluded \/ UNCHANGED all_vars
    BY <1>2, <2>5, UnchangedStep DEF Concluded
  <2> QED
    BY <1>2, <2>1, <2>2, <2>3, <2>4, <2>5 DEF InitializerNext
<1> QED
  BY <1>1, <1>2, PTL DEF InitializerSpec

(* A model gets ready only if its documents are valid, and what is thrown  *)
(* is thrown at documents that are not, in whatever order they define what *)
(* they refer to (initializer.cc:178, 569), but for references to members  *)
(* of CCF groups by path (initializer.cc:1237) and for groups with one     *)
(* level of factors (ccf_group.cc:151).                                    *)
THEOREM AcceptsValidDocuments == InitializerSpec => []AcceptsExactlyValid
<1>1. ASSUME InitializerInv PROVE AcceptsExactlyValid
  <2>1. /\ input \in Inputs
        /\ stage = "ready" => ValidAsFound
        /\ stage = "thrown" => ~ValidAsFound
    BY <1>1 DEF InitializerInv
  <2> QED
    BY <2>1, ValidAsMeant DEF AcceptsExactlyValid
<1> QED
  BY <1>1, DocumentsInvariance, PTL

(* References are followed to what they mean by scope, unless that is a    *)
(* member of a CCF group that is overlooked, the top events of a tree are  *)
(* the gates that no other of it needs, and CCF members fail with every    *)
(* combination that their model has a level for                            *)
(* (initializer.cc:1663, fault_tree.cc:63-99, ccf_group.cc:89-115).        *)
THEOREM ReadyAsMeant ==
  InitializerSpec =>
    [](stage = "ready" => DefinitionsAsMeant /\ TopEventsOnTop /\ EventsCombined)
<1>1. ASSUME InitializerInv, stage = "ready"
      PROVE  DefinitionsAsMeant /\ TopEventsOnTop /\ EventsCombined
  <2>1. input \in Inputs /\ WellNamed /\ DefinitionsAsFound /\ TopEventsOnTop /\ EventsCombined
    BY <1>1 DEF InitializerInv, Ready, ValidAsFound
  <2>2. \A i \in Definable : i \in DOMAIN Document /\ Kind(i) /= "end"
    BY DEF Definable, Elements
  <2>3. ASSUME NEW i \in Definable, NEW k \in DOMAIN Document[i].refs,
               ~Overlooks(i, Document[i].refs[k])
        PROVE  {formula[i][k]} = Meant(i, Document[i].refs[k])
    <3>1. {formula[i][k]} = Found(i, Document[i].refs[k])
      BY <2>1 DEF DefinitionsAsFound, Follows
    <3>2. Found(i, Document[i].refs[k]) = Meant(i, Document[i].refs[k])
      BY <2>1, <2>2, <2>3, FoundAsMeant
    <3> QED
      BY <3>1, <3>2
  <2>4. \A i \in Definable : ToSet(formula[i]) = AllFound(i)
    BY <2>1, FollowedFound DEF DefinitionsAsFound
  <2>5. used = UNION {ToSet(formula[i]) : i \in Definable}
    BY <2>1, <2>4 DEF DefinitionsAsFound
  <2> QED
    BY <2>1, <2>3, <2>5 DEF DefinitionsAsMeant
<1> QED
  BY <1>1, DocumentsInvariance, PTL

(* The check for cycles marks, accepts and reports as it should in the     *)
(* graphs of the documents, the parameters after the gates                 *)
(* (initializer.cc:1442, 1585, cycle.h:131).                               *)
THEOREM CyclesOfDocuments == InitializerSpec => [](MarksOnStack /\ AcceptsOnlyAcyclic /\ ReportsACycle)
<1>1. InitializerInv => MarksOnStack /\ AcceptsOnlyAcyclic /\ ReportsACycle
  BY DEF InitializerInv, SearchProperties
<1> QED
  BY <1>1, DocumentsInvariance, PTL
=============================================================================
