--------------------------- MODULE DocumentProofs ---------------------------
(***************************************************************************)
(* What the documents of a model say, by the paths, roles and places of    *)
(* their entries, that the lookup of references (initializer.cc:1291)      *)
(* finds one element at most in documents that are well named, and when    *)
(* that is what they mean.                                                 *)
(***************************************************************************)
EXTENDS Initializer, FiniteSetTheorems, SequenceTheorems, WellFoundedInduction, TLAPS

-----------------------------------------------------------------------------
(* What is found for a reference: what it means, but for the members of CCF*)
(* groups, which have no path (initializer.cc:1237).                       *)
Found(i, ref) ==
  LET fitting == {j \in Elements : \E t \in DOMAIN Tables(ref.type) : Kind(j) \in Tables(ref.type)[t]}
      At_(path) == {j \in fitting : Kind(j) /= "ccf-member" /\ Path(j) = path}
  IN IF Parent(i) /= 0 /\ At_(BasePath(i) \o ref.path) /= {} THEN At_(BasePath(i) \o ref.path)
     ELSE IF Len(ref.path) > 1 THEN At_(ref.path)
     ELSE {j \in fitting : RoleOf(j) = "public" /\ <<Name(j)>> = ref.path}

AllFound(i) == UNION {Found(i, Document[i].refs[k]) : k \in DOMAIN Document[i].refs}

(* What is valid for a program that goes by this and needs a second level  *)
(* of factors for the proxies of members (ccf_group.cc:151).               *)
DefinedAsFound(i) ==
  LET entry == Document[i]
  IN /\ \A k \in DOMAIN entry.refs : Found(i, entry.refs[k]) /= {}
     /\ Kind(i) = "gate" =>
          /\ Cardinality(AllFound(i)) = Len(entry.refs)
          /\ ValidConnective(entry.connective, entry.min, Len(entry.refs))
     /\ Kind(i) = "basic-event" /\ input.probability_analysis => entry.expression

NoCycleFound(kind) ==
  \A part \in (SUBSET {i \in Elements : Kind(i) = kind}) \ {{}} :
    \E i \in part : AllFound(i) \cap part = {}

Replaceable(g) == WellFactored(g) /\ HighestLevel(g) >= 2

ValidAsFound ==
  /\ WellNamed
  /\ \A i \in Definable : DefinedAsFound(i)
  /\ \A g \in {i \in Elements : Kind(i) = "ccf"} : Replaceable(g)
  /\ NoCycleFound("gate") /\ NoCycleFound("parameter")

(* What is found for the references of an element, one each.               *)
Follows(i, given) ==
  /\ given = [k \in DOMAIN Document[i].refs |-> given[k]]
  /\ \A k \in DOMAIN Document[i].refs : {given[k]} = Found(i, Document[i].refs[k])

-----------------------------------------------------------------------------
(* Every set of numbers has a least one: this takes the place of induction.*)
LEMMA LeastOf ==
  ASSUME NEW T, T \subseteq Nat, T /= {}
  PROVE  \E x \in T : \A y \in T : x <= y
<1>1. PICK x \in T : \A y \in T : ~(<<y, x>> \in OpToRel(<, Nat))
  BY WFMin, NatLessThanWellFounded
<1>2. \A y \in T : ~(y < x)
  BY <1>1 DEF OpToRel
<1>3. \A y \in T : x <= y
  BY <1>2
<1> QED
  BY <1>3

(* Induction up to a number, over a set.                                   *)
LEMMA UpTo ==
  ASSUME NEW n \in Nat, NEW S,
         \A j \in 0..n : (\A k \in 0..(j - 1) : k \in S) => j \in S
  PROVE  \A j \in 0..n : j \in S
<1> DEFINE T == {j \in 0..n : j \notin S}
<1> SUFFICES ASSUME T /= {} PROVE FALSE
  OBVIOUS
<1>1. T \subseteq Nat
  OBVIOUS
<1>2. PICK x \in T : \A y \in T : x <= y
  <2> HIDE DEF T
  <2> QED
    BY <1>1, LeastOf
<1>3. \A k \in 0..(x - 1) : k \in S
  BY <1>2
<1> QED
  BY <1>2, <1>3

IsEarlier(before, n) == before \in [1..n -> Nat] /\ \A j \in 1..n : before[j] < j

IsUnfolding(f, n, V, base, before, step) ==
  /\ f \in [0..n -> V]
  /\ f[0] = base
  /\ \A j \in 1..n : f[j] = step[j][f[before[j]]]

(* A value for the empty place and a step for every other place, from the  *)
(* value of an earlier one, give a function.                               *)
LEMMA Recursion ==
  ASSUME NEW n \in Nat, NEW V, NEW base \in V, NEW before, IsEarlier(before, n),
         NEW step \in [1..n -> [V -> V]]
  PROVE  \E f : IsUnfolding(f, n, V, base, before, step)
<1>0. before \in [1..n -> Nat] /\ \A j \in 1..n : before[j] < j
  BY DEF IsEarlier
<1> DEFINE Built(m) == \E f \in [0..m -> V] :
             f[0] = base /\ \A j \in 1..m : f[j] = step[j][f[before[j]]]
           S == {m \in 0..n : Built(m)}
<1>1. ASSUME NEW m \in 0..n, \A k \in 0..(m - 1) : k \in S
      PROVE  m \in S
  <2>1. CASE m = 0
    <3>1. [j \in 0..0 |-> base] \in [0..m -> V]
      BY <2>1
    <3>2. Built(m)
      <4> WITNESS [j \in 0..0 |-> base] \in [0..m -> V]
      <4> QED
        BY <2>1
    <3> QED
      BY <3>2
  <2>2. CASE m > 0
    <3>1. m - 1 \in S
      <4>1. m - 1 \in 0..(m - 1)
        BY <2>2
      <4> HIDE DEF S
      <4> QED
        BY <1>1, <4>1
    <3>2. PICK f \in [0..(m - 1) -> V] :
            f[0] = base /\ \A j \in 1..(m - 1) : f[j] = step[j][f[before[j]]]
      BY <3>1
    <3>3. before[m] \in 0..(m - 1) /\ m \in 1..n
      BY <1>0, <2>2
    <3>4. f[before[m]] \in V
      BY <3>2, <3>3
    <3>5. step[m][f[before[m]]] \in V
      BY <3>3, <3>4
    <3> DEFINE g == [j \in 0..m |-> IF j = m THEN step[m][f[before[m]]] ELSE f[j]]
    <3>6. \A j \in 0..m : j = m \/ j \in 0..(m - 1)
      OBVIOUS
    <3>7. g \in [0..m -> V]
      BY <3>2, <3>5, <3>6
    <3>8. g[0] = base
      BY <2>2, <3>2
    <3>9. ASSUME NEW j \in 1..m PROVE g[j] = step[j][g[before[j]]]
      <4>1. before[j] \in 0..(m - 1) /\ j \in 0..m /\ j \in 1..n
        BY <1>0, <2>2
      <4>2. g[before[j]] = f[before[j]]
        BY <4>1
      <4>3. CASE j = m
        BY <4>1, <4>2, <4>3
      <4>4. CASE j /= m
        <5>1. j \in 1..(m - 1)
          BY <4>4
        <5>2. g[j] = f[j]
          BY <4>1, <4>4
        <5> QED
          BY <3>2, <4>2, <5>1, <5>2
      <4> QED
        BY <4>3, <4>4
    <3> HIDE DEF g
    <3>10. Built(m)
      BY <3>7, <3>8, <3>9
    <3> QED
      BY <3>10
  <2> QED
    BY <2>1, <2>2
<1>2. n \in S
  <2> HIDE DEF S
  <2>1. \A j \in 0..n : j \in S
    BY <1>1, UpTo
  <2> QED
    BY <2>1
<1> QED
  BY <1>2 DEF IsUnfolding

-----------------------------------------------------------------------------
(* The kinds of elements with a definition of their own.                   *)
Proper == {"gate", "basic-event", "house-event", "parameter"}

Components == {i \in DOMAIN Document : Kind(i) = "component"}

(* What definitions are in: the model or a component.                      *)
Scopes == {0} \cup Components

(* The entry that ends a component or a group.                             *)
EndOf(i) == CHOOSE e \in DOMAIN Document : Kind(e) = "end" /\ Parent(e) = i

LEMMA InDocument ==
  ASSUME input \in Inputs
  PROVE  /\ Len(Document) \in Nat /\ DOMAIN Document = 1..Len(Document)
         /\ DOMAIN Document \subseteq Nodes
         /\ \A i \in DOMAIN Document : WellFormedEntry(Document, i)
  BY InputsAssumption DEF Document

(* What the schema says of an entry.                                       *)
LEMMA EntryFacts ==
  ASSUME input \in Inputs, NEW i \in DOMAIN Document
  PROVE  /\ i \in Nat \ {0} /\ i <= Len(Document)
         /\ Kind(i) \in Kinds /\ Document[i].role \in {"", "public", "private"}
         /\ Parent(i) \in 0..(i - 1)
         /\ Kind(i) /= "end" => Parent(i) \in Scopes
         /\ Kind(i) \in {"ccf", "ccf-member"} => Document[i].role = ""
         /\ Kind(i) = "component" /\ Parent(i) = 0 => Document[i].role = ""
         /\ Kind(i) = "end" => Parent(i) \in DOMAIN Document /\ Kind(Parent(i)) \in {"component", "ccf"}
<1>1. /\ Len(Document) \in Nat /\ DOMAIN Document = 1..Len(Document)
      /\ WellFormedEntry(Document, i)
  BY InDocument
<1>2. i \in Nat \ {0} /\ i <= Len(Document)
  BY <1>1
<1>3. Kind(i) \in Kinds /\ Document[i].role \in {"", "public", "private"} /\ Parent(i) \in 0..(i - 1)
  BY <1>1 DEF WellFormedEntry, Kind, Parent
<1>4. Parent(i) /= 0 => Parent(i) \in DOMAIN Document
  <2>1. PICK n \in Nat : DOMAIN Document = 1..n /\ i \in 1..n
    BY <1>1
  <2>2. PICK p \in 0..(i - 1) : p = Parent(i)
    BY <1>3
  <2>3. p /= 0 => p \in 1..n
    BY <2>1
  <2> QED
    BY <2>1, <2>2, <2>3
<1>5. Kind(i) /= "end" => Parent(i) = 0 \/ Kind(Parent(i)) = "component"
  BY <1>1 DEF WellFormedEntry, Kind, Parent
<1>6. Kind(i) = "end" => Parent(i) /= 0 /\ Kind(Parent(i)) \in {"component", "ccf"}
  BY <1>1 DEF WellFormedEntry, Kind, Parent
<1>7. Kind(i) \in {"ccf", "ccf-member"} \/ (Kind(i) = "component" /\ Parent(i) = 0) => Document[i].role = ""
  BY <1>1 DEF WellFormedEntry, Kind, Parent
<1> QED
  BY <1>2, <1>3, <1>4, <1>5, <1>6, <1>7 DEF Scopes, Components

LEMMA ParentFacts ==
  ASSUME input \in Inputs
  PROVE  /\ \A i \in DOMAIN Document :
              /\ i \in 1..Len(Document) /\ i \in 0..Len(Document) /\ i /= 0 /\ i \in Nat
              /\ Parent(i) \in 0..Len(Document) /\ Parent(i) \in 0..(i - 1) /\ Parent(i) < i
              /\ Parent(i) \in Nat /\ Parent(i) /= 0 => Parent(i) \in DOMAIN Document
         /\ \A i \in 0..Len(Document) : i /= 0 => i \in DOMAIN Document
         /\ 0 \in 0..Len(Document) /\ 0 \notin DOMAIN Document
<1>1. PICK n \in Nat : n = Len(Document) /\ DOMAIN Document = 1..n
  BY InDocument
<1>2. ASSUME NEW i \in 1..n
      PROVE  /\ i \in 0..n /\ i /= 0 /\ i \in Nat
             /\ Parent(i) \in 0..n /\ Parent(i) \in 0..(i - 1) /\ Parent(i) < i
             /\ Parent(i) \in Nat /\ Parent(i) /= 0 => Parent(i) \in 1..n
  <2>1. PICK p \in 0..(i - 1) : p = Parent(i)
    BY <1>1, EntryFacts
  <2> QED
    BY <2>1
<1>3. \A i \in 0..n : i /= 0 => i \in 1..n
  OBVIOUS
<1>4. 0 \in 0..n /\ 0 \notin 1..n
  OBVIOUS
<1> QED
  BY <1>1, <1>2, <1>3, <1>4

(* A component or a group ends once, after it began.                       *)
LEMMA EndFacts ==
  ASSUME input \in Inputs, NEW i \in DOMAIN Document, Kind(i) \in {"component", "ccf"}
  PROVE  /\ EndOf(i) \in DOMAIN Document /\ Kind(EndOf(i)) = "end" /\ Parent(EndOf(i)) = i
         /\ EndOf(i) > i
         /\ \A e \in DOMAIN Document : Kind(e) = "end" /\ Parent(e) = i => e = EndOf(i)
<1>1. WellFormedEntry(Document, i)
  BY InDocument
<1>2. \E e \in DOMAIN Document :
        /\ Kind(e) = "end" /\ Parent(e) = i
        /\ \A f \in DOMAIN Document : Kind(f) = "end" /\ Parent(f) = i => f = e
  BY <1>1 DEF WellFormedEntry, Kind, Parent
<1>3. EndOf(i) \in DOMAIN Document /\ Kind(EndOf(i)) = "end" /\ Parent(EndOf(i)) = i
  BY <1>2 DEF EndOf
<1>4. EndOf(i) > i
  <2>1. EndOf(i) \in Nat /\ Parent(EndOf(i)) \in 0..(EndOf(i) - 1) /\ i \in Nat
    BY <1>3, EntryFacts
  <2> QED
    BY <1>3, <2>1
<1> QED
  BY <1>2, <1>3, <1>4

-----------------------------------------------------------------------------
(* The members of a group are the entries between it and its end.          *)
LEMMA GroupFacts ==
  ASSUME input \in Inputs, NEW g \in DOMAIN Document, Kind(g) = "ccf"
  PROVE  /\ EndOf(g) > g + 1
         /\ \A i \in (g + 1)..(EndOf(g) - 1) : i \in DOMAIN Document /\ Kind(i) = "ccf-member"
<1>1. WellFormedEntry(Document, g) /\ DOMAIN Document = 1..Len(Document) /\ Len(Document) \in Nat
  BY InDocument
<1>2. \A e \in DOMAIN Document : Kind(e) = "end" /\ Parent(e) = g =>
        e > g + 1 /\ \A j \in (g + 1)..(e - 1) : Kind(j) = "ccf-member"
  BY <1>1 DEF WellFormedEntry, Kind, Parent
<1>3. EndOf(g) \in DOMAIN Document /\ Kind(EndOf(g)) = "end" /\ Parent(EndOf(g)) = g
  BY EndFacts
<1>4. EndOf(g) > g + 1 /\ \A j \in (g + 1)..(EndOf(g) - 1) : Kind(j) = "ccf-member"
  BY <1>2, <1>3
<1> QED
  BY <1>1, <1>3, <1>4

(* The group of a member: it stands before the member, with members only   *)
(* in between, in the same scope; it has not ended.                        *)
LEMMA MemberFacts ==
  ASSUME input \in Inputs, NEW i \in DOMAIN Document, Kind(i) = "ccf-member"
  PROVE  /\ GroupOf(i) \in DOMAIN Document /\ Kind(GroupOf(i)) = "ccf"
         /\ GroupOf(i) < i /\ i < EndOf(GroupOf(i))
         /\ Parent(GroupOf(i)) = Parent(i)
         /\ \A j \in (GroupOf(i) + 1)..i : Kind(j) = "ccf-member"
         /\ \A g \in DOMAIN Document :
              Kind(g) = "ccf" /\ g < i /\ i < EndOf(g) => GroupOf(i) = g
<1>1. /\ WellFormedEntry(Document, i) /\ i \in Nat \ {0} /\ Len(Document) \in Nat
      /\ DOMAIN Document = 1..Len(Document)
  BY InDocument, EntryFacts
<1>2. PICK g \in 1..(i - 1) :
        /\ Kind(g) = "ccf" /\ Parent(g) = Parent(i)
        /\ \A j \in (g + 1)..i : Kind(j) = "ccf-member"
  BY <1>1 DEF WellFormedEntry, Kind, Parent
<1>3. ASSUME NEW h \in 1..i, Kind(h) = "ccf", \A j \in (h + 1)..i : Kind(j) /= "ccf"
      PROVE  h = g
  <2>1. CASE h > g
    <3>1. h \in (g + 1)..i
      BY <2>1
    <3> QED
      BY <1>2, <1>3, <3>1
  <2>2. CASE h < g
    <3>1. g \in (h + 1)..i
      BY <1>1, <2>2
    <3> QED
      BY <1>2, <1>3, <3>1
  <2> QED
    BY <1>1, <1>2, <2>1, <2>2
<1>4. GroupOf(i) = g
  <2>1. g \in 1..i /\ \A j \in (g + 1)..i : Kind(j) /= "ccf"
    BY <1>1, <1>2
  <2>2. \E h \in 1..i : Kind(h) = "ccf" /\ \A j \in (h + 1)..i : Kind(j) /= "ccf"
    BY <1>2, <2>1
  <2>3. GroupOf(i) \in 1..i /\ Kind(GroupOf(i)) = "ccf" /\ \A j \in (GroupOf(i) + 1)..i : Kind(j) /= "ccf"
    BY <2>2 DEF GroupOf
  <2> QED
    BY <1>3, <2>3
<1>5. g \in DOMAIN Document
  BY <1>1
<1>6. i < EndOf(g)
  <2>1. EndOf(g) > g /\ Kind(EndOf(g)) = "end" /\ EndOf(g) \in DOMAIN Document
    BY <1>2, <1>5, EndFacts
  <2>2. SUFFICES ASSUME EndOf(g) <= i PROVE FALSE
    BY <1>1, <2>1
  <2>3. EndOf(g) \in (g + 1)..i
    BY <1>1, <2>1, <2>2
  <2> QED
    BY <1>2, <2>1, <2>3
<1>7. ASSUME NEW h \in DOMAIN Document, Kind(h) = "ccf", h < i, i < EndOf(h)
      PROVE  h = g
  <2>1. h \in 1..i /\ EndOf(h) \in Nat
    BY <1>1, <1>7, EndFacts
  <2>2. ASSUME NEW j \in (h + 1)..i PROVE Kind(j) /= "ccf"
    <3>1. j \in (h + 1)..(EndOf(h) - 1)
      BY <1>1, <1>7, <2>1
    <3> QED
      BY <1>7, <3>1, GroupFacts
  <2> QED
    BY <1>3, <1>7, <2>1, <2>2
<1>8. g < i
  BY <1>1
<1> QED
  BY <1>2, <1>4, <1>5, <1>6, <1>7, <1>8

-----------------------------------------------------------------------------
Names == {Name(i) : i \in DOMAIN Document}

(* The path of an entry is that of what it is in and its name.             *)
LEMMA PathFacts ==
  ASSUME input \in Inputs
  PROVE  /\ Path(0) = <<>>
         /\ \A i \in DOMAIN Document : Path(i) = Append(Path(Parent(i)), Name(i))
         /\ \A i \in 0..Len(Document) : Path(i) \in Seq(Names)
<1> DEFINE n == Len(Document)
           V == Seq(Names)
           before == [j \in 1..n |-> Parent(j)]
           step == [j \in 1..n |-> [s \in V |-> Append(s, Name(j))]]
           path == CHOOSE path : path = [j \in 0..n |->
                     IF j = 0 THEN <<>> ELSE Append(path[Parent(j)], Name(j))]
<1>1. n \in Nat /\ DOMAIN Document = 1..n
  BY InDocument
<1>2. \A j \in 1..n : Parent(j) \in 0..(j - 1) /\ Parent(j) \in Nat /\ Parent(j) < j /\ Parent(j) \in 0..n
  <2>1. \A j \in 1..n : Parent(j) \in 0..(j - 1)
    BY <1>1, EntryFacts
  <2> QED
    BY <1>1, <2>1
<1>3. <<>> \in V
  BY EmptySeq
<1>4. ASSUME NEW j \in 1..n, NEW s \in V PROVE Append(s, Name(j)) \in V
  <2>1. Name(j) \in Names
    BY <1>1 DEF Names
  <2> QED
    BY <2>1, AppendProperties
<1>5. step \in [1..n -> [V -> V]]
  <2> HIDE DEF V, n, path
  <2> QED
    BY <1>4
<1>6. IsEarlier(before, n)
  BY <1>2 DEF IsEarlier
<1>7. PICK f : IsUnfolding(f, n, V, <<>>, before, step)
  <2> HIDE DEF step, before, V, n, path
  <2> QED
    BY <1>1, <1>3, <1>5, <1>6, Recursion
<1>8. \A j \in 1..n : f[j] = Append(f[Parent(j)], Name(j))
  <2> SUFFICES ASSUME NEW j \in 1..n PROVE f[j] = Append(f[Parent(j)], Name(j))
    OBVIOUS
  <2>1. f[Parent(j)] \in V /\ before[j] = Parent(j)
    BY <1>2, <1>7 DEF IsUnfolding
  <2>2. step[j][f[Parent(j)]] = Append(f[Parent(j)], Name(j))
    BY <2>1
  <2> QED
    BY <1>7, <2>1, <2>2 DEF IsUnfolding
<1>9. f = [j \in 0..n |-> IF j = 0 THEN <<>> ELSE Append(f[Parent(j)], Name(j))]
  <2>1. \A j \in 0..n : j = 0 \/ j \in 1..n
    BY <1>1
  <2>2. \A j \in 0..n : f[j] = IF j = 0 THEN <<>> ELSE Append(f[Parent(j)], Name(j))
    BY <1>1, <1>7, <1>8, <2>1 DEF IsUnfolding
  <2>3. f \in [0..n -> V]
    BY <1>7 DEF IsUnfolding
  <2> HIDE DEF V, n
  <2> QED
    BY <2>2, <2>3
<1>10. path = [j \in 0..n |-> IF j = 0 THEN <<>> ELSE Append(path[Parent(j)], Name(j))]
  <2> HIDE DEF V, n
  <2> QED
    BY <1>9
<1>11. \A i : Path(i) = path[i]
  BY DEF Path
<1> HIDE DEF path
<1>12. Path(0) = <<>> /\ \A i \in 1..n : Path(i) = Append(Path(Parent(i)), Name(i))
  <2>1. path[0] = <<>>
    BY <1>1, <1>10
  <2>2. \A j \in 1..n : path[j] = Append(path[Parent(j)], Name(j))
    <3>1. \A j \in 1..n : j \in 0..n /\ j /= 0
      BY <1>1
    <3> HIDE DEF n
    <3> QED
      BY <1>10, <3>1
  <2> QED
    BY <1>11, <2>1, <2>2
<1> DEFINE S == {i \in 0..n : Path(i) \in V}
<1>13. ASSUME NEW j \in 0..n, \A k \in 0..(j - 1) : k \in S
       PROVE  j \in S
  <2>1. CASE j = 0
    BY <1>3, <1>12, <2>1
  <2>2. CASE j /= 0
    <3>1. j \in 1..n
      BY <1>1, <2>2
    <3>2. Path(Parent(j)) \in V
      BY <1>2, <1>13, <3>1
    <3> QED
      BY <1>4, <1>12, <3>1, <3>2
  <2> QED
    BY <2>1, <2>2
<1>14. \A j \in 0..n : j \in S
  <2> HIDE DEF S, n
  <2> QED
    BY <1>1, <1>13, UpTo
<1> QED
  BY <1>1, <1>12, <1>14

(* The role of an entry is its own or that of what it is in.               *)
LEMMA RoleFacts ==
  ASSUME input \in Inputs
  PROVE  /\ RoleOf(0) = "public"
         /\ \A i \in DOMAIN Document :
              RoleOf(i) = IF Document[i].role /= "" THEN Document[i].role ELSE RoleOf(Parent(i))
         /\ \A i \in 0..Len(Document) : RoleOf(i) \in {"public", "private"}
<1> DEFINE n == Len(Document)
           V == {"public", "private"}
           before == [j \in 1..n |-> Parent(j)]
           step == [j \in 1..n |-> [s \in V |->
                      IF Document[j].role /= "" THEN Document[j].role ELSE s]]
           role == CHOOSE role : role = [j \in 0..n |->
                     IF j = 0 THEN "public"
                     ELSE IF Document[j].role /= "" THEN Document[j].role ELSE role[Parent(j)]]
<1>1. n \in Nat /\ DOMAIN Document = 1..n
  BY InDocument
<1>2. \A j \in 1..n : Parent(j) \in 0..(j - 1) /\ Parent(j) \in Nat /\ Parent(j) < j /\ Parent(j) \in 0..n
  <2>1. \A j \in 1..n : Parent(j) \in 0..(j - 1)
    BY <1>1, EntryFacts
  <2> QED
    BY <1>1, <2>1
<1>3. \A j \in 1..n : Document[j].role \in {"", "public", "private"}
  BY <1>1, EntryFacts
<1>4. step \in [1..n -> [V -> V]]
  <2> HIDE DEF n, role
  <2> QED
    BY <1>3
<1>5. IsEarlier(before, n)
  BY <1>2 DEF IsEarlier
<1>6. PICK f : IsUnfolding(f, n, V, "public", before, step)
  <2>1. "public" \in V
    OBVIOUS
  <2> HIDE DEF step, before, V, n, role
  <2> QED
    BY <1>1, <1>4, <1>5, <2>1, Recursion
<1>7. \A j \in 1..n : f[j] = IF Document[j].role /= "" THEN Document[j].role ELSE f[Parent(j)]
  <2> SUFFICES ASSUME NEW j \in 1..n
               PROVE  f[j] = IF Document[j].role /= "" THEN Document[j].role ELSE f[Parent(j)]
    OBVIOUS
  <2>1. f[Parent(j)] \in V /\ before[j] = Parent(j)
    BY <1>2, <1>6 DEF IsUnfolding
  <2>2. step[j][f[Parent(j)]] = IF Document[j].role /= "" THEN Document[j].role ELSE f[Parent(j)]
    BY <2>1
  <2> QED
    BY <1>6, <2>1, <2>2 DEF IsUnfolding
<1>8. f = [j \in 0..n |-> IF j = 0 THEN "public"
             ELSE IF Document[j].role /= "" THEN Document[j].role ELSE f[Parent(j)]]
  <2>1. \A j \in 0..n : j = 0 \/ j \in 1..n
    BY <1>1
  <2>2. \A j \in 0..n : f[j] = IF j = 0 THEN "public"
             ELSE IF Document[j].role /= "" THEN Document[j].role ELSE f[Parent(j)]
    BY <1>1, <1>6, <1>7, <2>1 DEF IsUnfolding
  <2>3. f \in [0..n -> V]
    BY <1>6 DEF IsUnfolding
  <2> HIDE DEF V, n
  <2> QED
    BY <2>2, <2>3
<1>9. role = [j \in 0..n |-> IF j = 0 THEN "public"
                ELSE IF Document[j].role /= "" THEN Document[j].role ELSE role[Parent(j)]]
  <2> HIDE DEF V, n
  <2> QED
    BY <1>8
<1>10. \A i : RoleOf(i) = role[i]
  BY DEF RoleOf
<1> HIDE DEF role
<1>11. /\ RoleOf(0) = "public"
       /\ \A i \in 1..n :
            RoleOf(i) = IF Document[i].role /= "" THEN Document[i].role ELSE RoleOf(Parent(i))
  <2>1. role[0] = "public"
    <3>1. 0 \in 0..n
      BY <1>1
    <3> HIDE DEF n
    <3> QED
      BY <1>9, <3>1
  <2>2. \A j \in 1..n :
          role[j] = IF Document[j].role /= "" THEN Document[j].role ELSE role[Parent(j)]
    <3>1. \A j \in 1..n : j \in 0..n /\ j /= 0
      BY <1>1
    <3> HIDE DEF n
    <3> QED
      BY <1>9, <3>1
  <2> QED
    BY <1>10, <2>1, <2>2
<1> DEFINE S == {i \in 0..n : RoleOf(i) \in V}
<1>12. ASSUME NEW j \in 0..n, \A k \in 0..(j - 1) : k \in S
       PROVE  j \in S
  <2>1. CASE j = 0
    BY <1>11, <2>1
  <2>2. CASE j /= 0
    <3>1. j \in 1..n
      BY <1>1, <2>2
    <3>2. RoleOf(Parent(j)) \in V
      BY <1>2, <1>12, <3>1
    <3> QED
      BY <1>3, <1>11, <3>1, <3>2
  <2> QED
    BY <2>1, <2>2
<1>13. \A j \in 0..n : j \in S
  <2> HIDE DEF S, n
  <2> QED
    BY <1>1, <1>12, UpTo
<1> QED
  BY <1>1, <1>11, <1>13

-----------------------------------------------------------------------------
(* Only the model has an empty path.                                       *)
LEMMA EmptyPath ==
  ASSUME input \in Inputs, NEW i \in 0..Len(Document)
  PROVE  /\ Len(Path(i)) \in Nat
         /\ Path(i) = <<>> <=> i = 0
         /\ i /= 0 => Len(Path(i)) = Len(Path(Parent(i))) + 1
<1>1. /\ Len(Document) \in Nat /\ DOMAIN Document = 1..Len(Document)
      /\ Path(0) = <<>> /\ \A k \in 0..Len(Document) : Path(k) \in Seq(Names)
  BY InDocument, PathFacts
<1>2. Len(Path(i)) \in Nat
  BY <1>1, LenProperties
<1>3. CASE i = 0
  BY <1>1, <1>2, <1>3
<1>4. CASE i /= 0
  <2>1. i \in DOMAIN Document
    BY <1>4, ParentFacts
  <2>2. Parent(i) \in 0..Len(Document)
    BY <2>1, ParentFacts
  <2>3. Path(i) = Append(Path(Parent(i)), Name(i)) /\ Name(i) \in Names /\ Path(Parent(i)) \in Seq(Names)
    BY <1>1, <2>1, <2>2, PathFacts DEF Names
  <2>4. Len(Path(i)) = Len(Path(Parent(i))) + 1 /\ Len(Path(Parent(i))) \in Nat
    BY <2>3, AppendProperties, LenProperties
  <2>5. Path(i) /= <<>>
    BY <2>4, EmptySeq
  <2> QED
    BY <1>2, <1>4, <2>4, <2>5
<1> QED
  BY <1>3, <1>4

(* Equal paths have equal last names and are in scopes of equal paths.     *)
LEMMA EqualPaths ==
  ASSUME input \in Inputs, NEW i \in DOMAIN Document, NEW j \in DOMAIN Document
  PROVE  Path(i) = Path(j) <=> Path(Parent(i)) = Path(Parent(j)) /\ Name(i) = Name(j)
<1>1. Len(Document) \in Nat /\ DOMAIN Document = 1..Len(Document)
  BY InDocument
<1>2. Parent(i) \in 0..Len(Document) /\ Parent(j) \in 0..Len(Document)
  BY ParentFacts
<1>3. /\ Path(i) = Append(Path(Parent(i)), Name(i)) /\ Path(j) = Append(Path(Parent(j)), Name(j))
      /\ Path(Parent(i)) \in Seq(Names) /\ Path(Parent(j)) \in Seq(Names)
      /\ Name(i) \in Names /\ Name(j) \in Names
  BY <1>2, PathFacts DEF Names
<1> QED
  BY <1>3, AppendInjective

(* Ids: the name of a public entry, the path of a private one.             *)
LEMMA IdFacts ==
  ASSUME input \in Inputs, NEW i \in DOMAIN Document
  PROVE  /\ RoleOf(i) \in {"public", "private"}
         /\ RoleOf(i) = "public" => Id(i) = <<Name(i)>> /\ Len(Id(i)) = 1
         /\ RoleOf(i) = "private" => Id(i) = Path(i)
         /\ RoleOf(i) = "private" /\ Parent(i) /= 0 => Len(Id(i)) /= 1
<1>1. /\ Len(Document) \in Nat /\ DOMAIN Document = 1..Len(Document)
      /\ i \in 0..Len(Document) /\ i /= 0
  BY InDocument, ParentFacts
<1>2. Parent(i) \in 0..Len(Document)
  BY ParentFacts
<1>3. RoleOf(i) \in {"public", "private"}
  BY <1>1, RoleFacts
<1>4. Parent(i) /= 0 => Len(Path(i)) /= 1
  <2>1. Len(Path(i)) = Len(Path(Parent(i))) + 1 /\ Len(Path(Parent(i))) \in Nat
    BY <1>1, <1>2, EmptyPath
  <2>2. Parent(i) /= 0 => Len(Path(Parent(i))) = Len(Path(Parent(Parent(i)))) + 1
    BY <1>2, EmptyPath
  <2>3. Parent(i) /= 0 => Parent(Parent(i)) \in 0..Len(Document)
    BY <1>2, ParentFacts
  <2>4. Parent(i) /= 0 => Len(Path(Parent(Parent(i)))) \in Nat
    BY <2>3, EmptyPath
  <2> QED
    BY <2>1, <2>2, <2>4
<1> QED
  BY <1>3, <1>4 DEF Id

(* Members of a group and groups have the role of their scope; what is in  *)
(* the model and not an element of its own is public.                      *)
LEMMA InheritedRole ==
  ASSUME input \in Inputs, NEW i \in DOMAIN Document
  PROVE  /\ Kind(i) \in {"ccf", "ccf-member"} => RoleOf(i) = RoleOf(Parent(i))
         /\ Kind(i) \in {"ccf", "ccf-member", "component"} /\ Parent(i) = 0 => RoleOf(i) = "public"
  BY EntryFacts, RoleFacts

(* Entries of one scope and role have equal ids exactly if their names are *)
(* equal.                                                                  *)
LEMMA SameScope ==
  ASSUME input \in Inputs, NEW i \in DOMAIN Document, NEW j \in DOMAIN Document,
         Parent(i) = Parent(j), RoleOf(i) = RoleOf(j)
  PROVE  Id(i) = Id(j) <=> Name(i) = Name(j)
<1>1. CASE RoleOf(i) = "public"
  BY <1>1 DEF Id
<1>2. CASE RoleOf(i) /= "public"
  BY <1>2, EqualPaths DEF Id
<1> QED
  BY <1>1, <1>2

-----------------------------------------------------------------------------
(* In documents that are well named, no two scopes have the same path.     *)
LEMMA ScopesByPath ==
  ASSUME input \in Inputs, WellNamed
  PROVE  \A i, j \in Scopes : Path(i) = Path(j) => i = j
<1> DEFINE n == Len(Document)
           S == {i \in 0..n : i \in Scopes => \A j \in Scopes : Path(i) = Path(j) => i = j}
<1>1. n \in Nat /\ Scopes \subseteq 0..n
  <2>1. \A i \in Scopes : i = 0 \/ i \in DOMAIN Document
    BY DEF Scopes, Components
  <2> QED
    BY <2>1, InDocument, ParentFacts
<1>2. ASSUME NEW i \in 0..n, \A k \in 0..(i - 1) : k \in S
      PROVE  i \in S
  <2> SUFFICES ASSUME i \in Scopes, NEW j \in Scopes, Path(i) = Path(j) PROVE i = j
    OBVIOUS
  <2>1. CASE i = 0
    <3>1. Path(j) = <<>>
      BY <2>1, PathFacts
    <3> QED
      BY <1>1, <2>1, <3>1, EmptyPath
  <2>2. CASE i /= 0
    <3>1. j /= 0
      BY <1>1, <2>2, EmptyPath, PathFacts
    <3>2. /\ i \in DOMAIN Document /\ j \in DOMAIN Document
          /\ Kind(i) = "component" /\ Kind(j) = "component"
      BY <2>2, <3>1 DEF Scopes, Components
    <3>3. Path(Parent(i)) = Path(Parent(j)) /\ Name(i) = Name(j)
      BY <3>2, EqualPaths
    <3>4. Parent(i) \in Scopes /\ Parent(j) \in Scopes /\ Parent(i) \in 0..(i - 1)
      BY <3>2, EntryFacts
    <3>5. Parent(i) \in S
      BY <1>2, <3>4
    <3>6. Parent(i) = Parent(j)
      BY <3>3, <3>4, <3>5
    <3>7. i \in Elements /\ j \in Elements
      BY <3>2 DEF Elements
    <3> QED
      BY <3>2, <3>3, <3>6, <3>7 DEF WellNamed
  <2> QED
    BY <2>1, <2>2
<1>3. \A i \in 0..n : i \in S
  <2> HIDE DEF S, n
  <2> QED
    BY <1>1, <1>2, UpTo
<1> QED
  BY <1>1, <1>3

(* No more have two elements of kinds with a table in common.              *)
LEMMA ElementsByPath ==
  ASSUME input \in Inputs, WellNamed, NEW i \in Elements, NEW j \in Elements,
         Space(Kind(i)) = Space(Kind(j)), Path(i) = Path(j)
  PROVE  i = j
<1>1. i \in DOMAIN Document /\ j \in DOMAIN Document /\ Kind(i) /= "end" /\ Kind(j) /= "end"
  BY DEF Elements
<1>2. Path(Parent(i)) = Path(Parent(j)) /\ Name(i) = Name(j)
  BY <1>1, EqualPaths
<1>3. Parent(i) \in Scopes /\ Parent(j) \in Scopes
  BY <1>1, EntryFacts
<1>4. Parent(i) = Parent(j)
  BY <1>2, <1>3, ScopesByPath
<1> QED
  BY <1>2, <1>4 DEF WellNamed

Types == {"event", "gate", "basic-event", "house-event", "parameter"}

(* Elements of a kind that a type of references stands for.                *)
Fitting(type, set) == {j \in set : \E t \in DOMAIN Tables(type) : Kind(j) \in Tables(type)[t]}

LEMMA TableFacts ==
  ASSUME NEW type \in Types
  PROVE  /\ DOMAIN Tables(type) \subseteq Int
         /\ \A s, t \in DOMAIN Tables(type) : \A kind \in Tables(type)[s] \cap Tables(type)[t] : s = t
         /\ \A t \in DOMAIN Tables(type) : \A kind \in Tables(type)[t] :
              /\ kind \in {"gate", "basic-event", "ccf-member", "house-event", "parameter"}
              /\ type = "parameter" => kind = "parameter"
              /\ type /= "parameter" => kind \in Events
         /\ \A kind : (\E t \in DOMAIN Tables(type) : kind \in Tables(type)[t]) =>
              /\ type = "gate" => kind = "gate"
<1>1. CASE type = "event"
  <2>1. Tables(type) = <<{"gate"}, BasicEvents, {"house-event"}>>
    BY <1>1 DEF Tables
  <2> QED
    BY <1>1, <2>1 DEF BasicEvents, Events
<1>2. CASE type = "basic-event"
  <2>1. Tables(type) = <<BasicEvents>>
    BY <1>2 DEF Tables
  <2> QED
    BY <1>2, <2>1 DEF BasicEvents, Events
<1>3. CASE type \in {"gate", "house-event", "parameter"}
  <2>1. Tables(type) = <<{type}>>
    BY <1>3 DEF Tables
  <2> QED
    BY <1>3, <2>1 DEF BasicEvents, Events
<1> QED
  BY <1>1, <1>2, <1>3 DEF Types

(* The first table with any element has the only one there is.             *)
LEMMA FirstOfSingle ==
  ASSUME NEW type \in Types, NEW set, \A i, j \in Fitting(type, set) : i = j
  PROVE  FirstOf(type, set) = Fitting(type, set)
<1> DEFINE OfTable(t) == {i \in set : Kind(i) \in Tables(type)[t]}
           hits == {t \in DOMAIN Tables(type) : OfTable(t) /= {}}
<1>1. FirstOf(type, set) = IF hits = {} THEN {} ELSE OfTable(Min(hits))
  BY DEF FirstOf
<1>2. CASE hits = {}
  <2>1. Fitting(type, set) = {}
    BY <1>2 DEF Fitting
  <2> QED
    BY <1>1, <1>2, <2>1
<1>3. CASE hits /= {}
  <2>1. PICK t \in hits : TRUE
    BY <1>3
  <2>2. PICK x \in OfTable(t) : TRUE
    BY <2>1
  <2>3. x \in Fitting(type, set)
    BY <2>1, <2>2 DEF Fitting
  <2>4. \A s \in hits : s = t
    <3> SUFFICES ASSUME NEW s \in hits PROVE s = t
      OBVIOUS
    <3>1. PICK y \in OfTable(s) : TRUE
      OBVIOUS
    <3>2. y \in Fitting(type, set)
      BY <3>1 DEF Fitting
    <3>3. y = x
      BY <2>3, <3>2
    <3>4. Kind(x) \in Tables(type)[s] \cap Tables(type)[t]
      BY <2>2, <3>1, <3>3
    <3>5. s \in DOMAIN Tables(type) /\ t \in DOMAIN Tables(type)
      BY <2>1
    <3> QED
      BY <3>4, <3>5, TableFacts
  <2>5. hits = {t}
    BY <2>1, <2>4
  <2>6. t \in Int
    BY <2>1, TableFacts
  <2>7. Min({t}) = t
    BY <2>6 DEF Min
  <2>8. FirstOf(type, set) = OfTable(t)
    BY <1>1, <1>3, <2>5, <2>7
  <2>9. OfTable(t) = Fitting(type, set)
    <3>1. OfTable(t) \subseteq Fitting(type, set)
      BY <2>1 DEF Fitting
    <3>2. \A y \in Fitting(type, set) : y = x
      BY <2>3
    <3> HIDE DEF OfTable
    <3> QED
      BY <2>2, <3>1, <3>2
  <2> QED
    BY <2>8, <2>9
<1> QED
  BY <1>2, <1>3

-----------------------------------------------------------------------------
(* The references of an entry, by the schema.                              *)
LEMMA RefFacts ==
  ASSUME input \in Inputs, NEW i \in DOMAIN Document
  PROVE  /\ Len(Document[i].refs) \in Nat /\ DOMAIN Document[i].refs = 1..Len(Document[i].refs)
         /\ \A k \in DOMAIN Document[i].refs :
              /\ Document[i].refs[k].type \in Types
              /\ Kind(i) = "gate" <=> Document[i].refs[k].type /= "parameter"
              /\ Len(Document[i].refs[k].path) \in Nat \ {0}
<1>1. WellFormedEntry(Document, i)
  BY InDocument
<1>2. /\ Len(Document[i].refs) \in Nat /\ DOMAIN Document[i].refs = 1..Len(Document[i].refs)
      /\ \A k \in DOMAIN Document[i].refs :
           /\ Document[i].refs[k].type \in RefTypes(Kind(i))
           /\ Len(Document[i].refs[k].path) \in Nat \ {0}
  BY <1>1 DEF WellFormedEntry, Kind
<1>3. ASSUME NEW type \in RefTypes(Kind(i))
      PROVE  type \in Types /\ (Kind(i) = "gate" <=> type /= "parameter")
  <2>1. CASE Kind(i) = "gate"
    BY <2>1, <1>3 DEF RefTypes, Types
  <2>2. CASE Kind(i) \in {"basic-event", "parameter"}
    BY <2>2, <1>3 DEF RefTypes, Types
  <2>3. CASE Kind(i) \notin {"gate", "basic-event", "parameter"}
    <3>1. RefTypes(Kind(i)) = {}
      BY <2>3 DEF RefTypes
    <3> QED
      BY <1>3, <3>1
  <2> QED
    BY <2>1, <2>2, <2>3
<1> QED
  BY <1>2, <1>3

(* The tables of the model and those by path, when all is registered.      *)
ModelTable == {j \in Elements : Kind(j) /= "component"}

PathTable == {j \in Elements : Kind(j) \in Proper}

(* What is found, named.                                                   *)
Meeting(type) == Fitting(type, Elements)

Below(type, path) == {j \in Meeting(type) : Kind(j) /= "ccf-member" /\ Path(j) = path}

Public(type, path) == {j \in Meeting(type) : RoleOf(j) = "public" /\ <<Name(j)>> = path}

LEMMA FoundNamed ==
  ASSUME NEW i, NEW ref
  PROVE  Found(i, ref) =
           IF Parent(i) /= 0 /\ Below(ref.type, BasePath(i) \o ref.path) /= {}
           THEN Below(ref.type, BasePath(i) \o ref.path)
           ELSE IF Len(ref.path) > 1 THEN Below(ref.type, ref.path)
           ELSE Public(ref.type, ref.path)
  BY DEF Found, Below, Public, Meeting, Fitting

(* What fits a type is in one table, and the model has it.                 *)
LEMMA FittingFacts ==
  ASSUME NEW type \in Types, NEW set \in SUBSET Elements, NEW i \in Fitting(type, set)
  PROVE  /\ i \in set /\ i \in Elements /\ i \in ModelTable
         /\ Kind(i) = "ccf-member" \/ i \in PathTable
         /\ Space(Kind(i)) = IF type = "parameter" THEN {"parameter"} ELSE Events
         /\ type = "parameter" => Kind(i) = "parameter"
         /\ type /= "parameter" => Kind(i) \in Events
<1>1. i \in set /\ \E t \in DOMAIN Tables(type) : Kind(i) \in Tables(type)[t]
  BY DEF Fitting
<1>2. /\ Kind(i) \in {"gate", "basic-event", "ccf-member", "house-event", "parameter"}
      /\ type = "parameter" => Kind(i) = "parameter"
      /\ type /= "parameter" => Kind(i) \in Events
  BY <1>1, TableFacts
<1>3. Space(Kind(i)) = IF type = "parameter" THEN {"parameter"} ELSE Events
  <2>1. CASE type = "parameter"
    BY <1>2, <2>1 DEF Space, Events, BasicEvents
  <2>2. CASE type /= "parameter"
    BY <1>2, <2>2 DEF Space
  <2> QED
    BY <2>1, <2>2
<1>4. i \in ModelTable /\ (Kind(i) = "ccf-member" \/ i \in PathTable)
  BY <1>1, <1>2 DEF ModelTable, PathTable, Proper
<1> QED
  BY <1>1, <1>2, <1>3, <1>4

(* By path, a reference finds one element at most, below its scope or in   *)
(* the model; so it does by a public name.                                 *)
LEMMA OneBelow ==
  ASSUME input \in Inputs, WellNamed, NEW type \in Types, NEW path,
         NEW i \in Below(type, path), NEW j \in Below(type, path)
  PROVE  i = j
<1>1. i \in Fitting(type, Elements) /\ j \in Fitting(type, Elements) /\ Path(i) = Path(j)
  BY DEF Below, Meeting
<1>2. i \in Elements /\ j \in Elements /\ Space(Kind(i)) = Space(Kind(j))
  BY <1>1, FittingFacts
<1> QED
  BY <1>1, <1>2, ElementsByPath

LEMMA OnePublic ==
  ASSUME input \in Inputs, WellNamed, NEW type \in Types, NEW path,
         NEW i \in Public(type, path), NEW j \in Public(type, path)
  PROVE  i = j
<1>1. /\ i \in Fitting(type, Elements) /\ j \in Fitting(type, Elements)
      /\ RoleOf(i) = "public" /\ RoleOf(j) = "public" /\ <<Name(i)>> = <<Name(j)>>
  BY DEF Public, Meeting
<1>2. /\ i \in Elements /\ j \in Elements /\ Space(Kind(i)) = Space(Kind(j))
      /\ Kind(i) /= "component"
  BY <1>1, FittingFacts DEF ModelTable
<1>3. Id(i) = Id(j)
  BY <1>1 DEF Id
<1> QED
  BY <1>2, <1>3 DEF WellNamed

(* The lookups by path and by id find just that.                           *)
LEMMA LookupByPath ==
  ASSUME input \in Inputs, WellNamed, NEW type \in Types, NEW path,
         NEW set \in SUBSET PathTable, set = {j \in PathTable : Path(j) = path}
  PROVE  FirstOf(type, set) = Below(type, path)
<1>1. set \subseteq Elements
  BY DEF PathTable
<1>2. Fitting(type, set) \subseteq Below(type, path)
  <2> SUFFICES ASSUME NEW j \in Fitting(type, set) PROVE j \in Below(type, path)
    OBVIOUS
  <2>1. j \in set /\ \E t \in DOMAIN Tables(type) : Kind(j) \in Tables(type)[t]
    BY DEF Fitting
  <2>2. j \in Elements /\ Path(j) = path /\ Kind(j) /= "ccf-member"
    BY <2>1 DEF PathTable, Proper
  <2> QED
    BY <2>1, <2>2 DEF Below, Meeting, Fitting
<1>3. Below(type, path) \subseteq Fitting(type, set)
  <2> SUFFICES ASSUME NEW j \in Below(type, path) PROVE j \in Fitting(type, set)
    OBVIOUS
  <2>1. j \in Fitting(type, Elements) /\ Kind(j) /= "ccf-member" /\ Path(j) = path
    BY DEF Below, Meeting
  <2>2. j \in PathTable
    BY <2>1, FittingFacts
  <2>3. j \in set
    BY <2>1, <2>2
  <2> QED
    BY <2>1, <2>3 DEF Fitting
<1>4. Fitting(type, set) = Below(type, path)
  BY <1>2, <1>3
<1>5. \A i, j \in Fitting(type, set) : i = j
  BY <1>4, OneBelow
<1> QED
  BY <1>4, <1>5, FirstOfSingle

LEMMA LookupById ==
  ASSUME input \in Inputs, WellNamed, NEW type \in Types, NEW path, Len(path) = 1,
         NEW set \in SUBSET ModelTable, set = {j \in ModelTable : Id(j) = path}
  PROVE  FirstOf(type, set) = Public(type, path)
<1>1. ASSUME NEW j \in Elements
      PROVE  Id(j) = path <=> RoleOf(j) = "public" /\ <<Name(j)>> = path
  <2>1. j \in DOMAIN Document
    BY DEF Elements
  <2>2. RoleOf(j) = "private" => Parent(j) /= 0
    BY DEF WellNamed
  <2>3. CASE RoleOf(j) = "public"
    BY <2>3 DEF Id
  <2>4. CASE RoleOf(j) = "private"
    <3>1. Len(Id(j)) /= 1
      BY <2>1, <2>2, <2>4, IdFacts
    <3>2. Id(j) /= path
      BY <3>1
    <3> QED
      BY <2>4, <3>2
  <2> QED
    BY <2>1, <2>3, <2>4, IdFacts
<1>2. Fitting(type, set) \subseteq Public(type, path)
  <2> SUFFICES ASSUME NEW j \in Fitting(type, set) PROVE j \in Public(type, path)
    OBVIOUS
  <2>1. j \in set /\ \E t \in DOMAIN Tables(type) : Kind(j) \in Tables(type)[t]
    BY DEF Fitting
  <2>2. j \in Elements /\ Id(j) = path
    BY <2>1 DEF ModelTable
  <2> QED
    BY <1>1, <2>1, <2>2 DEF Public, Meeting, Fitting
<1>3. Public(type, path) \subseteq Fitting(type, set)
  <2> SUFFICES ASSUME NEW j \in Public(type, path) PROVE j \in Fitting(type, set)
    OBVIOUS
  <2>1. j \in Fitting(type, Elements) /\ RoleOf(j) = "public" /\ <<Name(j)>> = path
    BY DEF Public, Meeting
  <2>2. j \in Elements /\ j \in ModelTable
    BY <2>1, FittingFacts
  <2>3. j \in set
    BY <1>1, <2>1, <2>2
  <2> QED
    BY <2>1, <2>3 DEF Fitting
<1>4. Fitting(type, set) = Public(type, path)
  BY <1>2, <1>3
<1>5. \A i, j \in Fitting(type, set) : i = j
  BY <1>4, OnePublic
<1> QED
  BY <1>4, <1>5, FirstOfSingle

(* GetEntity and GetEvent (initializer.cc:1291-1354) find one element, or  *)
(* none.                                                                   *)
LEMMA LookupFinds ==
  ASSUME input \in Inputs, WellNamed, NEW i \in DOMAIN Document, Kind(i) /= "end",
         NEW k \in DOMAIN Document[i].refs
  PROVE  /\ Entities(i, Document[i].refs[k], ModelTable, PathTable) = Found(i, Document[i].refs[k])
         /\ \A x, y \in Found(i, Document[i].refs[k]) : x = y
         /\ \A x \in Found(i, Document[i].refs[k]) :
              /\ x \in Elements
              /\ Kind(i) = "gate" => Kind(x) \in Events
              /\ Kind(i) /= "gate" => Kind(x) = "parameter"
<1> DEFINE ref == Document[i].refs[k]
           scoped == BasePath(i) \o ref.path
           L == {j \in PathTable : BasePath(i) /= <<>> /\ Path(j) = scoped}
           P == {j \in ModelTable : Id(j) = ref.path}
           D == {j \in PathTable : Path(j) = ref.path}
<1>1. /\ ref.type \in Types /\ Len(ref.path) \in Nat \ {0}
      /\ Kind(i) = "gate" <=> ref.type /= "parameter"
  BY RefFacts
<1>2. BasePath(i) /= <<>> <=> Parent(i) /= 0
  BY ParentFacts, EmptyPath DEF BasePath
<1> HIDE DEF ref, scoped
<1>3. FirstOf(ref.type, L) = IF Parent(i) /= 0 THEN Below(ref.type, scoped) ELSE {}
  <2>1. CASE Parent(i) /= 0
    <3>1. L = {j \in PathTable : Path(j) = scoped} /\ L \in SUBSET PathTable
      BY <1>2, <2>1
    <3> HIDE DEF L
    <3> QED
      BY <1>1, <2>1, <3>1, LookupByPath
  <2>2. CASE Parent(i) = 0
    <3>1. L = {}
      BY <1>2, <2>2
    <3>2. Fitting(ref.type, {}) = {}
      BY DEF Fitting
    <3>3. FirstOf(ref.type, {}) = {}
      BY <1>1, <3>2, FirstOfSingle
    <3> QED
      BY <2>2, <3>1, <3>3
  <2> QED
    BY <2>1, <2>2
<1>4. Len(ref.path) = 1 => FirstOf(ref.type, P) = Public(ref.type, ref.path)
  <2>1. P \in SUBSET ModelTable /\ P = {j \in ModelTable : Id(j) = ref.path}
    OBVIOUS
  <2> HIDE DEF P
  <2> QED
    BY <1>1, <2>1, LookupById
<1>5. FirstOf(ref.type, D) = Below(ref.type, ref.path)
  <2>1. D \in SUBSET PathTable /\ D = {j \in PathTable : Path(j) = ref.path}
    OBVIOUS
  <2> HIDE DEF D
  <2> QED
    BY <1>1, <2>1, LookupByPath
<1>6. Entities(i, ref, ModelTable, PathTable) =
        IF FirstOf(ref.type, L) /= {} THEN FirstOf(ref.type, L)
        ELSE IF Len(ref.path) = 1 THEN FirstOf(ref.type, P)
        ELSE FirstOf(ref.type, D)
  BY DEF Entities, scoped
<1> HIDE DEF L, P, D
<1>7. Found(i, ref) =
        IF Parent(i) /= 0 /\ Below(ref.type, scoped) /= {} THEN Below(ref.type, scoped)
        ELSE IF Len(ref.path) > 1 THEN Below(ref.type, ref.path)
        ELSE Public(ref.type, ref.path)
  BY FoundNamed DEF scoped
<1>8. Len(ref.path) = 1 <=> ~(Len(ref.path) > 1)
  <2>1. \A n \in Nat \ {0} : n = 1 <=> ~(n > 1)
    OBVIOUS
  <2> QED
    BY <1>1, <2>1
<1>9. Entities(i, ref, ModelTable, PathTable) = Found(i, ref)
  BY <1>3, <1>4, <1>5, <1>6, <1>7, <1>8
<1>10. \A x, y \in Found(i, ref) : x = y
  BY <1>1, <1>7, OneBelow, OnePublic
<1>11. ASSUME NEW x \in Found(i, ref)
       PROVE  /\ x \in Elements
              /\ Kind(i) = "gate" => Kind(x) \in Events
              /\ Kind(i) /= "gate" => Kind(x) = "parameter"
  <2>1. x \in Fitting(ref.type, Elements)
    BY <1>7 DEF Below, Public, Meeting
  <2> QED
    BY <1>1, <2>1, FittingFacts
<1> QED
  BY <1>9, <1>10, <1>11 DEF ref

-----------------------------------------------------------------------------
(* A choice of an element for every reference is the only one.             *)
LEMMA ChoiceOfFound ==
  ASSUME input \in Inputs, WellNamed, NEW i \in DOMAIN Document, Kind(i) /= "end",
         NEW r, DOMAIN r = DOMAIN Document[i].refs,
         \A k \in DOMAIN Document[i].refs : r[k] \in Found(i, Document[i].refs[k])
  PROVE  /\ \A k \in DOMAIN Document[i].refs : {r[k]} = Found(i, Document[i].refs[k])
         /\ AllFound(i) = {r[k] : k \in DOMAIN Document[i].refs}
         /\ AllFound(i) \subseteq Elements
         /\ Kind(i) = "gate" => \A x \in AllFound(i) : Kind(x) \in Events
         /\ Kind(i) /= "gate" => \A x \in AllFound(i) : Kind(x) = "parameter"
<1> DEFINE refs == Document[i].refs
<1>1. ASSUME NEW k \in DOMAIN refs PROVE {r[k]} = Found(i, refs[k])
  <2>1. r[k] \in Found(i, refs[k])
    OBVIOUS
  <2>2. \A x, y \in Found(i, refs[k]) : x = y
    BY LookupFinds
  <2> QED
    BY <2>1, <2>2
<1>2. \A x : x \in AllFound(i) <=> \E k \in DOMAIN refs : x \in Found(i, refs[k])
  BY DEF AllFound
<1>3. \A x : x \in AllFound(i) <=> \E k \in DOMAIN refs : x = r[k]
  BY <1>1, <1>2
<1>4. AllFound(i) = {r[k] : k \in DOMAIN refs}
  BY <1>3
<1>5. ASSUME NEW x \in AllFound(i)
      PROVE  /\ x \in Elements
             /\ Kind(i) = "gate" => Kind(x) \in Events
             /\ Kind(i) /= "gate" => Kind(x) = "parameter"
  <2>1. PICK k \in DOMAIN refs : x \in Found(i, refs[k])
    BY <1>2
  <2> QED
    BY <2>1, LookupFinds
<1> QED
  BY <1>1, <1>4, <1>5

(* As many elements as references: no two of them mean the same.           *)
LEMMA CountOfFound ==
  ASSUME input \in Inputs, WellNamed, NEW i \in DOMAIN Document, Kind(i) /= "end",
         NEW r, r = [k \in DOMAIN Document[i].refs |-> r[k]],
         \A k \in DOMAIN Document[i].refs : r[k] \in Found(i, Document[i].refs[k])
  PROVE  Cardinality(AllFound(i)) = Len(Document[i].refs) <=>
           \A j, k \in DOMAIN Document[i].refs : r[j] = r[k] => j = k
<1> DEFINE n == Len(Document[i].refs)
<1>1. n \in Nat /\ DOMAIN Document[i].refs = 1..n
  BY RefFacts
<1>2. DOMAIN r = 1..n /\ AllFound(i) = {r[k] : k \in 1..n}
  <2>1. DOMAIN r = DOMAIN Document[i].refs
    OBVIOUS
  <2> QED
    BY <1>1, <2>1, ChoiceOfFound
<1>3. r \in Surjection(1..n, AllFound(i))
  <2>1. r = [k \in 1..n |-> r[k]]
    BY <1>1
  <2>2. \A k \in 1..n : r[k] \in AllFound(i)
    BY <1>2
  <2>3. r \in [1..n -> AllFound(i)]
    BY <2>1, <2>2
  <2>4. \A x \in AllFound(i) : \E k \in 1..n : r[k] = x
    BY <1>2
  <2> QED
    BY <2>3, <2>4 DEF Surjection
<1>4. IsFiniteSet(1..n) /\ Cardinality(1..n) = n
  <2>0. 1 \in Int /\ n \in Int
    BY <1>1
  <2>1. IsFiniteSet(1..n) /\ Cardinality(1..n) = IF 1 > n THEN 0 ELSE n - 1 + 1
    BY <2>0, FS_Interval
  <2>2. (IF 1 > n THEN 0 ELSE n - 1 + 1) = n
    BY <1>1
  <2> QED
    BY <2>1, <2>2
<1>5. Cardinality(AllFound(i)) = n <=> r \in Injection(1..n, AllFound(i))
  <2>1. Cardinality(AllFound(i)) = Cardinality(1..n) <=> r \in Injection(1..n, AllFound(i))
    BY <1>3, <1>4, FS_Surjection
  <2> QED
    BY <1>4, <2>1
<1>6. r \in Injection(1..n, AllFound(i)) <=> \A j, k \in 1..n : r[j] = r[k] => j = k
  <2>1. r \in [1..n -> AllFound(i)]
    BY <1>3 DEF Surjection
  <2> HIDE DEF n
  <2> QED
    BY <2>1 DEF Injection, IsInjective
<1> QED
  BY <1>1, <1>5, <1>6

(* Events are told apart by their ids.                                     *)
LEMMA EventsById ==
  ASSUME WellNamed, NEW x \in Elements, NEW y \in Elements, Kind(x) \in Events, Kind(y) \in Events
  PROVE  Id(x) = Id(y) <=> x = y
<1>1. Space(Kind(x)) = Space(Kind(y)) /\ Kind(x) /= "component"
  BY DEF Space, Events, BasicEvents
<1> QED
  BY <1>1 DEF WellNamed

-----------------------------------------------------------------------------
(* What is found is what a reference means, unless it is a member of a CCF *)
(* group that is overlooked.                                               *)
LEMMA FoundAsMeant ==
  ASSUME input \in Inputs, WellNamed, NEW i \in DOMAIN Document, Kind(i) /= "end",
         NEW k \in DOMAIN Document[i].refs, ~Overlooks(i, Document[i].refs[k])
  PROVE  Found(i, Document[i].refs[k]) = Meant(i, Document[i].refs[k])
<1> DEFINE ref == Document[i].refs[k]
           scoped == BasePath(i) \o ref.path
           All(path) == {j \in Meeting(ref.type) : Path(j) = path}
<1>1. ref.type \in Types /\ Len(ref.path) \in Nat \ {0}
  BY RefFacts
<1>2. \A m \in Meant(i, ref) : Kind(m) = "ccf-member" => RoleOf(m) = "public" /\ <<Name(m)>> = ref.path
  BY DEF Overlooks
<1> SUFFICES Found(i, ref) = Meant(i, ref)
  OBVIOUS
<1> HIDE DEF ref, scoped
<1>3. Found(i, ref) =
        IF Parent(i) /= 0 /\ Below(ref.type, scoped) /= {} THEN Below(ref.type, scoped)
        ELSE IF Len(ref.path) > 1 THEN Below(ref.type, ref.path)
        ELSE Public(ref.type, ref.path)
  BY FoundNamed DEF scoped
<1>4. Meant(i, ref) =
        IF Parent(i) /= 0 /\ All(scoped) /= {} THEN All(scoped)
        ELSE IF Len(ref.path) > 1 THEN All(ref.path)
        ELSE Public(ref.type, ref.path)
  BY DEF Meant, Public, Meeting, Fitting, scoped
<1>5. \A path : Below(ref.type, path) = {j \in All(path) : Kind(j) /= "ccf-member"}
  BY DEF Below
<1>6. ASSUME NEW path, NEW x \in All(path), NEW y \in All(path) PROVE x = y
  <2>1. x \in Fitting(ref.type, Elements) /\ y \in Fitting(ref.type, Elements) /\ Path(x) = Path(y)
    BY DEF Meeting
  <2>2. x \in Elements /\ y \in Elements /\ Space(Kind(x)) = Space(Kind(y))
    BY <1>1, <2>1, FittingFacts
  <2> QED
    BY <2>1, <2>2, ElementsByPath
<1>7. All(scoped) \subseteq Meeting(ref.type)
  OBVIOUS
<1> HIDE DEF All
<1>8. ASSUME NEW x, <<x>> = ref.path PROVE ~(Len(ref.path) > 1)
  <2>1. Len(<<x>>) = 1
    OBVIOUS
  <2>2. Len(ref.path) = 1
    BY <1>8, <2>1
  <2> QED
    BY <2>2
<1>9. CASE Parent(i) /= 0 /\ All(scoped) /= {}
  <2>1. PICK m \in All(scoped) : TRUE
    BY <1>9
  <2>2. All(scoped) = {m} /\ Meant(i, ref) = {m}
    BY <1>4, <1>6, <1>9, <2>1
  <2>3. CASE Kind(m) /= "ccf-member"
    <3>1. Below(ref.type, scoped) = {m}
      BY <1>5, <2>2, <2>3
    <3> QED
      BY <1>3, <1>9, <2>2, <3>1
  <2>4. CASE Kind(m) = "ccf-member"
    <3>1. Below(ref.type, scoped) = {}
      BY <1>5, <2>2, <2>4
    <3>2. RoleOf(m) = "public" /\ <<Name(m)>> = ref.path
      BY <1>2, <2>2, <2>4
    <3>3. m \in Public(ref.type, ref.path)
      BY <1>7, <2>1, <3>2 DEF Public
    <3>4. Public(ref.type, ref.path) = {m}
      BY <1>1, <3>3, OnePublic
    <3>5. ~(Len(ref.path) > 1)
      BY <1>8, <3>2
    <3> QED
      BY <1>3, <2>2, <3>1, <3>4, <3>5
  <2> QED
    BY <2>3, <2>4
<1>10. CASE ~(Parent(i) /= 0 /\ All(scoped) /= {})
  <2>1. ~(Parent(i) /= 0 /\ Below(ref.type, scoped) /= {})
    BY <1>5, <1>10
  <2>2. CASE Len(ref.path) > 1
    <3>1. Meant(i, ref) = All(ref.path)
      BY <1>4, <1>10, <2>2
    <3>2. \A m \in All(ref.path) : <<Name(m)>> /= ref.path
      BY <1>8, <2>2
    <3>3. Below(ref.type, ref.path) = All(ref.path)
      BY <1>2, <1>5, <3>1, <3>2
    <3> QED
      BY <1>3, <2>1, <2>2, <3>1, <3>3
  <2>3. CASE ~(Len(ref.path) > 1)
    BY <1>3, <1>4, <1>10, <2>1, <2>3
  <2> QED
    BY <2>2, <2>3
<1> QED
  BY <1>9, <1>10

(* What is found for all references of an element.                         *)
LEMMA FollowedFound ==
  ASSUME NEW i, NEW given, Follows(i, given)
  PROVE  ToSet(given) = AllFound(i)
<1>1. DOMAIN given = DOMAIN Document[i].refs
  BY DEF Follows
<1>2. \A x : x \in AllFound(i) <=> \E k \in DOMAIN Document[i].refs : x \in Found(i, Document[i].refs[k])
  BY DEF AllFound
<1>3. \A k \in DOMAIN Document[i].refs : {given[k]} = Found(i, Document[i].refs[k])
  BY DEF Follows
<1>4. \A x : x \in ToSet(given) <=> \E k \in DOMAIN given : x = given[k]
  BY DEF ToSet
<1> QED
  BY <1>1, <1>2, <1>3, <1>4

(* Documents are valid as the program takes them if they are valid and it  *)
(* does not part from what they mean.                                      *)
LEMMA ValidAsMeant ==
  ASSUME input \in Inputs, ~MemberOverlooked
  PROVE  /\ ValidAsFound => Valid
         /\ Valid /\ ~SingleLevelGroup => ValidAsFound
<1> SUFFICES ASSUME WellNamed
             PROVE  /\ ValidAsFound => Valid
                    /\ Valid /\ ~SingleLevelGroup => ValidAsFound
  BY DEF Valid, ValidAsFound
<1>1. ASSUME NEW i \in Definable, NEW k \in DOMAIN Document[i].refs
      PROVE  Found(i, Document[i].refs[k]) = Meant(i, Document[i].refs[k])
  <2>1. i \in DOMAIN Document /\ Kind(i) /= "end"
    BY DEF Definable, Elements
  <2>2. ~Overlooks(i, Document[i].refs[k])
    BY DEF MemberOverlooked
  <2> QED
    BY <2>1, <2>2, FoundAsMeant
<1>2. ASSUME NEW i \in Definable PROVE AllFound(i) = AllMeant(i)
  BY <1>1 DEF AllFound, AllMeant
<1>3. ASSUME NEW i \in Definable PROVE DefinedAsFound(i) <=> WellDefined(i)
  BY <1>1, <1>2 DEF DefinedAsFound, WellDefined
<1>4. ASSUME NEW kind \in {"gate", "parameter"} PROVE NoCycleFound(kind) <=> NoCycle(kind)
  <2>1. {i \in Elements : Kind(i) = kind} \subseteq Definable
    BY DEF Definable
  <2>2. ASSUME NEW part \in SUBSET {i \in Elements : Kind(i) = kind}, NEW i \in part
        PROVE  AllFound(i) = AllMeant(i)
    BY <1>2, <2>1
  <2> QED
    BY <2>2 DEF NoCycleFound, NoCycle
<1>5. ASSUME NEW g \in {i \in Elements : Kind(i) = "ccf"}
      PROVE  /\ Replaceable(g) => WellFactored(g)
             /\ WellFactored(g) /\ HighestLevel(g) /= 1 => Replaceable(g)
  <2>1. WellFactored(g) => HighestLevel(g) \in 1..Cardinality(MembersMeant(g))
    BY DEF WellFactored
  <2>2. WellFactored(g) /\ HighestLevel(g) /= 1 => HighestLevel(g) >= 2
    BY <2>1
  <2> QED
    BY <2>2 DEF Replaceable
<1> QED
  BY <1>3, <1>4, <1>5 DEF Valid, ValidAsFound, SingleLevelGroup

-----------------------------------------------------------------------------
(* The gates among the arguments are just those, in order (cycle.h:62).    *)
LEMMA GatesAmongFacts ==
  ASSUME NEW S, NEW a \in Seq(S)
  PROVE  /\ GatesAmong(a) \in Seq(S)
         /\ {GatesAmong(a)[k] : k \in DOMAIN GatesAmong(a)} =
              {a[k] : k \in {k \in DOMAIN a : Kind(a[k]) = "gate"}}
<1> DEFINE n == Len(a)
           V == Seq(S)
           before == [j \in 1..n |-> j - 1]
           step == [j \in 1..n |-> [s \in V |-> IF Kind(a[j]) = "gate" THEN Append(s, a[j]) ELSE s]]
           gates == CHOOSE gates : gates = [k \in 0..n |->
                      IF k = 0 THEN <<>>
                      ELSE IF Kind(a[k]) = "gate" THEN Append(gates[k - 1], a[k]) ELSE gates[k - 1]]
<1>1. n \in Nat /\ DOMAIN a = 1..n /\ \A j \in 1..n : a[j] \in S
  BY LenProperties, ElementOfSeq
<1>2. \A j \in 1..n : j - 1 \in Nat /\ j - 1 < j /\ j - 1 \in 0..n /\ j - 1 \in 0..(j - 1)
  BY <1>1
<1>3. <<>> \in V
  BY EmptySeq
<1>4. step \in [1..n -> [V -> V]]
  <2>1. ASSUME NEW j \in 1..n, NEW s \in V
        PROVE  (IF Kind(a[j]) = "gate" THEN Append(s, a[j]) ELSE s) \in V
    BY <1>1, AppendProperties
  <2> HIDE DEF n, V, gates
  <2> QED
    BY <2>1
<1>5. IsEarlier(before, n)
  BY <1>2 DEF IsEarlier
<1>6. PICK f : IsUnfolding(f, n, V, <<>>, before, step)
  <2> HIDE DEF step, before, V, n, gates
  <2> QED
    BY <1>1, <1>3, <1>4, <1>5, Recursion
<1>7. \A j \in 1..n : f[j] = IF Kind(a[j]) = "gate" THEN Append(f[j - 1], a[j]) ELSE f[j - 1]
  <2> SUFFICES ASSUME NEW j \in 1..n
               PROVE  f[j] = IF Kind(a[j]) = "gate" THEN Append(f[j - 1], a[j]) ELSE f[j - 1]
    OBVIOUS
  <2>1. f[j - 1] \in V /\ before[j] = j - 1
    BY <1>2, <1>6 DEF IsUnfolding
  <2>2. step[j][f[j - 1]] = IF Kind(a[j]) = "gate" THEN Append(f[j - 1], a[j]) ELSE f[j - 1]
    BY <2>1
  <2> QED
    BY <1>6, <2>1, <2>2 DEF IsUnfolding
<1>8. f = [k \in 0..n |->
             IF k = 0 THEN <<>>
             ELSE IF Kind(a[k]) = "gate" THEN Append(f[k - 1], a[k]) ELSE f[k - 1]]
  <2>1. \A j \in 0..n : j = 0 \/ j \in 1..n
    BY <1>1
  <2>2. \A k \in 0..n : f[k] = IF k = 0 THEN <<>>
             ELSE IF Kind(a[k]) = "gate" THEN Append(f[k - 1], a[k]) ELSE f[k - 1]
    BY <1>1, <1>6, <1>7, <2>1 DEF IsUnfolding
  <2>3. f \in [0..n -> V]
    BY <1>6 DEF IsUnfolding
  <2> HIDE DEF V, n
  <2> QED
    BY <2>2, <2>3
<1>9. gates = [k \in 0..n |->
             IF k = 0 THEN <<>>
             ELSE IF Kind(a[k]) = "gate" THEN Append(gates[k - 1], a[k]) ELSE gates[k - 1]]
  <2> HIDE DEF V, n
  <2> QED
    BY <1>8
<1>10. GatesAmong(a) = gates[n]
  BY DEF GatesAmong
<1> HIDE DEF gates
<1>11. /\ gates[0] = <<>>
       /\ \A j \in 1..n : gates[j] = IF Kind(a[j]) = "gate" THEN Append(gates[j - 1], a[j]) ELSE gates[j - 1]
  <2>1. 0 \in 0..n /\ \A j \in 1..n : j \in 0..n /\ j /= 0
    BY <1>1
  <2> HIDE DEF n
  <2> QED
    BY <1>9, <2>1
<1> DEFINE Yields(j) ==
             /\ gates[j] \in Seq(S)
             /\ \A x : (\E k \in DOMAIN gates[j] : x = gates[j][k]) <=>
                       (\E k \in 1..j : Kind(a[k]) = "gate" /\ x = a[k])
           T == {j \in 0..n : Yields(j)}
<1>12. ASSUME NEW j \in 0..n, \A k \in 0..(j - 1) : k \in T
       PROVE  j \in T
  <2>1. CASE j = 0
    <3>0. gates[j] = <<>>
      BY <1>11, <2>1
    <3>1. gates[j] \in Seq(S) /\ DOMAIN gates[j] = {}
      BY <1>3, <3>0
    <3>2. 1..j = {}
      BY <2>1
    <3>3. Yields(j)
      BY <3>1, <3>2
    <3> QED
      BY <3>3
  <2>2. CASE j /= 0
    <3>1. j \in 1..n
      BY <1>1, <2>2
    <3>2. Yields(j - 1)
      BY <1>2, <1>12, <3>1
    <3>3. a[j] \in S /\ j - 1 \in Nat /\ j \in Nat
      BY <1>1, <3>1
    <3>4. \A k \in 1..j : k = j \/ k \in 1..(j - 1)
      BY <3>3
    <3>5. \A k \in 1..(j - 1) : k \in 1..j
      BY <3>3
    <3>6. j \in 1..j
      BY <3>1
    <3>7. CASE Kind(a[j]) = "gate"
      <4> DEFINE s == gates[j - 1]
      <4>1. gates[j] = Append(s, a[j])
        BY <1>11, <3>1, <3>7
      <4>2. s \in Seq(S)
        BY <3>2
      <4>3. /\ Append(s, a[j]) \in Seq(S) /\ Len(Append(s, a[j])) = Len(s) + 1
            /\ \A k \in 1..Len(s) : Append(s, a[j])[k] = s[k]
            /\ Append(s, a[j])[Len(s) + 1] = a[j]
        BY <3>3, <4>2, AppendProperties
      <4>4. /\ Len(s) \in Nat /\ DOMAIN s = 1..Len(s)
            /\ DOMAIN Append(s, a[j]) = 1..(Len(s) + 1)
        BY <4>2, <4>3, LenProperties
      <4>5. \A k \in 1..(Len(s) + 1) : k = Len(s) + 1 \/ k \in 1..Len(s)
        BY <4>4
      <4>6. Len(s) + 1 \in 1..(Len(s) + 1) /\ \A k \in 1..Len(s) : k \in 1..(Len(s) + 1)
        BY <4>4
      <4>7. \A x : (\E k \in DOMAIN gates[j] : x = gates[j][k]) <=>
                   (x = a[j] \/ \E k \in DOMAIN s : x = s[k])
        <5> HIDE DEF s
        <5> QED
          BY <4>1, <4>3, <4>4, <4>5, <4>6
      <4>8. \A x : (\E k \in DOMAIN s : x = s[k]) <=>
                   (\E k \in 1..(j - 1) : Kind(a[k]) = "gate" /\ x = a[k])
        BY <3>2
      <4>9. \A x : (\E k \in 1..j : Kind(a[k]) = "gate" /\ x = a[k]) <=>
                   (x = a[j] \/ \E k \in 1..(j - 1) : Kind(a[k]) = "gate" /\ x = a[k])
        BY <3>4, <3>5, <3>6, <3>7
      <4> HIDE DEF s
      <4>10. gates[j] \in Seq(S)
        BY <4>1, <4>3
      <4>11. \A x : (\E k \in DOMAIN gates[j] : x = gates[j][k]) <=>
                    (\E k \in 1..j : Kind(a[k]) = "gate" /\ x = a[k])
        BY <4>7, <4>8, <4>9
      <4> QED
        BY <4>10, <4>11
    <3>8. CASE Kind(a[j]) /= "gate"
      <4>1. gates[j] = gates[j - 1]
        BY <1>11, <3>1, <3>8
      <4>2. \A x : (\E k \in 1..j : Kind(a[k]) = "gate" /\ x = a[k]) <=>
                   (\E k \in 1..(j - 1) : Kind(a[k]) = "gate" /\ x = a[k])
        BY <3>4, <3>5, <3>8
      <4>3. gates[j] \in Seq(S)
        BY <3>2, <4>1
      <4>4. \A x : (\E k \in DOMAIN gates[j] : x = gates[j][k]) <=>
                   (\E k \in 1..(j - 1) : Kind(a[k]) = "gate" /\ x = a[k])
        BY <3>2, <4>1
      <4>5. \A x : (\E k \in DOMAIN gates[j] : x = gates[j][k]) <=>
                   (\E k \in 1..j : Kind(a[k]) = "gate" /\ x = a[k])
        BY <4>2, <4>4
      <4> QED
        BY <4>3, <4>5
    <3> QED
      BY <3>7, <3>8
  <2> QED
    BY <2>1, <2>2
<1>13. n \in T
  <2> HIDE DEF T
  <2>1. \A j \in 0..n : j \in T
    <3> HIDE DEF n
    <3> QED
      BY <1>1, <1>12, UpTo
  <2>2. n \in 0..n
    BY <1>1
  <2> QED
    BY <2>1, <2>2
<1>14. /\ gates[n] \in Seq(S)
       /\ \A x : (\E k \in DOMAIN gates[n] : x = gates[n][k]) <=>
                 (\E k \in 1..n : Kind(a[k]) = "gate" /\ x = a[k])
  BY <1>13
<1>15. GatesAmong(a) \in Seq(S)
  BY <1>10, <1>14
<1>16. \A x : x \in {GatesAmong(a)[k] : k \in DOMAIN GatesAmong(a)} <=>
            x \in {a[k] : k \in {k \in DOMAIN a : Kind(a[k]) = "gate"}}
  <2>1. \A x : x \in {GatesAmong(a)[k] : k \in DOMAIN GatesAmong(a)} <=>
              \E k \in DOMAIN gates[n] : x = gates[n][k]
    <3> HIDE DEF gates, n
    <3>1. \A s, x : x \in {s[k] : k \in DOMAIN s} <=> \E k \in DOMAIN s : x = s[k]
      OBVIOUS
    <3> QED
      BY <1>10, <3>1
  <2>2. \A x : x \in {a[k] : k \in {k \in DOMAIN a : Kind(a[k]) = "gate"}} <=>
              \E k \in 1..n : Kind(a[k]) = "gate" /\ x = a[k]
    BY <1>1
  <2> HIDE DEF gates, n
  <2> QED
    BY <1>14, <2>1, <2>2
<1> QED
  BY <1>15, <1>16

-----------------------------------------------------------------------------
(* The number of the members of a group.                                   *)
Size(g) == EndOf(g) - g - 1

LEMMA MembersOfGroup ==
  ASSUME input \in Inputs, NEW g \in DOMAIN Document, Kind(g) = "ccf"
  PROVE  /\ MembersMeant(g) = (g + 1)..(EndOf(g) - 1)
         /\ Size(g) \in Nat \ {0} /\ Cardinality(MembersMeant(g)) = Size(g)
         /\ EndOf(g) = g + Size(g) + 1 /\ g \in Nat \ {0}
<1>1. g \in Nat \ {0} /\ EndOf(g) \in Nat /\ EndOf(g) > g + 1
  BY EndFacts, GroupFacts, ParentFacts
<1>2. Size(g) \in Nat \ {0} /\ EndOf(g) = g + Size(g) + 1
  BY <1>1 DEF Size
<1>3. ASSUME NEW i \in (g + 1)..(EndOf(g) - 1) PROVE i \in MembersMeant(g)
  <2>1. i \in DOMAIN Document /\ Kind(i) = "ccf-member"
    BY <1>3, GroupFacts
  <2>2. g < i /\ i < EndOf(g)
    BY <1>1
  <2>3. GroupOf(i) = g
    BY <2>1, <2>2, MemberFacts
  <2> QED
    BY <2>1, <2>3 DEF MembersMeant, Elements
<1>4. ASSUME NEW i \in MembersMeant(g) PROVE i \in (g + 1)..(EndOf(g) - 1)
  <2>1. i \in DOMAIN Document /\ Kind(i) = "ccf-member" /\ GroupOf(i) = g
    BY DEF MembersMeant, Elements
  <2>2. g < i /\ i < EndOf(g) /\ i \in Nat
    BY <2>1, MemberFacts, ParentFacts
  <2> QED
    BY <1>1, <2>2
<1>5. MembersMeant(g) = (g + 1)..(EndOf(g) - 1)
  BY <1>3, <1>4
<1>6. Cardinality((g + 1)..(EndOf(g) - 1)) = Size(g)
  <2>1. g + 1 \in Int /\ EndOf(g) - 1 \in Int
    BY <1>1
  <2>2. Cardinality((g + 1)..(EndOf(g) - 1)) =
          IF g + 1 > EndOf(g) - 1 THEN 0 ELSE EndOf(g) - 1 - (g + 1) + 1
    BY <2>1, FS_Interval
  <2>3. (IF g + 1 > EndOf(g) - 1 THEN 0 ELSE EndOf(g) - 1 - (g + 1) + 1) = Size(g)
    BY <1>1 DEF Size
  <2> QED
    BY <2>2, <2>3
<1> QED
  BY <1>1, <1>2, <1>5, <1>6

(* The factors of a group, by the schema.                                  *)
LEMMA FactorFacts ==
  ASSUME input \in Inputs, NEW g \in DOMAIN Document, Kind(g) = "ccf"
  PROVE  /\ Len(Document[g].factors) \in Nat \ {0}
         /\ DOMAIN Document[g].factors = 1..Len(Document[g].factors)
         /\ \A k \in 1..Len(Document[g].factors) : Document[g].factors[k].level \in Nat
         /\ Document[g].model \in {"beta-factor", "MGL", "alpha-factor", "phi-factor"}
         /\ LeastLevel(g) \in Nat \ {0}
         /\ Document[g].model = "beta-factor" => LeastLevel(g) = Size(g)
         /\ Document[g].model = "MGL" => LeastLevel(g) = 2
         /\ Document[g].model \in {"alpha-factor", "phi-factor"} => LeastLevel(g) = 1
<1>1. WellFormedEntry(Document, g) /\ Document[g].kind = "ccf"
  BY InDocument DEF Kind
<1>2. /\ Document[g].model \in {"beta-factor", "MGL", "alpha-factor", "phi-factor"}
      /\ Len(Document[g].factors) \in Nat \ {0}
      /\ DOMAIN Document[g].factors = 1..Len(Document[g].factors)
      /\ \A k \in DOMAIN Document[g].factors : Document[g].factors[k].level \in Nat
  BY <1>1 DEF WellFormedEntry
<1>3. Cardinality(MembersMeant(g)) = Size(g) /\ Size(g) \in Nat \ {0}
  BY MembersOfGroup
<1>4. /\ Document[g].model = "beta-factor" => LeastLevel(g) = Size(g)
      /\ Document[g].model = "MGL" => LeastLevel(g) = 2
      /\ Document[g].model \in {"alpha-factor", "phi-factor"} => LeastLevel(g) = 1
  BY <1>3 DEF LeastLevel
<1> QED
  BY <1>2, <1>3, <1>4

(* A factor without a level has the one after that of the factor before.   *)
LEMMA LevelFacts ==
  ASSUME input \in Inputs, NEW g \in DOMAIN Document, Kind(g) = "ccf"
  PROVE  /\ DOMAIN FactorLevels(g) = 1..Len(Document[g].factors)
         /\ \A k \in 1..Len(Document[g].factors) :
              /\ FactorLevels(g)[k] \in Nat \ {0}
              /\ FactorLevels(g)[k] =
                   IF Document[g].factors[k].level > 0 THEN Document[g].factors[k].level
                   ELSE IF k = 1 THEN LeastLevel(g) ELSE FactorLevels(g)[k - 1] + 1
<1> DEFINE factors == Document[g].factors
           n == Len(factors)
           V == Nat
           given(k) == factors[k].level
           before == [j \in 1..n |-> j - 1]
           step == [j \in 1..n |-> [s \in V |-> IF given(j) > 0 THEN given(j) ELSE s + 1]]
           level == CHOOSE level : level = [k \in DOMAIN factors |->
                      IF given(k) > 0 THEN given(k) ELSE IF k = 1 THEN LeastLevel(g) ELSE level[k - 1] + 1]
<1>1. /\ n \in Nat \ {0} /\ DOMAIN factors = 1..n
      /\ \A k \in 1..n : given(k) \in Nat
      /\ LeastLevel(g) \in Nat \ {0}
  BY FactorFacts
<1>2. \A j \in 1..n : j - 1 \in Nat /\ j - 1 < j /\ j - 1 \in 0..n
  BY <1>1
<1>3. step \in [1..n -> [V -> V]]
  <2>1. ASSUME NEW j \in 1..n, NEW s \in V
        PROVE  (IF given(j) > 0 THEN given(j) ELSE s + 1) \in V
    BY <1>1
  <2> HIDE DEF n, V, level, given
  <2> QED
    BY <2>1
<1>4. IsEarlier(before, n)
  BY <1>2 DEF IsEarlier
<1>5. PICK f : IsUnfolding(f, n, V, LeastLevel(g) - 1, before, step)
  <2>1. LeastLevel(g) - 1 \in V /\ n \in Nat
    BY <1>1
  <2> HIDE DEF step, before, V, n, level
  <2> QED
    BY <1>3, <1>4, <2>1, Recursion
<1>6. \A j \in 1..n : f[j - 1] \in Nat /\ f[j] = IF given(j) > 0 THEN given(j) ELSE f[j - 1] + 1
  <2> SUFFICES ASSUME NEW j \in 1..n
               PROVE  f[j - 1] \in Nat /\ f[j] = IF given(j) > 0 THEN given(j) ELSE f[j - 1] + 1
    OBVIOUS
  <2>1. f[j - 1] \in V /\ before[j] = j - 1
    BY <1>2, <1>5 DEF IsUnfolding
  <2>2. step[j][f[j - 1]] = IF given(j) > 0 THEN given(j) ELSE f[j - 1] + 1
    BY <2>1
  <2> QED
    BY <1>5, <2>1, <2>2 DEF IsUnfolding
<1>7. f[0] + 1 = LeastLevel(g)
  BY <1>1, <1>5 DEF IsUnfolding
<1> DEFINE r == [k \in 1..n |-> f[k]]
<1>8. \A k \in 1..n :
        r[k] = IF given(k) > 0 THEN given(k) ELSE IF k = 1 THEN LeastLevel(g) ELSE r[k - 1] + 1
  <2> SUFFICES ASSUME NEW k \in 1..n
               PROVE  r[k] = IF given(k) > 0 THEN given(k)
                             ELSE IF k = 1 THEN LeastLevel(g) ELSE r[k - 1] + 1
    OBVIOUS
  <2>1. CASE k = 1
    BY <1>6, <1>7, <2>1
  <2>2. CASE k /= 1
    <3>1. k - 1 \in 1..n
      BY <1>1, <2>2
    <3>2. r[k] = f[k] /\ r[k - 1] = f[k - 1]
      BY <3>1
    <3> QED
      BY <1>6, <2>2, <3>2
  <2> QED
    BY <2>1, <2>2
<1>9. r = [k \in DOMAIN factors |->
             IF given(k) > 0 THEN given(k) ELSE IF k = 1 THEN LeastLevel(g) ELSE r[k - 1] + 1]
  <2>1. r = [k \in 1..n |-> r[k]]
    OBVIOUS
  <2> HIDE DEF r, n, given
  <2> QED
    BY <1>1, <1>8, <2>1
<1>10. level = [k \in DOMAIN factors |->
             IF given(k) > 0 THEN given(k) ELSE IF k = 1 THEN LeastLevel(g) ELSE level[k - 1] + 1]
  <2> HIDE DEF n, given, r
  <2> QED
    BY <1>9
<1>11. FactorLevels(g) = level
  BY DEF FactorLevels
<1> HIDE DEF level
<1>12. /\ DOMAIN level = 1..n
       /\ \A k \in 1..n : level[k] =
            IF given(k) > 0 THEN given(k) ELSE IF k = 1 THEN LeastLevel(g) ELSE level[k - 1] + 1
  <2> HIDE DEF n, given
  <2> QED
    BY <1>1, <1>10
<1> DEFINE S == {k \in 0..n : k /= 0 => level[k] \in Nat \ {0}}
<1>13. ASSUME NEW j \in 0..n, \A k \in 0..(j - 1) : k \in S
       PROVE  j \in S
  <2> SUFFICES ASSUME j /= 0 PROVE level[j] \in Nat \ {0}
    OBVIOUS
  <2>1. j \in 1..n
    BY <1>1
  <2>2. CASE j = 1
    BY <1>1, <1>12, <2>1, <2>2
  <2>3. CASE j /= 1
    <3>1. j - 1 \in 0..(j - 1) /\ j - 1 /= 0
      BY <2>1, <2>3
    <3>2. level[j - 1] \in Nat
      BY <1>13, <3>1
    <3> QED
      BY <1>1, <1>12, <2>1, <2>3, <3>2
  <2> QED
    BY <2>2, <2>3
<1>14. \A j \in 0..n : j \in S
  <2> HIDE DEF S, n
  <2>1. n \in Nat
    BY <1>1
  <2> QED
    BY <1>13, <2>1, UpTo
<1>15. \A k \in 1..n : level[k] \in Nat \ {0}
  <2>1. \A k \in 1..n : k \in 0..n /\ k /= 0
    BY <1>1
  <2> QED
    BY <1>14, <2>1
<1> QED
  BY <1>11, <1>12, <1>15

-----------------------------------------------------------------------------
(* All of this depends on the input alone, which no step changes.          *)
LEMMA SameEntries ==
  ASSUME input' = input
  PROVE  /\ Document' = Document
         /\ \A i : /\ Kind(i)' = Kind(i) /\ Name(i)' = Name(i) /\ Parent(i)' = Parent(i)
                   /\ Path(i)' = Path(i) /\ RoleOf(i)' = RoleOf(i) /\ Id(i)' = Id(i)
                   /\ GroupOf(i)' = GroupOf(i) /\ EndOf(i)' = EndOf(i) /\ Size(i)' = Size(i)
         /\ Elements' = Elements
<1>1. Document' = Document
  BY DEF Document
<1>2. \A i : Kind(i)' = Kind(i) /\ Name(i)' = Name(i) /\ Parent(i)' = Parent(i)
  BY <1>1 DEF Kind, Name, Parent
<1>3. \A i : Path(i)' = Path(i)
  BY DEF Path, Document, Name, Parent
<1>4. \A i : RoleOf(i)' = RoleOf(i)
  BY DEF RoleOf, Document, Parent
<1>5. \A i : Id(i)' = Id(i)
  BY <1>2, <1>3, <1>4 DEF Id
<1>6. \A i : GroupOf(i)' = GroupOf(i)
  BY DEF GroupOf, Kind, Document
<1>7. \A i : EndOf(i)' = EndOf(i)
  BY DEF EndOf, Kind, Parent, Document
<1>8. \A i : Size(i)' = Size(i)
  BY <1>7 DEF Size
<1>9. Elements' = Elements
  BY <1>1, <1>2 DEF Elements
<1> QED
  BY <1>1, <1>2, <1>3, <1>4, <1>5, <1>6, <1>7, <1>8, <1>9

LEMMA SameMeaning ==
  ASSUME input' = input
  PROVE  /\ WellNamed' <=> WellNamed
         /\ \A i, ref : Found(i, ref)' = Found(i, ref)
         /\ \A i : AllFound(i)' = AllFound(i)
         /\ \A i : DefinedAsFound(i)' <=> DefinedAsFound(i)
         /\ Definable' = Definable
         /\ ModelTable' = ModelTable /\ PathTable' = PathTable
         /\ NoCycleFound("gate")' <=> NoCycleFound("gate")
         /\ NoCycleFound("parameter")' <=> NoCycleFound("parameter")
<1>1. /\ Document' = Document /\ Elements' = Elements
      /\ \A i : /\ Kind(i)' = Kind(i) /\ Name(i)' = Name(i) /\ Parent(i)' = Parent(i)
                /\ Path(i)' = Path(i) /\ RoleOf(i)' = RoleOf(i) /\ Id(i)' = Id(i)
  BY SameEntries
<1>2. WellNamed' <=> WellNamed
  BY <1>1 DEF WellNamed
<1>3. \A i, ref : Found(i, ref)' = Found(i, ref)
  <2> SUFFICES ASSUME NEW i, NEW ref PROVE Found(i, ref)' = Found(i, ref)
    OBVIOUS
  <2> DEFINE scoped == BasePath(i) \o ref.path
  <2>1. scoped' = scoped
    BY <1>1 DEF BasePath
  <2>2. Meeting(ref.type)' = Meeting(ref.type)
    BY <1>1 DEF Meeting, Fitting
  <2>3. Below(ref.type, scoped)' = Below(ref.type, scoped)
    <3> HIDE DEF scoped
    <3> QED
      BY <1>1, <2>1, <2>2 DEF Below
  <2>4. Below(ref.type, ref.path)' = Below(ref.type, ref.path)
    BY <1>1, <2>2 DEF Below
  <2>5. Public(ref.type, ref.path)' = Public(ref.type, ref.path)
    BY <1>1, <2>2 DEF Public
  <2>6. Found(i, ref) =
           IF Parent(i) /= 0 /\ Below(ref.type, scoped) /= {}
           THEN Below(ref.type, scoped)
           ELSE IF Len(ref.path) > 1 THEN Below(ref.type, ref.path)
           ELSE Public(ref.type, ref.path)
    BY FoundNamed
  <2>7. Found(i, ref)' =
           IF Parent(i)' /= 0 /\ Below(ref.type, scoped)' /= {}
           THEN Below(ref.type, scoped)'
           ELSE IF Len(ref.path) > 1 THEN Below(ref.type, ref.path)'
           ELSE Public(ref.type, ref.path)'
    BY DEF Found, Below, Public, Meeting, Fitting
  <2> HIDE DEF scoped
  <2> QED
    BY <1>1, <2>3, <2>4, <2>5, <2>6, <2>7
<1>4. \A i : AllFound(i)' = AllFound(i)
  BY <1>1, <1>3 DEF AllFound
<1>5. \A i : DefinedAsFound(i)' <=> DefinedAsFound(i)
  BY <1>1, <1>3, <1>4 DEF DefinedAsFound
<1>6. Definable' = Definable /\ ModelTable' = ModelTable /\ PathTable' = PathTable
  BY <1>1 DEF Definable, ModelTable, PathTable
<1>7. /\ NoCycleFound("gate")' <=> NoCycleFound("gate")
      /\ NoCycleFound("parameter")' <=> NoCycleFound("parameter")
  BY <1>1, <1>4 DEF NoCycleFound
<1> QED
  BY <1>2, <1>3, <1>4, <1>5, <1>6, <1>7

LEMMA SameFactors ==
  ASSUME input' = input
  PROVE  /\ \A g : /\ MembersMeant(g)' = MembersMeant(g) /\ LeastLevel(g)' = LeastLevel(g)
                   /\ FactorLevels(g)' = FactorLevels(g) /\ HighestLevel(g)' = HighestLevel(g)
                   /\ Replaceable(g)' <=> Replaceable(g)
<1>1. /\ Document' = Document /\ Elements' = Elements
      /\ \A i : Kind(i)' = Kind(i) /\ GroupOf(i)' = GroupOf(i)
  BY SameEntries
<1>2. \A g : MembersMeant(g)' = MembersMeant(g)
  BY <1>1 DEF MembersMeant
<1>3. \A g : LeastLevel(g)' = LeastLevel(g)
  BY <1>1, <1>2 DEF LeastLevel
<1>4. \A g : FactorLevels(g)' = FactorLevels(g)
  BY <1>1, <1>3 DEF FactorLevels
<1>5. \A g : HighestLevel(g)' = HighestLevel(g)
  BY <1>4 DEF HighestLevel
<1>6. \A g, level : ValueAt(g, level)' = ValueAt(g, level)
  BY <1>1, <1>4 DEF ValueAt
<1>7. \A g : Replaceable(g)' <=> Replaceable(g)
  BY <1>1, <1>2, <1>3, <1>4, <1>5, <1>6 DEF Replaceable, WellFactored
<1> QED
  BY <1>2, <1>3, <1>4, <1>5, <1>7

LEMMA SameValidity ==
  ASSUME input' = input
  PROVE  ValidAsFound' <=> ValidAsFound
<1>1. /\ WellNamed' <=> WellNamed
      /\ \A i : DefinedAsFound(i)' <=> DefinedAsFound(i)
      /\ Definable' = Definable
      /\ NoCycleFound("gate")' <=> NoCycleFound("gate")
      /\ NoCycleFound("parameter")' <=> NoCycleFound("parameter")
  BY SameMeaning
<1>2. \A g : Replaceable(g)' <=> Replaceable(g)
  BY SameFactors
<1>3. Elements' = Elements /\ \A i : Kind(i)' = Kind(i)
  BY SameEntries
<1> QED
  BY <1>1, <1>2, <1>3 DEF ValidAsFound
=============================================================================
