----------------------------- MODULE MCInitializer -----------------------------
(***************************************************************************)
(* The documents that the run of initialization reads: graphs of gates and *)
(* of parameters, over trees and components; names, roles and references   *)
(* in nested components; CCF groups.                                       *)
(***************************************************************************)
EXTENDS Initializer

Entry(kind, name, parent) ==
  [kind |-> kind, name |-> name, parent |-> parent, role |-> "", refs |-> <<>>,
   connective |-> "null", min |-> 0, expression |-> TRUE, model |-> "", factors |-> <<>>]

Private(entry) == [entry EXCEPT !.role = "private"]

End(parent) == Entry("end", "", parent)

To(type, path) == [type |-> type, path |-> path]

(* A gate, of a connective that its number of arguments allows.            *)
GateEntry(name, parent, refs) ==
  [Entry("gate", name, parent) EXCEPT !.refs = refs,
                                      !.connective = IF Len(refs) = 1 THEN "null" ELSE "xor"]

ParameterEntry(name, refs) == [Entry("parameter", name, 0) EXCEPT !.refs = refs]

(* Before any definition no node has arguments.                            *)
MCGraphs == {[n \in Nodes |-> <<>>]}

-----------------------------------------------------------------------------
(* Every graph of three nodes with two arguments each, in parameters the   *)
(* same perhaps twice, as in the square of another.                        *)
Short(names) == UNION {[1..n -> names] : n \in 0..2}

Plain(names) == {s \in Short(names) : \A i, j \in DOMAIN s : s[i] = s[j] => i = j}

Parameters == {"p", "q", "r"}

ParameterRefs(s) == [k \in DOMAIN s |-> To("parameter", <<s[k]>>)]

ParameterGraphs ==
  {<<ParameterEntry("p", <<To("parameter", <<"s">>)>>)>>} \cup
  {<<ParameterEntry("p", ParameterRefs(f["p"])), ParameterEntry("q", ParameterRefs(f["q"])),
     ParameterEntry("r", ParameterRefs(f["r"]))>> : f \in [Parameters -> Short(Parameters)]}

Gates == {"f", "g", "h"}

GateRefs(s) ==
  IF s = <<>> THEN <<To("basic-event", <<"e">>)>> ELSE [k \in DOMAIN s |-> To("gate", <<s[k]>>)]

G(f, name, parent) == GateEntry(name, parent, GateRefs(f[name]))

Event(name, parent) == Entry("basic-event", name, parent)

OneTree(f) ==
  <<Entry("component", "T", 0), G(f, "f", 1), G(f, "g", 1), G(f, "h", 1), End(1), Event("e", 0)>>

TwoTrees(f) ==
  <<Event("e", 0), Entry("component", "T", 0), G(f, "f", 2), G(f, "g", 2), End(2),
    Entry("component", "U", 0), G(f, "h", 6), End(6)>>

Nested(f) ==
  <<Entry("component", "T", 0), G(f, "f", 1), Entry("component", "C", 1), G(f, "g", 3), End(3),
    G(f, "h", 1), End(1), Event("e", 0)>>

GateGraphs ==
  UNION {{OneTree(f), TwoTrees(f), Nested(f)} : f \in [Gates -> Plain(Gates)]}

(* Gates and parameters both, either perhaps in a cycle.                   *)
Both ==
  {<<ParameterEntry("p", <<To("parameter", <<s>>)>>), ParameterEntry("q", <<>>),
     Entry("component", "T", 0), G([g |-> t], "g", 3), End(3),
     [Event("e", 0) EXCEPT !.refs = <<To("parameter", <<"p">>)>>]>> :
     s \in {"p", "q"}, t \in {<<>>, <<"g">>}}

-----------------------------------------------------------------------------
Roles == {"", "public", "private"}

Others ==
  {Entry(kind, name, 0) : kind \in {"gate", "basic-event", "house-event"}, name \in {"e", "g"}}

Placed(entry, parent, role) ==
  LET placed == [entry EXCEPT !.parent = parent, !.role = role]
  IN IF placed.kind = "gate" THEN [placed EXCEPT !.refs = <<To("event", <<"k">>)>>] ELSE placed

References ==
  {To("event", <<"e">>), To("basic-event", <<"e">>), To("event", <<"C", "e">>),
   To("house-event", <<"T", "C", "e">>), To("event", <<"T", "e">>), To("gate", <<"g">>)}

(* A gate with references, beside and around elements of the same names in *)
(* its own component, in one within and in the model.                      *)
Scoped(refs, component, inner, outer, last) ==
  <<Entry("component", "T", 0), GateEntry("g", 1, refs),
    [Entry("component", "C", 1) EXCEPT !.role = component], inner, End(3), outer, End(1),
    Event("k", 0), last>>

Scopes ==
  {Scoped(<<ref>>, role, Placed(x, 3, r), Placed(y, 1, s), z) :
     ref \in References, role \in {"", "private"}, x \in Others, r \in {"", "public"},
     y \in {o \in Others : o.name = "e"}, s \in {"", "private"},
     z \in {Event("e", 0), Entry("house-event", "m", 0), Private(Event("m", 0))}}
  \cup
  {Scoped(<<a, b>>, "private", Placed(Event("e", 0), 3, ""), Placed(Event("e", 0), 1, s), Event("m", 0)) :
     a \in References, b \in References, s \in Roles}

(* Names of components, numbers of arguments, and an event that has no     *)
(* expression.                                                             *)
Shapes ==
  {<<Entry("component", "T", 0), [GateEntry("g", 1, refs) EXCEPT !.connective = c, !.min = min],
     Entry("component", "C", 1), End(3), Entry("component", name, 1), End(5), End(1),
     Entry("component", tree, 0), End(8),
     [Event("e", 0) EXCEPT !.expression = x], Event("k", 0)>> :
     refs \in {<<To("event", <<"e">>)>>, <<To("event", <<"e">>), To("event", <<"k">>)>>},
     c \in {"null", "not", "and", "xor", "atleast"}, min \in {0, 2}, name \in {"C", "D"}, tree \in {"T", "U"},
     x \in BOOLEAN}

-----------------------------------------------------------------------------
Models == {"beta-factor", "MGL", "alpha-factor", "phi-factor"}

Given(levels, values) ==
  [k \in DOMAIN levels |-> [level |-> levels[k], value |-> values[k]]]

Values == {<<<<1, 2>>, <<1, 4>>, <<1, 4>>>>, <<<<0, 1>>, <<1, 1>>, <<1, 3>>>>, <<<<1, 1>>, <<2, 1>>, <<0, 1>>>>}

Member(name, parent) == Entry("ccf-member", name, parent)

GroupEntry(parent, m, factors) ==
  [Entry("ccf", "c", parent) EXCEPT !.model = m, !.factors = factors]

Levels == UNION {[1..n -> 0..4] : n \in 1..3}

(* Groups at the model scope, whose factors come in every order, with and  *)
(* without their levels; the factors of an alpha model are not all zero.   *)
Factored ==
  {<<GroupEntry(0, m, Given(levels, values))>> \o members \o <<End(1)>> :
     m \in Models, levels \in Levels \ {<<0>>, <<1>>}, values \in Values,
     members \in {<<Member("x", 0), Member("y", 0)>>, <<Member("x", 0), Member("y", 0), Member("z", 0)>>}}
  \cup {<<GroupEntry(0, m, Given(<<level>>, <<<<1, 2>>>>)), Member("x", 0)>> \o others \o <<End(1)>> :
          m \in Models, level \in 0..1, others \in {<<>>, <<Member("y", 0)>>, <<Member("y", 0), Member("z", 0)>>}}

(* Groups in components, whose members gates and other elements meet.      *)
Grouped ==
  {<<[Entry("component", "T", 0) EXCEPT !.role = ""],
     [Entry("component", "C", 1) EXCEPT !.role = role],
     GroupEntry(2, "MGL", Given(<<0>>, <<<<1, 2>>>>)), Member("x", 2), Member(second, 2), End(3),
     [Placed(beside, IF within THEN 2 ELSE 1, r) EXCEPT !.name = "y"], GateEntry("g", 2, <<ref>>), End(2), End(1), Event("k", 0)>> :
     role \in {"", "private"}, second \in {"x", "y"}, beside \in Others, within \in BOOLEAN, r \in Roles,
     ref \in {To("basic-event", <<"y">>), To("event", <<"y">>), To("event", <<"T", "C", "y">>)}}

(* A group that only its component finds fault with: an event there is     *)
(* public, so that its id and that of the private member differ.           *)
Hidden ==
  {<<Entry("component", "T", 0), [Entry("component", "C", 1) EXCEPT !.role = "private"],
     Placed(Event("y", 2), 2, role), GroupEntry(2, "MGL", Given(<<0>>, <<<<1, 2>>>>)),
     Member("x", 2), Member("y", 2), End(4), End(2), End(1)>> : role \in Roles}

TwoGroups ==
  {<<GroupEntry(0, "MGL", Given(<<0>>, <<<<1, 2>>>>)), Member("x", 0), Member("y", 0), End(1),
     [GroupEntry(0, "beta-factor", Given(<<0>>, <<<<1, 2>>>>)) EXCEPT !.name = name],
     Member("z", 0), Member(other, 0), End(5), Event("e", 0)>> :
     name \in {"c", "d"}, other \in {"y", "w"}}

-----------------------------------------------------------------------------
(* A private member of a CCF group, and a public event of its name; a group*)
(* with one factor, of level 1.                                            *)
Disputed ==
  {<<Entry("component", "T", 0), [Entry("component", "C", 1) EXCEPT !.role = "private"],
     GroupEntry(2, "MGL", Given(<<0>>, <<<<1, 2>>>>)), Member("x", 2), Member("y", 2), End(3),
     GateEntry("g", 2, <<To("event", <<"y">>)>>), End(2), Event("y", 1), End(1)>>,
   <<GroupEntry(0, "alpha-factor", Given(<<1>>, <<<<1, 2>>>>)), Member("x", 0), Member("y", 0), End(1)>>}

DisputedInputs == [document : Disputed, probability_analysis : {FALSE}]

MCInputs ==
  [document : ParameterGraphs \cup GateGraphs \cup Both \cup Scopes \cup Factored \cup Grouped
               \cup Hidden \cup TwoGroups,
   probability_analysis : {FALSE}]
  \cup [document : Shapes, probability_analysis : BOOLEAN]
=============================================================================
