--------------------------- MODULE MCCutSetEngines ---------------------------
(***************************************************************************)
(* The graphs that the runs of ZBDD and MOCUS analyze: what preprocessing  *)
(* leaves for them, complements at variables only.                         *)
(***************************************************************************)
EXTENDS CutSetEngines

Types == {"and", "or"}

(* Graphs whose complements stand at variables: two lower gates, which     *)
(* their parents may share, and a root.                                    *)
Lower == {{2, 3}, {2, -3}, {3, 4}, {-3, -4}}
Middle == {{2, 3}, {2, -4}, {3, 4}, {5, 2}, {5, -4}, {5, 4}}
Upper == {{5, 6}, {6, 2}, {6, -4}, {5, 6, 3}}

Assembled(a, b, c, s, t, u, marked) ==
  LET whole == [type |-> 5 :> s @@ 6 :> t @@ 7 :> u,
                args |-> 5 :> a @@ 6 :> b @@ 7 :> c,
                root |-> 7, modules |-> {}, complement |-> FALSE, substitutions |-> <<>>]
  IN [whole EXCEPT !.modules = {7} \cup IF marked THEN {g \in {5, 6} : IsModule(whole, g)} ELSE {}]

Proper(g) ==
  \A m \in g.modules : \E x, y \in SUBSET Variables(g) : Holds(g, m, x) /= Holds(g, m, y)

Full(g) == Below(g, g.root) = Nodes(g)

(* Gates shared by three parents, and modules within modules.              *)
Wide(s, t, u, l, marked) ==
  LET whole == [type |-> 6 :> s @@ 7 :> t @@ 8 :> s @@ 9 :> u @@ 10 :> t,
                args |-> 6 :> {2, 3} @@ 7 :> {6, l} @@ 8 :> {6, 5} @@ 9 :> {7, 8} @@ 10 :> {9, 6, 5},
                root |-> 10, modules |-> {}, complement |-> FALSE, substitutions |-> <<>>]
  IN [whole EXCEPT !.modules = {10} \cup IF marked THEN {g \in {6, 7, 8, 9} : IsModule(whole, g)} ELSE {}]

Nested(s, t, u, l) ==
  [type |-> 6 :> s @@ 7 :> t @@ 8 :> u,
   args |-> 6 :> {2, l} @@ 7 :> {6, 4} @@ 8 :> {7, 5},
   root |-> 8, modules |-> {6, 7, 8}, complement |-> FALSE, substitutions |-> <<>>]

Trivial(child) ==
  [type |-> 7 :> "null", args |-> 7 :> {child}, root |-> 7, modules |-> {}, complement |-> FALSE, substitutions |-> <<>>]

(* Substitutions that pass validation: no target is a source, no target or *)
(* source is in the hypothesis of another substitution.                    *)
Exchange(hypothesis, source, target) == [hypothesis |-> hypothesis, source |-> source, target |-> target]

Substitutions ==
  {<<Exchange({2}, {3}, 0)>>, <<Exchange({2, 3}, {3}, 4)>>, <<Exchange({2}, {2}, 3)>>,
   <<Exchange({2}, {4}, 0), Exchange({3}, {3}, 5)>>,
   <<Exchange({2}, {2}, 5), Exchange({3}, {3}, 5)>>,
   <<Exchange({2, 3}, {2, 3}, 5), Exchange({4}, {4}, 0)>>}

Basis(s, t, u, marked) ==
  LET whole == [type |-> 7 :> s @@ 8 :> t @@ 9 :> u,
                args |-> 7 :> {2, 3} @@ 8 :> {3, 4} @@ 9 :> {7, 8, 5},
                root |-> 9, modules |-> {}, complement |-> FALSE, substitutions |-> <<>>]
  IN [whole EXCEPT !.modules = {9} \cup IF marked THEN {g \in {7, 8} : IsModule(whole, g)} ELSE {}]

MCSubstituted ==
  {[g EXCEPT !.substitutions = subs] :
     g \in {Basis(s, t, u, TRUE) : s \in Types, t \in Types, u \in Types}
           \cup {Nested(s, t, u, 3) : s \in Types, t \in Types, u \in Types}
           \cup {Trivial(2)},
     subs \in Substitutions}

(* A product that contains another only below their common variable.       *)
Redundant ==
  [type |-> 7 :> "and" @@ 8 :> "and" @@ 9 :> "and" @@ 10 :> "or",
   args |-> 7 :> {2, 3, 4} @@ 8 :> {3, 5} @@ 9 :> {2, 5} @@ 10 :> {4, 7, 8, 9},
   root |-> 10, modules |-> {10}, complement |-> FALSE, substitutions |-> <<>>]

(* Two choices on one variable: a product of the one contradicts a product *)
(* of the other.                                                           *)
Contradicting ==
  [type |-> 6 :> "and" @@ 7 :> "and" @@ 8 :> "or" @@ 9 :> "and" @@ 10 :> "and" @@ 11 :> "or" @@ 12 :> "and",
   args |-> 6 :> {2, 3} @@ 7 :> {-2, 4} @@ 8 :> {6, 7} @@ 9 :> {2, 5} @@ 10 :> {-2, 3}
            @@ 11 :> {9, 10} @@ 12 :> {8, 11},
   root |-> 12, modules |-> {12}, complement |-> FALSE, substitutions |-> <<>>]

MCPlain ==
  {g \in {Assembled(a, b, c, s, t, u, marked) :
            a \in Lower, b \in Middle, c \in Upper, s \in Types, t \in Types, u \in Types,
            marked \in BOOLEAN} :
     Full(g) /\ Proper(g)}
  \cup {Wide(s, t, u, l, marked) :
          s \in Types, t \in Types, u \in Types, l \in {4, -4}, marked \in BOOLEAN}
  \cup {Nested(s, t, u, l) : s \in Types, t \in Types, u \in Types, l \in {3, -3}}
  \cup {Redundant, Contradicting} \cup {Trivial(child) : child \in {1, -1, 2, -2}}

SampleGraphs == MCPlain \cup MCSubstituted

(* Trivial graphs, one with its only event to be exchanged.                *)
SingleEvents ==
  {Trivial(2), [Trivial(2) EXCEPT !.substitutions = <<Exchange({2}, {2}, 3)>>]}
=============================================================================
