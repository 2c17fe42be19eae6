---------------------------- MODULE MCBddAnalysis ----------------------------
(***************************************************************************)
(* The graphs that the runs of the BDD analyze: what preprocessing leaves  *)
(* for it, complements also at gates and at the root.                      *)
(***************************************************************************)
EXTENDS Quantification

(* Three variables, two gates that may share them and one another, and a   *)
(* root; types, complements, module marks and the complement of the whole  *)
(* vary.                                                                   *)
Types == {"and", "or"}

Lower == {{2, 3}, {2, -3}, {3, 4}}
Middle == {{2, 3}, {2, -4}, {-2, -3}, {3, 4}, {-5, 2}, {5, 4}, {-5, -3}}
Upper == {{5, 6}, {-5, 6}, {5, -6}, {-5, -6, 4}, {6, -2}, {5, 6, 2}}

Assembled(a, b, c, s, t, u, marked, complement) ==
  LET whole == [type |-> 5 :> s @@ 6 :> t @@ 7 :> u,
                args |-> 5 :> a @@ 6 :> b @@ 7 :> c,
                root |-> 7, modules |-> {}, complement |-> complement, substitutions |-> <<>>]
  IN [whole EXCEPT !.modules = {7} \cup IF marked THEN {g \in {5, 6} : IsModule(whole, g)} ELSE {}]

(* A module is never a constant function (bdd.cc:364).                     *)
Proper(g) ==
  \A m \in g.modules : \E x, y \in SUBSET Variables(g) : Holds(g, m, x) /= Holds(g, m, y)

Full(g) == Below(g, g.root) = Nodes(g)

(* A gate with three parents, one of them the root.                        *)
Fan(s, t, u, sign, marked) ==
  LET whole == [type |-> 5 :> s @@ 6 :> t @@ 7 :> s @@ 8 :> u,
                args |-> 5 :> {2, 3} @@ 6 :> {5, 4} @@ 7 :> {-5, -4} @@ 8 :> {5, sign * 6, 7},
                root |-> 8, modules |-> {}, complement |-> FALSE, substitutions |-> <<>>]
  IN [whole EXCEPT !.modules = {8} \cup IF marked THEN {g \in {5, 6, 7} : IsModule(whole, g)} ELSE {}]

Trivial(child) ==
  [type |-> 7 :> "null", args |-> 7 :> {child}, root |-> 7, modules |-> {}, complement |-> FALSE, substitutions |-> <<>>]

(* A choice on a variable between the same, next to what is chosen; the    *)
(* variable has the most parents and comes first.                          *)
Idle(s, t) ==
  [type |-> 6 :> "and" @@ 7 :> "and" @@ 8 :> "or" @@ 9 :> "and" @@ 10 :> s @@ 11 :> s @@ 12 :> t,
   args |-> 6 :> {2, 3, 4} @@ 7 :> {-2, 3, 4} @@ 8 :> {6, 7} @@ 9 :> {3, 4}
            @@ 10 :> {2, 5} @@ 11 :> {-2, 5} @@ 12 :> {8, 9, 10, 11},
   root |-> 12, modules |-> {12}, complement |-> FALSE, substitutions |-> <<>>]

SampleGraphs ==
  {g \in {Assembled(a, b, c, s, t, u, marked, complement) :
            a \in Lower, b \in Middle, c \in Upper, s \in Types, t \in Types, u \in Types,
            marked \in BOOLEAN, complement \in BOOLEAN} :
     Full(g) /\ Proper(g)}
  \cup {Fan(s, t, u, sign, marked) :
          s \in Types, t \in Types, u \in Types, sign \in {1, -1}, marked \in BOOLEAN}
  \cup {Idle(s, t) : s \in Types, t \in Types}
  \cup {Trivial(child) : child \in {1, -1, 2, -2}}

(* Two modules side by side, one of which may not be coherent, in either   *)
(* order.                                                                  *)
Pair(s, t, u, a, b) ==
  [type |-> 6 :> s @@ 7 :> t @@ 8 :> u, args |-> 6 :> a @@ 7 :> b @@ 8 :> {6, 7},
   root |-> 8, modules |-> {6, 7, 8}, complement |-> FALSE, substitutions |-> <<>>]

Pairs ==
  UNION {{Pair(s, t, u, {2, 3}, b), Pair(s, t, u, b, {2, 3})} :
             s \in Types, t \in Types, u \in Types, b \in {{4, -5}, {-4, -5}, {4, 5}}}

(* A module below variables that leave it different limits.                *)
Deep(t) ==
  [type |-> 7 :> "and" @@ 8 :> "or" @@ 9 :> t @@ 10 :> "and",
   args |-> 7 :> {5, 6} @@ 8 :> {4, 7} @@ 9 :> {2, 3} @@ 10 :> {8, 9},
   root |-> 10, modules |-> {9, 10}, complement |-> FALSE, substitutions |-> <<>>]

(* Of the graphs, these are quantified; in one a module is in a module.    *)
Nested ==
  [type |-> 6 :> "and" @@ 7 :> "or" @@ 8 :> "and", args |-> 6 :> {2, -3} @@ 7 :> {-6, 4} @@ 8 :> {7, 5},
   root |-> 8, modules |-> {6, 7, 8}, complement |-> FALSE, substitutions |-> <<>>]

QuantifiedGraphs ==
  {Pair("or", "or", "and", {2, 3}, {4, -5}), Pair("or", "and", "or", {-4, -5}, {2, 3}),
   Nested, Deep("or"), Fan("and", "or", "and", -1, TRUE), Trivial(1), Trivial(-2)}
  \cup {Assembled({2, -3}, {3, 4}, {-5, 6}, "and", "or", u, TRUE, TRUE) : u \in Types}

ModularGraphs == SampleGraphs \cup Pairs \cup {Nested, Deep("and"), Deep("or")}

Quantities == QuantifiedGraphs \X {3} \X {FALSE}

(* (a or b) and (c or not d): the second sum is a module that negations can*)
(* make unity.                                                             *)
TwoSums == {Pair("or", "or", "and", {2, 3}, {4, -5})}
=============================================================================
