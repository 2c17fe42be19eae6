---------------------------- MODULE MCPreprocessor ----------------------------
EXTENDS Preprocessor

F(connective, args) == [connective |-> connective, min |-> 0, max |-> 0, args |-> args]
K(min, args) == [F("atleast", args) EXCEPT !.min = min]
C(min, max, args) == [F("cardinality", args) EXCEPT !.min = min, !.max = max]

B(i) == Arg(FALSE, "basic", i)
NotB(i) == Arg(TRUE, "basic", i)
On == Arg(FALSE, "house", 1)
Off == Arg(FALSE, "house", 0)
NotOn == Arg(TRUE, "house", 1)
G1 == Arg(FALSE, "gate", 11)
NotG1 == Arg(TRUE, "gate", 11)
G2 == Arg(FALSE, "gate", 12)
NotG2 == Arg(TRUE, "gate", 12)
G3 == Arg(FALSE, "gate", 13)
NotG3 == Arg(TRUE, "gate", 13)

Model(top, g1, g2, g3) ==
  [top |-> top,
   gates |-> [g \in {11, 12, 13} |-> CASE g = 11 -> g1 [] g = 12 -> g2 [] g = 13 -> g3],
   houses |-> [h \in {1, 0} |-> h = 1],
   basics |-> IF \E j \in DOMAIN g1.args : g1.args[j] = B(5) THEN 2..5 ELSE 2..4,
   ccf_gate |-> <<>>, rules |-> <<>>]

Unused == F("null", <<B(2)>>)

(* Gates that pass something on, that turn constant, and that stay.        *)
Passing_ == {F("null", <<B(2)>>), F("null", <<On>>), F("null", <<Off>>), F("not", <<B(2)>>)}

Staying ==
  {F("and", <<B(2), On>>), F("or", <<B(2), Off>>), F("and", <<B(2), NotOn>>),
   F("xor", <<B(2), On>>), F("xor", <<B(2), Off>>), F("iff", <<B(2), NotB(3)>>),
   F("imply", <<On, B(2)>>), F("imply", <<B(2), Off>>), F("nor", <<B(2), Off>>),
   F("nand", <<B(2), On>>), K(2, <<B(2), On, B(3)>>), K(2, <<B(2), Off, B(3)>>),
   C(0, 0, <<B(2), B(3)>>), C(1, 1, <<B(2), B(3)>>), C(0, 2, <<B(2), B(3)>>)}

(* They are below a gate in between and the top; under votes, they meet    *)
(* each other and events that are there already.                           *)
Small ==
  {Model(top, g1, F("not", <<G1>>), Unused) :
     top \in {F("iff", <<G1, G2>>), F("imply", <<NotG1, G2>>), F("nor", <<G2, B(2)>>),
              C(1, 2, <<G1, G2, B(3)>>)},
     g1 \in Passing_ \cup Staying}
  \cup {Model(top, g1, g2, Unused) :
     top \in {K(2, <<NotG1, G2, B(3), B(4)>>), K(3, <<G1, G2, B(2), B(3)>>)},
     g1 \in Passing_, g2 \in {F("or", <<NotG1, B(2)>>), K(2, <<G1, B(2), B(3)>>)}}

(* Gates that share other gates and events, for the passes to find.        *)
Bottoms ==
  {F("and", <<B(2), B(3)>>), F("or", <<B(2), NotB(3)>>), F("xor", <<B(2), B(4)>>),
   K(2, <<B(2), B(3), B(4)>>)}

Seconds ==
  {F("and", <<G3, B(2)>>), F("or", <<NotG3, B(4)>>), F("nand", <<G3, B(3), B(4)>>),
   F("and", <<NotG3, B(4)>>)}

Firsts ==
  {F("or", <<NotG3, B(2), B(3)>>), F("and", <<G2, NotG3, B(5)>>), F("or", <<G2, NotG3, B(5)>>),
   F("and", <<G3, G2>>), K(2, <<G2, G3, B(2)>>)}

Roots ==
  {F("and", <<G1, G2>>), F("or", <<G1, G2>>), F("or", <<G1, NotG2, B(2)>>),
   F("and", <<G1, G2, G3>>)}

Shared_ == {Model(top, g1, g2, g3) : top \in Roots, g1 \in Firsts, g2 \in Seconds, g3 \in Bottoms}

(* Votes over the same events, and a module with both signs.               *)
Voting ==
  {Model(F("and", <<B(5), G1, NotG2>>), K(2, <<B(2), B(3), B(4), B(5)>>), K(3, <<B(2), B(3), B(4), B(5)>>), Unused),
   Model(F("or", <<G1, G2>>), F("and", <<NotG3, B(5)>>), F("and", <<G3, B(4)>>), F("and", <<B(2), B(3)>>))}

(* Rules: an implication and a denial, with hypotheses on gates.           *)
Ruled ==
  {[Model(F("or", <<G1, B(3)>>), g1, F("null", <<G1>>), Unused) EXCEPT !.rules = rules] :
     g1 \in {F("null", <<B(2)>>), F("and", <<B(2), B(4)>>), F("null", <<On>>)},
     rules \in {<<[hypothesis |-> F("and", <<B(2), B(3)>>), target |-> 4]>>,
                <<[hypothesis |-> F("null", <<B(2)>>), target |-> 0]>>,
                <<[hypothesis |-> F("or", <<B(3), B(4)>>), target |-> 2],
                  [hypothesis |-> F("and", <<B(2), B(4)>>), target |-> 0]>>}}

(* A member of a CCF group that a gate stands for, with its own events.    *)
Common ==
  {[Model(F(connective, <<B(2), G1>>), F("and", <<NotB(2), B(3)>>), F("or", <<B(4), NotB(3)>>), Unused)
      EXCEPT !.ccf_gate = [i \in {2} |-> 12]] : connective \in {"and", "or", "xor"}}

Samples == Small \cup Shared_ \cup Voting \cup Ruled \cup Common

(* Two of three, two of which are the same event.                          *)
Twice == {Model(K(2, <<G1, B(2), B(3)>>), F("null", <<B(2)>>), F("null", <<G1>>), Unused)}

(* A gate that gives its arguments away for another that passes on, and is *)
(* the only candidate left in the module.                                  *)
LeavesNulls ==
  {Model(F("or", <<G1, NotG2, B(2)>>), F("and", <<NotG3, B(2), B(3)>>), F("nand", <<NotG3, B(4)>>),
         F("and", <<B(2), B(3)>>))}

(* An argument of the root is constant once its own arguments are joined.  *)
LosesRoot ==
  {Model(F("or", <<G1, G3>>), F("and", <<G3, G2>>), F("and", <<NotG3, B(4)>>), F("xor", <<B(2), B(4)>>))}

Asserting == LeavesNulls \cup LosesRoot
=============================================================================
