------------------------------ MODULE PdagGates ------------------------------
(***************************************************************************)
(* The gates of a PDAG (src/src/pdag.h, src/src/pdag.cc): how a gate takes *)
(* arguments, and what becomes of its type, its number and its arguments   *)
(* when one is already there, is there with the other sign, or is constant.*)
(*                                                                         *)
(* A graph is a record of the maps                                         *)
(*   type, min, args : of gates, args being sets of signed indices         *)
(*   parents         : of all nodes, the sets of their parent gates        *)
(* with module, the gates flagged as modules, nulls, the gates registered  *)
(* for removal in order, registers, which tells whether they are, and last,*)
(* the greatest index in use.  Index 1 is the constant TRUE, -1 is FALSE.  *)
(***************************************************************************)
EXTENDS Integers, FiniteSets, Sequences

Abs(i) == IF i < 0 THEN -i ELSE i

Signed(negative, i) == IF negative THEN -i ELSE i

kConstant == 1

Types == {"and", "or", "atleast", "xor", "not", "nand", "nor", "null"}

LOCAL With(f, x, v) == [y \in DOMAIN f \cup {x} |-> IF y = x THEN v ELSE f[y]]

Only(S) == CHOOSE x \in S : TRUE

Constant(g, i) == g.args[i] \in {{kConstant}, {-kConstant}}

-----------------------------------------------------------------------------
(* The index of the next gate, and the graph with it.                      *)
Next_(g) == g.last + 1

Created(g, type, min) ==
  LET i == Next_(g)
  IN [g EXCEPT !.type = With(@, i, type), !.min = With(@, i, min), !.args = With(@, i, {}),
               !.parents = With(@, i, {}), !.last = i]

(* Gate::type(type): gates that only pass through are registered.          *)
Typed(g, i, type) ==
  [g EXCEPT !.type[i] = type,
            !.nulls = IF type = "null" /\ g.registers THEN Append(@, i) ELSE @]

Inserted(g, i, a) == [g EXCEPT !.args[i] = @ \cup {a}, !.parents[Abs(a)] = @ \cup {i}]

EraseArg(g, i, a) == [g EXCEPT !.args[i] = @ \ {a}, !.parents[Abs(a)] = @ \ {i}]

(* Seeded defect: the arguments are left with a parent that has let go.    *)
EraseArgsOnly(g, i) == [g EXCEPT !.args[i] = {}]

EraseArgs(g, i) ==
  [g EXCEPT !.args[i] = {}, !.parents = [n \in DOMAIN @ |-> @[n] \ {i}]]

MakeConstant(g, i, state) ==
  Inserted(Typed(EraseArgs(g, i), i, "null"), i, Signed(~state, kConstant))

Clone(g, i) ==
  LET c == Next_(g)
      bare == Created(g, g.type[i], g.min[i])
  IN [bare EXCEPT !.args[c] = g.args[i],
                  !.parents = [n \in DOMAIN @ |-> IF n /= c /\ i \in @[n] THEN @[n] \cup {c} ELSE @[n]]]

NegateArgs(g, i) == [g EXCEPT !.args[i] = {-a : a \in @}]

-----------------------------------------------------------------------------
(* Seeded defect: a gate with one argument left keeps its type.            *)
Unreduced(g, i, type, n) == g

ReduceLogic(g, i, type, n) == IF Cardinality(g.args[i]) = n THEN Typed(g, i, type) ELSE g

(* AddConstantArg<true>.                                                   *)
AddTrue(g, i) ==
  LET type == g.type[i]
      fewer == [g EXCEPT !.min[i] = @ - 1]
  IN CASE type \in {"null", "or"} -> MakeConstant(g, i, TRUE)
       [] type \in {"nor", "not"} -> MakeConstant(g, i, FALSE)
       [] type = "nand" -> ReduceLogic(g, i, "not", 1)
       [] type = "and" -> ReduceLogic(g, i, "null", 1)
       [] type = "xor" -> Typed(g, i, "not")
       [] type = "atleast" -> IF fewer.min[i] = 1 THEN Typed(fewer, i, "or") ELSE fewer

(* AddConstantArg<false>.                                                  *)
AddFalse(g, i) ==
  LET type == g.type[i]
  IN CASE type \in {"null", "and"} -> MakeConstant(g, i, FALSE)
       [] type \in {"nand", "not"} -> MakeConstant(g, i, TRUE)
       [] type = "nor" -> ReduceLogic(g, i, "not", 1)
       [] type = "or" -> ReduceLogic(g, i, "null", 1)
       [] type = "xor" -> Typed(g, i, "null")
       [] type = "atleast" -> ReduceLogic(g, i, "and", g.min[i])

(* K/N gates: @(k, x, x, ys) is x & @(k-2, ys) | @(k, ys).  A gate of two  *)
(* arguments loses the one that is there twice.                            *)
AtleastOfTwo(g, i, a) == Typed(EraseArg(g, i, a), i, "null")

(* As many are asked for as there are arguments: x & @(k-2, ys).           *)
AtleastOfAll(g, i, a) ==
  LET two == Next_(g)
      k == g.min[i] - 2
      cloned == [Clone(g, i) EXCEPT !.min[two] = k]
      moved == Inserted(EraseArg(Typed(EraseArgs(cloned, i), i, "and"), two, a), i, a)
  IN Inserted(IF k = 1 THEN Typed(moved, two, "or") ELSE moved, i, two)

(* x | @(2, ys).                                                           *)
PairOrRest(g, i, one, a) == Inserted(EraseArg(g, one, a), i, a)

(* x & @(k-2, ys) | @(k, ys).                                              *)
BothOrRest(g, i, one, a) ==
  LET conj == Next_(g)
      two == conj + 1
      k == g.min[one] - 2
      outer == Inserted(Created(g, "and", 0), i, conj)
      moved == Inserted(EraseArg(outer, one, a), conj, a)
      cloned == [Clone(moved, one) EXCEPT !.min[two] = k]
  IN Inserted(IF k = 1 THEN Typed(cloned, two, "or") ELSE cloned, conj, two)

AtleastOfMore(g, i, a) ==
  LET one == Next_(g)
      outer == Inserted(Typed(EraseArgs(Clone(g, i), i), i, "or"), i, one)
      split == IF g.min[i] = 2 THEN PairOrRest(outer, i, one, a) ELSE BothOrRest(outer, i, one, a)
  IN IF Cardinality(split.args[one]) = split.min[one] THEN Typed(split, one, "and") ELSE split

AtleastDuplicate(g, i, a) ==
  CASE Cardinality(g.args[i]) = 2 -> AtleastOfTwo(g, i, a)
    [] Cardinality(g.args[i]) > 2 /\ Cardinality(g.args[i]) = g.min[i] -> AtleastOfAll(g, i, a)
    [] OTHER -> AtleastOfMore(g, i, a)

(* ProcessDuplicateArg: the argument is there already.                     *)
Duplicate(g, i, a) ==
  LET type == g.type[i]
  IN CASE type = "atleast" -> AtleastDuplicate(g, i, a)
       [] Cardinality(g.args[i]) = 1 /\ type \in {"and", "or"} -> Typed(g, i, "null")
       [] Cardinality(g.args[i]) = 1 /\ type \in {"nand", "nor"} -> Typed(g, i, "not")
       [] Cardinality(g.args[i]) = 1 /\ type = "xor" -> MakeConstant(g, i, FALSE)
       [] OTHER -> g

(* ProcessComplementArg: it is there with the other sign.                  *)
Complement(g, i, a) ==
  LET type == g.type[i]
      fewer == [EraseArg(g, i, -a) EXCEPT !.min[i] = @ - 1]
      n == Cardinality(fewer.args[i])
  IN CASE type \in {"nor", "and"} -> MakeConstant(g, i, FALSE)
       [] type \in {"nand", "xor", "or"} -> MakeConstant(g, i, TRUE)
       [] type = "atleast" /\ n = 1 -> Typed(fewer, i, "null")
       [] type = "atleast" /\ n > 1 /\ fewer.min[i] = 1 -> Typed(fewer, i, "or")
       [] type = "atleast" /\ n > 1 /\ fewer.min[i] > 1 ->
            IF fewer.min[i] = n THEN Typed(fewer, i, "and") ELSE fewer

AddArg(g, i, a) ==
  CASE a = kConstant -> AddTrue(g, i)
    [] a = -kConstant -> AddFalse(g, i)
    [] Abs(a) /= kConstant /\ a \in g.args[i] -> Duplicate(g, i, a)
    [] Abs(a) /= kConstant /\ a \notin g.args[i] /\ -a \in g.args[i] -> Complement(g, i, a)
    [] OTHER -> Inserted(g, i, a)

(* The assertions under which a gate takes an argument (pdag.h, AddArg;    *)
(* pdag.cc, what it calls).                                                *)
Accepts(g, i, a) ==
  LET type == g.type[i]
      n == Cardinality(g.args[i])
      k == g.min[i]
  IN /\ ~Constant(g, i)
     /\ type \in {"not", "null"} => n = 0
     /\ type = "xor" => n <= 1
     /\ Abs(a) = kConstant =>
          /\ type \in {"and", "or", "nand", "nor"} => n > 0
          /\ type = "xor" => n = 1
          /\ type = "atleast" => n >= 2 /\ k > 0
     /\ type = "atleast" /\ a \in g.args[i] => k > 1 /\ n >= k /\ (n = 2 => k = 2)
     /\ type = "atleast" /\ -a \in g.args[i] => k > 1 /\ n + 1 > k

(* Seeded defect: the sign of the place is lost.                           *)
PassedUnsigned(g, a) == Only(g.args[Abs(a)])

(* JoinNullGate: a gate that only passes through gives way to its argument,*)
(* whose sign the place of the gate carries on.                            *)
Passed(g, a) == Signed(a < 0, Only(g.args[Abs(a)]))

JoinNullGate(g, i, a) == AddArg(EraseArg(g, i, a), i, Passed(g, a))
=============================================================================
