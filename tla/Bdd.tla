--------------------------------- MODULE Bdd ---------------------------------
(***************************************************************************)
(* The calculus of the binary decision diagram (src/src/bdd.cc) with one   *)
(* terminal and complement edges on the low side.  A vertex is its value:  *)
(* the unique table makes vertices of one signature one object, so that    *)
(* the comparison of ids is the comparison of values, and the computation  *)
(* tables repeat what Apply would compute again.                           *)
(***************************************************************************)
EXTENDS Integers

CONSTANT MaxOrder   \* no variable comes later in the order

ASSUME MaxOrderAssumption == MaxOrder \in Nat

kOne == [terminal |-> TRUE]

Function(complement, vertex) == [complement |-> complement, vertex |-> vertex]

Negate(complement, f) == Function(complement /= f.complement, f.vertex)

(* FindOrAddVertex with the attributes of a prototype.                     *)
FindOrAddVertex(like, high, low, complement_edge) ==
  [terminal |-> FALSE, index |-> like.index, order |-> like.order,
   module |-> like.module, coherent |-> like.coherent,
   high |-> high, low |-> low, complement_edge |-> complement_edge]

(* The function of a variable or of a proxy of a module.                   *)
Literal(like) == FindOrAddVertex(like, kOne, kOne, TRUE)

(* The branches of a function: the complement of the function is carried   *)
(* to both, the complement of the edge only to the low one.                *)
High(f) == Function(f.complement, f.vertex.high)
Low(f) == Function(f.complement /= f.vertex.complement_edge, f.vertex.low)

(* Seeded defect: no reduction of equal branches.                          *)
MadeUnreduced(like, high, low) ==
  Function(high.complement,
           FindOrAddVertex(like, high.vertex, low.vertex, high.complement /= low.complement))

(* The vertices below which a path branches at most n times.               *)
Levels[n \in 0..MaxOrder] ==
  IF n = 0
  THEN {kOne}
  ELSE LET below == Levels[n - 1]
       IN {kOne} \cup [terminal : {FALSE}, index : Nat, order : Nat, module : BOOLEAN,
                       coherent : BOOLEAN, high : below, low : below, complement_edge : BOOLEAN]

Vertices == Levels[MaxOrder]

AnyFunction == [complement : BOOLEAN, vertex : Vertices]

(* The tail of Apply: a vertex over the two results, unless they agree.    *)
Made(like, high, low) ==
  IF high = low
  THEN high
  ELSE Function(high.complement,
                FindOrAddVertex(like, high.vertex, low.vertex, high.complement /= low.complement))

(* AND and OR differ in the terminal that absorbs.                         *)
Absorbing(type) == Function(type = "and", kOne)

(* Seeded defect: the variable that comes later goes to the top.           *)
ApplyInverted(type, first, second) ==
  LET Result[pair \in AnyFunction \X AnyFunction] ==
        LET one == pair[1]
            two == pair[2]
        IN IF one.vertex.terminal THEN IF one = Absorbing(type) THEN one ELSE two
           ELSE IF two.vertex.terminal THEN IF two = Absorbing(type) THEN two ELSE one
           ELSE IF one.vertex = two.vertex THEN IF one = two THEN one ELSE Absorbing(type)
           ELSE IF one.vertex.order = two.vertex.order
           THEN Made(one.vertex, Result[<<High(one), High(two)>>], Result[<<Low(one), Low(two)>>])
           ELSE IF one.vertex.order > two.vertex.order
           THEN Made(one.vertex, Result[<<High(one), two>>], Result[<<Low(one), two>>])
           ELSE Made(two.vertex, Result[<<one, High(two)>>], Result[<<one, Low(two)>>])
  IN Result[<<first, second>>]

Apply(type, first, second) ==
  LET Result[pair \in AnyFunction \X AnyFunction] ==
        LET one == pair[1]
            two == pair[2]
        IN IF one.vertex.terminal THEN IF one = Absorbing(type) THEN one ELSE two
           ELSE IF two.vertex.terminal THEN IF two = Absorbing(type) THEN two ELSE one
           ELSE IF one.vertex = two.vertex THEN IF one = two THEN one ELSE Absorbing(type)
           ELSE IF one.vertex.order = two.vertex.order
           THEN Made(one.vertex, Result[<<High(one), High(two)>>], Result[<<Low(one), Low(two)>>])
           ELSE IF one.vertex.order < two.vertex.order
           THEN Made(one.vertex, Result[<<High(one), two>>], Result[<<Low(one), two>>])
           ELSE Made(two.vertex, Result[<<one, High(two)>>], Result[<<one, Low(two)>>])
  IN Result[<<first, second>>]

(* CalculateConsensus of a vertex: what holds whatever its variable is.    *)
CalculateConsensus(f) == Apply("and", High(f), Low(f))

-----------------------------------------------------------------------------
(* What a function means, the proxies of modules being variables: the sets *)
(* of indices that make it true when exactly they are true.                *)
Meaning(f, indices) ==
  LET Models[v \in Vertices] ==
        IF v.terminal
        THEN SUBSET indices
        ELSE LET high == Models[v.high]
                 low == Models[v.low]
             IN {true \in SUBSET indices :
                   IF v.index \in true THEN true \in high ELSE v.complement_edge /= (true \in low)}
  IN {true \in SUBSET indices : f.complement /= (true \in Models[f.vertex])}

(* The assertions of TestStructure on a vertex and on all below it.        *)
Structured(vertex) ==
  LET Tested[v \in Vertices] ==
        v.terminal \/
          /\ v.complement_edge \/ v.high /= v.low
          /\ v.high.terminal \/ v.order < v.high.order
          /\ v.low.terminal \/ v.order < v.low.order
          /\ Tested[v.high]
          /\ Tested[v.low]
  IN Tested[vertex]
=============================================================================
