-------------------------- MODULE PdagNormalization --------------------------
(***************************************************************************)
(* Normalization of the gates of a PDAG, and the pushing of complements    *)
(* down to variables (src/src/preprocessor.cc, NormalizeGates,             *)
(* PropagateComplements and what they call).                               *)
(***************************************************************************)
EXTENDS Pdag

Negative == {"nor", "nand", "not"}

-----------------------------------------------------------------------------
(* Seeded defect: the root is nobody's argument, and its negation is lost. *)
RootForgotten(g) == g

(* The negation of the root is that of the graph.                          *)
RootNotified(g) == [g EXCEPT !.complement = @ /= (g.type[g.root] \in Negative)]

(* NotifyParentsOfNegativeGates: a gate that negates gives its sign to the *)
(* places where it is an argument.                                         *)
ParentsNotified(g) ==
  [RootNotified(g) EXCEPT
     !.args = [i \in Living(g) |->
       {IF Abs(a) \in Living(g) /\ g.type[Abs(a)] \in Negative THEN -a ELSE a : a \in g.args[i]}]]

Positive(type) ==
  CASE type = "nor" -> "or" [] type = "nand" -> "and" [] type = "not" -> "null" [] OTHER -> type

(* What NormalizeGate does about gates that negate, in all of them.        *)
Unnegated(g) ==
  [g EXCEPT !.type = [i \in Living(g) |-> Positive(@[i])],
            !.nulls = @ \o SetToSeq({i \in Living(g) : g.type[i] = "not"})]

NormalizeGates(pass, left) ==
  /\ At(pass, "")
  /\ graph' = Unnegated(ParentsNotified(graph))
  /\ step' = "normalizing"
  /\ todo' = left
  /\ UNCHANGED <<model_vars, plan, memo, held, null_vars>>

NormalizePartly == NormalizeGates("normalize partly", {})

(* XOR and K/N gates remain; the rest is normal now.                       *)
NormalizeFully ==
  NormalizeGates("normalize fully", {i \in Living(graph) : graph.type[i] \in {"xor", "atleast"}})

NextGate == First(todo)

Normalizing(type) ==
  /\ At("normalize fully", "normalizing") /\ todo /= {} /\ graph.type[NextGate] = type
  /\ UNCHANGED <<model_vars, plan, step, memo, held, null_vars>>

(* A new gate with arguments.                                              *)
Made(g, type, min, args) == FoldSet(LAMBDA a, m : Inserted(m, m.last, a), Created(g, type, min), args)

(* x ^ y is x & ~y | ~x & y.                                               *)
SplitXor(g, i, x, y) ==
  LET one == Next_(g)
      bare == Typed(EraseArgs(g, i), i, "or")
      both == Made(Made(bare, "and", 0, {x, -y}), "and", 0, {-x, y})
  IN Inserted(Inserted(both, i, one), i, one + 1)

NormalizeXorGate ==
  /\ Normalizing("xor")
  /\ LET x == First(graph.args[NextGate])
     IN graph' = SplitXor(graph, NextGate, x, Only(graph.args[NextGate] \ {x}))
  /\ todo' = todo \ {NextGate}

(* Seeded defect: the vote without x asks for one less as well.            *)
SplitTooLow(g, i, x) ==
  LET first == Next_(g)
      k == g.min[i]
      rest == g.args[i] \ {x}
      bare == Typed(EraseArgs(g, i), i, "or")
      halves == Made(Made(Made(bare, "and", 0, {x}), "atleast", k - 1, rest), "atleast", k - 1, rest)
  IN Inserted(Inserted(Inserted(halves, first, first + 1), i, first), i, first + 2)

(* @(k, x, ys) is x & @(k-1, ys) | @(k, ys).                               *)
SplitAtleast(g, i, x) ==
  LET first == Next_(g)
      k == g.min[i]
      rest == g.args[i] \ {x}
      bare == Typed(EraseArgs(g, i), i, "or")
      halves == Made(Made(Made(bare, "and", 0, {x}), "atleast", k - 1, rest), "atleast", k, rest)
  IN Inserted(Inserted(Inserted(halves, first, first + 1), i, first), i, first + 2)

(* The code takes x by the order of nodes; the halves are next.            *)
NormalizeAtleastGate ==
  /\ Normalizing("atleast")
  /\ LET n == Cardinality(graph.args[NextGate])
         k == graph.min[NextGate]
     IN \/ n = k /\ graph' = Typed(graph, NextGate, "and") /\ todo' = todo \ {NextGate}
        \/ n /= k /\ k = 1 /\ graph' = Typed(graph, NextGate, "or") /\ todo' = todo \ {NextGate}
        \/ /\ n /= k /\ k /= 1
           /\ \E x \in graph.args[NextGate] : graph' = SplitAtleast(graph, NextGate, x)
           /\ todo' = (todo \ {NextGate}) \cup {graph.last + 2, graph.last + 3}

Normalized ==
  /\ At("normalize partly", "normalizing") \/ At("normalize fully", "normalizing")
  /\ todo = {}
  /\ ContinueWith(<<"remove nulls">>)
  /\ UNCHANGED <<model_vars, graph, null_vars>>

-----------------------------------------------------------------------------
(* The gate becomes its own complement.                                    *)
Complemented(g, i) ==
  [NegateArgs(g, i) EXCEPT !.type[i] = CASE @ = "or" -> "and" [] @ = "and" -> "or" [] OTHER -> @]

(* Seeded defect: the complement stays with the graph.                     *)
RootKept(g) == g

(* RunPhaseFour, first: the complement of the graph goes into the root.    *)
RootComplemented(g) ==
  IF g.complement THEN [Complemented(g, g.root) EXCEPT !.complement = FALSE] ELSE g

(* A call of PropagateComplements: the gate arguments it has yet to see,   *)
(* and to_swap.                                                            *)
Propagation(g, i) == [gate |-> i, unseen |-> GateArgs(g, i), swaps |-> {}]

PropagateComplements ==
  /\ At("propagate complements", "")
  /\ graph' = RootComplemented(graph)
  /\ step' = "propagating"
  /\ memo' = [marked |-> {graph.root}, complements |-> <<>>,
              frames |-> <<Propagation(graph', graph.root)>>]
  /\ UNCHANGED <<model_vars, plan, todo, held, null_vars>>

Calling == Head(memo.frames)

Seen == First(Calling.unseen)

Propagating ==
  /\ At("propagate complements", "propagating") /\ memo.frames /= <<>> /\ Calling.unseen /= {}
  /\ UNCHANGED <<model_vars, plan, step, todo, null_vars>>

(* A gate stands for the argument; unless it is marked it comes next.      *)
Traversed(m, swaps, i) ==
  LET frame == [Calling EXCEPT !.unseen = @ \ {Seen}, !.swaps = swaps]
      next == IF i \in m.marked THEN <<>> ELSE <<Propagation(graph', i)>>
  IN [m EXCEPT !.marked = @ \cup {i}, !.frames = next \o <<frame>> \o Tail(@)]

Swapped(i) == Calling.swaps \cup {<<Seen, i>>}

PositiveArg ==
  /\ Propagating /\ Seen > 0
  /\ graph' = graph
  /\ memo' = Traversed(memo, Calling.swaps, Seen)
  /\ UNCHANGED held

Known == -Seen \in DOMAIN memo.complements

(* The complement is there from another parent.                            *)
KnownComplement ==
  /\ Propagating /\ Seen < 0 /\ Known
  /\ graph' = graph
  /\ memo' = Traversed(memo, Swapped(memo.complements[-Seen]), memo.complements[-Seen])
  /\ UNCHANGED held

(* With one parent the gate itself can turn.                               *)
ReuseGate ==
  /\ Propagating /\ Seen < 0 /\ ~Known /\ Cardinality(graph.parents[-Seen]) = 1
  /\ graph' = Complemented(graph, -Seen)
  /\ memo' = Traversed(memo, Swapped(-Seen), -Seen)
  /\ UNCHANGED held

(* Seeded defect: the gate is still taken for a module, although its clone *)
(* has the same arguments.                                                 *)
ClonedAsModule(g, i) == Complemented(Clone(g, i), Next_(g))

Cloned(g, i) == [Complemented(Clone(g, i), Next_(g)) EXCEPT !.module = @ \ {i}]

CloneGate ==
  LET clone == Next_(graph)
      known == [memo EXCEPT !.complements = (-Seen :> clone) @@ @]
  IN /\ Propagating /\ Seen < 0 /\ ~Known /\ Cardinality(graph.parents[-Seen]) > 1
     /\ graph' = Cloned(graph, -Seen)
     /\ memo' = Traversed(known, Swapped(clone), clone)
     /\ held' = held \cup {clone}

(* All arguments are seen: complements take their places.                  *)
SwapArg ==
  /\ At("propagate complements", "propagating") /\ memo.frames /= <<>>
  /\ Calling.unseen = {} /\ Calling.swaps /= {}
  /\ LET swap == CHOOSE s \in Calling.swaps : s[1] = First({t[1] : t \in Calling.swaps})
     IN /\ graph' = Held(AddArg(EraseArg(graph, Calling.gate, swap[1]), Calling.gate, swap[2]), held)
        /\ memo' = [memo EXCEPT !.frames[1].swaps = @ \ {swap}]
  /\ UNCHANGED <<model_vars, plan, step, todo, held, null_vars>>

ReturnFromGate ==
  /\ At("propagate complements", "propagating") /\ memo.frames /= <<>>
  /\ Calling.unseen = {} /\ Calling.swaps = {}
  /\ memo' = [memo EXCEPT !.frames = Tail(@)]
  /\ UNCHANGED <<model_vars, graph, plan, step, todo, held, null_vars>>

ComplementsPropagated ==
  /\ At("propagate complements", "propagating") /\ memo.frames = <<>>
  /\ graph' = Held(graph, {})
  /\ ContinueWith(<<>>)
  /\ UNCHANGED <<model_vars, null_vars>>

NormalizationStep ==
  \/ NormalizePartly \/ NormalizeFully \/ NormalizeXorGate \/ NormalizeAtleastGate \/ Normalized
  \/ PropagateComplements \/ PositiveArg \/ KnownComplement \/ ReuseGate \/ CloneGate \/ SwapArg
  \/ ReturnFromGate \/ ComplementsPropagated
=============================================================================
