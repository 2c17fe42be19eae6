----------------------------- MODULE BddAnalysis -----------------------------
(***************************************************************************)
(* Analysis with the BDD engine (src/src/bdd.cc, Analyze; src/src/zbdd.cc, *)
(* the constructors from a BDD).  The constructor of Bdd freezes a coherent*)
(* diagram at once; otherwise the conversion to a ZBDD still calculates    *)
(* consensus in the BDD, which is frozen after it.                         *)
(***************************************************************************)
EXTENDS BddConstruction, ZbddModules

CONSTANTS
  Limits,    \* the limits on the order of products
  Kinds      \* whether prime implicants are asked for

VARIABLES
  frozen,    \* Freeze has released the tables of the BDD
  zbdd,      \* zbdd_: empty before the conversion, then one diagram
  phase      \* "bdd", "zbdd", "analyzed"

allvars == <<vars, frozen, zbdd, phase>>

-----------------------------------------------------------------------------
(* Whether the vertex is converted with consensus: its complement matters. *)
ThroughConsensus(k, coherent, vertex) ==
  \/ ~coherent /\ k.prime_implicants
  \/ vertex.module /\ ~vertex.coherent

(* Seeded defect: the limit is the same for the high branch.               *)
RECURSIVE ConvertUncut(_, _, _, _)
ConvertUncut(k, coherent, f, limit) ==
  IF f.vertex.terminal
  THEN IF f.complement THEN kEmpty ELSE kBase
  ELSE GetReducedVertex(k, f.vertex,
         ConvertUncut(k, coherent, High(f), limit), ConvertUncut(k, coherent, Low(f), limit))

(* ConvertBdd and ConvertBddPrimeImplicants.                               *)
RECURSIVE ConvertBdd(_, _, _, _)
ConvertBdd(k, coherent, f, limit) ==
  LET vertex == f.vertex
      consensus == ConvertBdd(k, coherent, CalculateConsensus(f), limit)
      sublimit == IF vertex.module /\ ~k.prime_implicants THEN limit ELSE limit - 1
      around == IF ThroughConsensus(k, coherent, vertex)
                THEN consensus
                ELSE ConvertBdd(k, coherent, Low(f), limit)
  IN CASE vertex.terminal -> IF f.complement THEN kEmpty ELSE kBase
       [] ~vertex.terminal /\ limit = 0 -> IF around.terminal THEN around ELSE kEmpty
       [] ~vertex.terminal /\ limit > 0 /\ ThroughConsensus(k, coherent, vertex) ->
            GetReducedVertex(k, vertex,
              ConvertBdd(k, coherent, High(f), sublimit),
              GetReducedVertex(k, [vertex EXCEPT !.index = -@],
                ConvertBdd(k, coherent, Low(f), sublimit), around))
       [] OTHER ->
            GetReducedVertex(k, vertex, ConvertBdd(k, coherent, High(f), limit - 1), around)

(* The constructor for a module of the BDD, and for its root.              *)
RECURSIVE FromBdd(_, _, _)
FromBdd(k, f, coherent) ==
  LET whole == Minimize(k, ConvertBdd(k, coherent, f, k.limit))
  IN WithModules(k, whole,
       [i \in ProxyIndices(whole) |->
          IF LeavesNothing(k, whole, i)
          THEN Nothing(k)
          ELSE FromBdd(ModuleSettings(k, whole, i), Negate(i < 0, modules[Abs(i)]),
                       Proxy(whole, i).coherent /\ i > 0)])

-----------------------------------------------------------------------------
AnalysisInit == Init /\ frozen = FALSE /\ zbdd = <<>> /\ phase = "bdd"

(* Seeded defect: every diagram is frozen as soon as it stands.            *)
FreezesAlways == root' /= <<>>

FreezesAtOnce == root' /= <<>> /\ GraphCoherent(graph)

(* The constructor of Bdd.                                                 *)
Construct ==
  /\ root = <<>>
  /\ Recall \/ Descend \/ Combine \/ Finish \/ ConvertTrivial
  /\ frozen' = FreezesAtOnce
  /\ UNCHANGED <<zbdd, phase>>

(* Analyze: the conversion. *)
Convert ==
  /\ root /= <<>> /\ phase = "bdd"
  /\ \E limit \in Limits, prime \in Kinds :
       LET k == [limit |-> limit, prime_implicants |-> prime, gate_index_bound |-> 0]
       IN zbdd' = <<FromBdd(k, root[1], GraphCoherent(graph))>>
  /\ phase' = "zbdd"
  /\ UNCHANGED <<vars, frozen>>

(* Analyze: the analysis of the ZBDD; the BDD is frozen if it was not.     *)
Analyze ==
  /\ phase = "zbdd"
  /\ zbdd' = <<Analyzed(zbdd[1], graph.substitutions)>>
  /\ frozen' = TRUE
  /\ phase' = "analyzed"
  /\ UNCHANGED vars

Reported == phase = "analyzed" /\ UNCHANGED allvars

AnalysisNext == Construct \/ Convert \/ Analyze \/ Reported

AnalysisSpec == AnalysisInit /\ [][AnalysisNext]_allvars

-----------------------------------------------------------------------------
Z == zbdd[1]

(* bdd.h:958, Freeze: once the tables are released nothing modifies the    *)
(* BDD: a conversion still to come calculates no consensus, in the root or *)
(* in a module.                                                            *)
RECURSIVE Consults(_, _, _)
Consults(k, coherent, f) ==
  /\ ~f.vertex.terminal
  /\ \/ ThroughConsensus(k, coherent, f.vertex)
     \/ Consults(k, coherent, High(f))
     \/ Consults(k, coherent, Low(f))

NoCallAfterFreeze ==
  phase = "bdd" /\ frozen =>
    \A prime \in Kinds :
      LET k == [prime_implicants |-> prime]
      IN /\ ~Consults(k, GraphCoherent(graph), root[1])
         /\ \A m \in DOMAIN modules : ~Consults(k, Coherent(graph, m), modules[m])

Reference ==
  IF Z.k.prime_implicants
  THEN PrimeImplicants(graph, Z.k.limit)
  ELSE CutSetsAsked(graph, Z.k.limit)

ProductsReported == {ToSet(p) : p \in ToSet(Products(Z))}

(* bdd.cc:84: every product reported is a minimal cut set of the graph, or *)
(* a prime implicant where they are asked for, and within the limit.       *)
NothingSpurious == phase = "analyzed" => ProductsReported \subseteq Reference

(* zbdd.h:699: limit_order is the maximum size of the requested sets: every*)
(* minimal cut set or prime implicant of at most that size is reported.    *)
NothingLost == phase = "analyzed" => Reference \subseteq ProductsReported

(* A module that is not coherent can stand for unity in a minimal cut set; *)
(* at its proxy the conversion may be out of budget already.               *)
UnityUnderCutOff ==
  /\ ~Z.k.prime_implicants
  /\ Z.k.limit < Cardinality(Variables(graph))
  /\ \E m \in graph.modules \ {graph.root} : ~Coherent(graph, m)

(* zbdd.cc:307: the cut-off loses products nowhere but at such modules.    *)
LostOnlyAtUnityModules ==
  phase = "analyzed" /\ ~UnityUnderCutOff => Reference \subseteq ProductsReported
=============================================================================
