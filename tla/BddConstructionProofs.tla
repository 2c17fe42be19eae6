------------------------ MODULE BddConstructionProofs ------------------------
(***************************************************************************)
(* What the constructor of Bdd builds, for every set of prepared graphs:   *)
(* its diagrams are canonical, they mean the gates they stand for, and the *)
(* memo serves every parent of a gate once.                                *)
(***************************************************************************)
EXTENDS BddConstruction, FiniteSetTheorems, WellFoundedInduction, TLAPS

-----------------------------------------------------------------------------
(* Every set of numbers has a least one.                                   *)
LEMMA Least ==
  ASSUME NEW T, T \subseteq Nat, T /= {}
  PROVE  \E x \in T : \A y \in T : x <= y
<1>1. PICK x \in T : \A y \in T : ~(<<y, x>> \in OpToRel(<, Nat))
  BY WFMin, NatLessThanWellFounded
<1>2. \A y \in T : ~(y < x)
  BY <1>1 DEF OpToRel
<1>3. \A y \in T : x <= y
  BY <1>2
<1> QED
  BY <1>3

(* Induction over the numbers up to a bound: what holds of each number that*)
(* it holds of all below, it holds of all.                                 *)
LEMMA Climbing ==
  ASSUME NEW n \in Nat, NEW S,
         \A j \in 0..n : (\A k \in 0..(j - 1) : k \in S) => j \in S
  PROVE  \A j \in 0..n : j \in S
<1> DEFINE T == {j \in 0..n : j \notin S}
<1> SUFFICES ASSUME T /= {} PROVE FALSE
  OBVIOUS
<1>1. T \subseteq Nat
  OBVIOUS
<1>2. PICK x \in T : \A y \in T : x <= y
  <2> HIDE DEF T
  <2> QED
    BY <1>1, Least
<1>3. \A k \in 0..(x - 1) : k \in S
  BY <1>2
<1> QED
  BY <1>2, <1>3

(* The same, one number at a time.                                         *)
LEMMA Stepping ==
  ASSUME NEW n \in Nat, NEW S, 0 \in S, \A j \in 1..n : j - 1 \in S => j \in S
  PROVE  \A j \in 0..n : j \in S
<1>1. ASSUME NEW j \in 0..n, \A k \in 0..(j - 1) : k \in S
      PROVE  j \in S
  <2>1. CASE j = 0
    BY <2>1
  <2>2. CASE j > 0
    <3>1. j \in 1..n /\ j - 1 \in 0..(j - 1)
      BY <2>2
    <3>2. j - 1 \in S
      BY <1>1, <3>1
    <3> QED
      BY <3>1, <3>2
  <2> QED
    BY <2>1, <2>2
<1> QED
  BY <1>1, Climbing

(* A step that looks only at arguments of lower rank has a fixed point: the*)
(* function defined by recursion with it.                                  *)
IsRecursion(D, V, n, rank, step) ==
  /\ V /= {} /\ n \in Nat /\ rank \in [D -> 0..n] /\ step \in [[D -> V] -> [D -> V]]
  /\ \A f, g \in [D -> V] : \A x \in D :
       (\A y \in D : rank[y] < rank[x] => f[y] = g[y]) => step[f][x] = step[g][x]

LEMMA RankedRecursion ==
  ASSUME NEW D, NEW V, NEW n, NEW rank, NEW step, IsRecursion(D, V, n, rank, step)
  PROVE  \E f \in [D -> V] : f = step[f]
<1>0. /\ V /= {} /\ n \in Nat /\ rank \in [D -> 0..n] /\ step \in [[D -> V] -> [D -> V]]
      /\ \A f, g \in [D -> V] : \A x \in D :
           (\A y \in D : rank[y] < rank[x] => f[y] = g[y]) => step[f][x] = step[g][x]
  BY DEF IsRecursion
<1> DEFINE Settled(f, r) == \A x \in D : rank[x] <= r => f[x] = step[f][x]
           S == {r \in 0..n : \E f \in [D -> V] : Settled(f, r)}
<1>1. ASSUME NEW r \in 0..n, NEW f \in [D -> V], r > 0 => Settled(f, r - 1)
      PROVE  r \in S
  <2>1. step[f] \in [D -> V]
    BY <1>0
  <2>2. ASSUME NEW x \in D, rank[x] <= r
        PROVE  step[f][x] = step[step[f]][x]
    <3>1. ASSUME NEW y \in D, rank[y] < rank[x]
          PROVE  f[y] = step[f][y]
      <4>1. rank[x] \in 0..n /\ rank[y] \in 0..n
        BY <1>0
      <4>2. r > 0 /\ rank[y] <= r - 1
        BY <2>2, <3>1, <4>1
      <4> QED
        BY <1>1, <4>2
    <3> QED
      BY <1>0, <2>1, <3>1
  <2>3. Settled(step[f], r)
    BY <2>2
  <2> HIDE DEF Settled
  <2>4. \E h \in [D -> V] : Settled(h, r)
    BY <2>1, <2>3
  <2> QED
    BY <2>4
<1>2. PICK v \in V : [x \in D |-> v] \in [D -> V]
  BY <1>0
<1>3. 0 \in S
  <2>1. 0 \in 0..n /\ ~(0 > 0)
    BY <1>0
  <2> HIDE DEF S, Settled
  <2> QED
    BY <1>1, <1>2, <2>1
<1>4. ASSUME NEW r \in 1..n, r - 1 \in S
      PROVE  r \in S
  BY <1>1, <1>4
<1>5. n \in S
  <2> HIDE DEF S
  <2>1. \A r \in 0..n : r \in S
    BY <1>0, <1>3, <1>4, Stepping
  <2> QED
    BY <1>0, <2>1
<1>6. PICK f \in [D -> V] : Settled(f, n)
  BY <1>5
<1>7. \A x \in D : f[x] = step[f][x]
  BY <1>0, <1>6
<1>8. step[f] \in [D -> V]
  BY <1>0
<1>9. f = step[f]
  BY <1>7, <1>8
<1> QED
  BY <1>9

-----------------------------------------------------------------------------
(* The vertices over the vertices of a set.                                *)
Over(S) ==
  [terminal : {FALSE}, index : Nat, order : Nat, module : BOOLEAN, coherent : BOOLEAN,
   high : S, low : S, complement_edge : BOOLEAN]

(* Recursion over the numbers up to MaxOrder.                              *)
LEMMA LevelsDefined ==
  /\ Levels[0] = {kOne}
  /\ \A n \in 1..MaxOrder : Levels[n] = {kOne} \cup Over(Levels[n - 1])
<1> DEFINE D == 0..MaxOrder
           Follows(f, m) == \A j \in 0..m : f[j] = IF j = 0 THEN {kOne} ELSE {kOne} \cup Over(f[j - 1])
           S == {m \in D : \E f : f = [j \in D |-> f[j]] /\ Follows(f, m)}
<1>0. MaxOrder \in Nat
  BY MaxOrderAssumption
<1>1. 0 \in S
  <2>1. [j \in D |-> {kOne}] = [j \in D |-> [k \in D |-> {kOne}][j]]
    OBVIOUS
  <2>2. Follows([j \in D |-> {kOne}], 0)
    BY <1>0
  <2> HIDE DEF D, Follows
  <2>3. 0 \in D
    BY <1>0 DEF D
  <2> QED
    BY <2>1, <2>2, <2>3
<1>2. ASSUME NEW m \in 1..MaxOrder, m - 1 \in S
      PROVE  m \in S
  <2>1. PICK f : f = [j \in D |-> f[j]] /\ Follows(f, m - 1)
    BY <1>2
  <2> DEFINE g == [j \in D |-> IF j = m THEN {kOne} \cup Over(f[m - 1]) ELSE f[j]]
  <2>2. ASSUME NEW j \in 0..m
        PROVE  g[j] = IF j = 0 THEN {kOne} ELSE {kOne} \cup Over(g[j - 1])
    <3>1. j \in D
      BY <1>0
    <3>2. j /= 0 => j - 1 \in D /\ j - 1 /= m
      BY <1>0
    <3>3. j /= 0 => g[j - 1] = f[j - 1]
      BY <3>2
    <3>4. CASE j = m
      <4>1. g[j] = {kOne} \cup Over(f[m - 1])
        BY <3>1, <3>4
      <4>2. j /= 0 /\ g[m - 1] = f[m - 1]
        BY <3>3, <3>4
      <4> HIDE DEF g
      <4> QED
        BY <3>4, <4>1, <4>2
    <3>5. CASE j /= m
      <4>1. j \in 0..(m - 1)
        BY <3>5
      <4>2. g[j] = f[j]
        BY <3>1, <3>5
      <4> HIDE DEF g
      <4> QED
        BY <2>1, <3>3, <4>1, <4>2
    <3> QED
      BY <3>4, <3>5
  <2>3. g = [j \in D |-> g[j]]
    OBVIOUS
  <2>4. m \in D
    BY <1>0
  <2> HIDE DEF g, D
  <2>5. Follows(g, m)
    BY <2>2
  <2> HIDE DEF Follows
  <2> QED
    BY <2>3, <2>4, <2>5
<1>3. MaxOrder \in S
  <2> HIDE DEF S
  <2>1. \A m \in 0..MaxOrder : m \in S
    BY <1>0, <1>1, <1>2, Stepping
  <2> QED
    BY <1>0, <2>1
<1>4. PICK f : f = [j \in D |-> f[j]] /\ Follows(f, MaxOrder)
  BY <1>3
<1>5. f = [j \in D |-> IF j = 0 THEN {kOne} ELSE {kOne} \cup Over(f[j - 1])]
  BY <1>4
<1>6. Levels = [j \in D |-> IF j = 0 THEN {kOne} ELSE {kOne} \cup Over(Levels[j - 1])]
  <2> DEFINE P(h) == h = [j \in D |-> IF j = 0 THEN {kOne} ELSE {kOne} \cup Over(h[j - 1])]
  <2>1. P(f)
    BY <1>5
  <2>2. Levels = CHOOSE h : P(h)
    BY Zenon DEF Levels, Over
  <2> HIDE DEF P
  <2>3. P(Levels)
    BY <2>1, <2>2
  <2> QED
    BY <2>3 DEF P
<1>7. ASSUME NEW j \in D
      PROVE  Levels[j] = IF j = 0 THEN {kOne} ELSE {kOne} \cup Over(Levels[j - 1])
  <2> HIDE DEF D
  <2> QED
    BY <1>6
<1>8. 0 \in D /\ \A j \in 1..MaxOrder : j \in D /\ j /= 0
  BY <1>0
<1> QED
  <2> HIDE DEF D
  <2> QED
    BY <1>7, <1>8

(* What a level has, the level above has too.                              *)
LEMMA LevelsGrow ==
  \A n \in 0..MaxOrder : \A m \in 0..n : Levels[m] \subseteq Levels[n]
<1>0. MaxOrder \in Nat
  BY MaxOrderAssumption
<1>1. ASSUME NEW n \in 1..MaxOrder
      PROVE  Levels[n - 1] \subseteq Levels[n]
  <2> DEFINE S == {m \in 0..MaxOrder : m = 0 \/ Levels[m - 1] \subseteq Levels[m]}
  <2>1. 0 \in S
    BY <1>0
  <2>2. ASSUME NEW m \in 1..MaxOrder, m - 1 \in S
        PROVE  m \in S
    <3>1. Levels[m] = {kOne} \cup Over(Levels[m - 1])
      BY LevelsDefined
    <3>2. CASE m = 1
      BY <3>1, <3>2, LevelsDefined
    <3>3. CASE m /= 1
      <4>1. m - 1 \in 1..MaxOrder
        BY <1>0, <3>3
      <4>2. Levels[m - 1] = {kOne} \cup Over(Levels[m - 1 - 1])
        BY <4>1, LevelsDefined
      <4>3. Levels[m - 1 - 1] \subseteq Levels[m - 1]
        BY <2>2, <4>1
      <4>4. Over(Levels[m - 1 - 1]) \subseteq Over(Levels[m - 1])
        BY <4>3 DEF Over
      <4> QED
        BY <3>1, <4>2, <4>4
    <3> QED
      BY <3>2, <3>3
  <2>3. \A m \in 0..MaxOrder : m \in S
    <3> HIDE DEF S
    <3> QED
      BY <1>0, <2>1, <2>2, Stepping
  <2> QED
    BY <2>3
<1>2. ASSUME NEW m \in 0..MaxOrder
      PROVE  \A n \in 0..MaxOrder : n >= m => Levels[m] \subseteq Levels[n]
  <2> DEFINE S == {n \in 0..MaxOrder : n >= m => Levels[m] \subseteq Levels[n]}
  <2>1. 0 \in S
    BY <1>0
  <2>2. ASSUME NEW n \in 1..MaxOrder, n - 1 \in S
        PROVE  n \in S
    <3>1. n - 1 >= m => Levels[m] \subseteq Levels[n]
      BY <1>1, <2>2
    <3>2. n >= m => n - 1 >= m \/ n = m
      OBVIOUS
    <3> QED
      BY <3>1, <3>2
  <2>3. \A n \in 0..MaxOrder : n \in S
    <3> HIDE DEF S
    <3> QED
      BY <1>0, <2>1, <2>2, Stepping
  <2> QED
    BY <2>3
<1> QED
  BY <1>0, <1>2

(* A vertex is the terminal or stands over two vertices a level below.     *)
LEMMA VertexShape ==
  ASSUME NEW n \in 0..MaxOrder, NEW v \in Levels[n]
  PROVE  /\ v \in Vertices
         /\ v = kOne \/ /\ n > 0 /\ ~v.terminal
                        /\ v.index \in Nat /\ v.order \in Nat
                        /\ v.module \in BOOLEAN /\ v.coherent \in BOOLEAN
                        /\ v.high \in Levels[n - 1] /\ v.low \in Levels[n - 1]
                        /\ v.high \in Vertices /\ v.low \in Vertices
                        /\ v.complement_edge \in BOOLEAN
<1>0. MaxOrder \in Nat /\ n \in Nat /\ n <= MaxOrder
  BY MaxOrderAssumption
<1>1. v \in Vertices
  BY <1>0, LevelsGrow DEF Vertices
<1>2. CASE n = 0
  BY <1>1, <1>2, LevelsDefined
<1>3. CASE n > 0
  <2>1. n \in 1..MaxOrder /\ n - 1 \in 0..MaxOrder /\ MaxOrder \in 0..MaxOrder /\ n - 1 \in 0..MaxOrder
    BY <1>0, <1>3
  <2>2. v = kOne \/ v \in Over(Levels[n - 1])
    BY <2>1, LevelsDefined
  <2>3. Levels[n - 1] \subseteq Vertices
    BY <2>1, LevelsGrow DEF Vertices
  <2> QED
    BY <1>1, <1>3, <2>2, <2>3 DEF Over
<1> QED
  BY <1>0, <1>2, <1>3

LEMMA TerminalIsOne ==
  /\ kOne \in Vertices /\ kOne.terminal = TRUE
  /\ \A n \in 0..MaxOrder : kOne \in Levels[n]
  /\ \A v \in Vertices : v.terminal \in BOOLEAN /\ (v.terminal <=> v = kOne)
<1>0. MaxOrder \in Nat /\ MaxOrder \in 0..MaxOrder
  BY MaxOrderAssumption
<1>1. kOne.terminal = TRUE
  BY DEF kOne
<1>2. ASSUME NEW n \in 0..MaxOrder PROVE kOne \in Levels[n]
  <2>1. n = 0 \/ n \in 1..MaxOrder
    OBVIOUS
  <2> QED
    BY <2>1, LevelsDefined
<1>3. ASSUME NEW v \in Vertices
      PROVE  v.terminal \in BOOLEAN /\ (v.terminal <=> v = kOne)
  <2>1. MaxOrder = 0 \/ MaxOrder \in 1..MaxOrder
    BY <1>0
  <2>2. v = kOne \/ v \in Over(Levels[MaxOrder - 1])
    BY <2>1, LevelsDefined DEF Vertices
  <2>3. v \in Over(Levels[MaxOrder - 1]) => v.terminal = FALSE
    BY DEF Over
  <2> QED
    BY <1>1, <2>2, <2>3
<1> QED
  BY <1>0, <1>1, <1>2, <1>3 DEF Vertices

(* The least level of a vertex.                                            *)
Height(v) == CHOOSE n \in 0..MaxOrder : v \in Levels[n] /\ \A m \in 0..MaxOrder : v \in Levels[m] => n <= m

LEMMA HeightFalls ==
  ASSUME NEW v \in Vertices
  PROVE  /\ Height(v) \in 0..MaxOrder /\ v \in Levels[Height(v)]
         /\ ~v.terminal =>
              /\ v.high \in Vertices /\ v.low \in Vertices
              /\ Height(v.high) < Height(v) /\ Height(v.low) < Height(v)
<1>0. MaxOrder \in Nat
  BY MaxOrderAssumption
<1>1. ASSUME NEW u \in Vertices
      PROVE  /\ Height(u) \in 0..MaxOrder /\ u \in Levels[Height(u)]
             /\ \A m \in 0..MaxOrder : u \in Levels[m] => Height(u) <= m
  <2> DEFINE T == {n \in 0..MaxOrder : u \in Levels[n]}
  <2>1. MaxOrder \in T
    BY <1>0 DEF Vertices
  <2>2. T \subseteq Nat
    OBVIOUS
  <2>3. PICK n \in T : \A m \in T : n <= m
    <3> HIDE DEF T
    <3> QED
      BY <2>1, <2>2, Least
  <2>4. n \in 0..MaxOrder /\ u \in Levels[n] /\ \A m \in 0..MaxOrder : u \in Levels[m] => n <= m
    BY <2>3
  <2> QED
    BY <2>4 DEF Height
<1>2. ASSUME ~v.terminal
      PROVE  /\ v.high \in Vertices /\ v.low \in Vertices
             /\ Height(v.high) < Height(v) /\ Height(v.low) < Height(v)
  <2>1. v /= kOne
    BY <1>2, TerminalIsOne
  <2>2. Height(v) \in 0..MaxOrder /\ v \in Levels[Height(v)]
    BY <1>1
  <2>3. /\ Height(v) > 0 /\ v.high \in Vertices /\ v.low \in Vertices
        /\ v.high \in Levels[Height(v) - 1] /\ v.low \in Levels[Height(v) - 1]
    BY <2>1, <2>2, VertexShape
  <2>4. Height(v) - 1 \in 0..MaxOrder
    BY <1>0, <2>2, <2>3
  <2>5. Height(v.high) <= Height(v) - 1 /\ Height(v.low) <= Height(v) - 1
    BY <1>1, <2>3, <2>4
  <2>6. Height(v.high) \in Nat /\ Height(v.low) \in Nat /\ Height(v) \in Nat
    BY <1>1, <2>2, <2>3
  <2> QED
    BY <2>3, <2>5, <2>6
<1> QED
  BY <1>1, <1>2

(* The branches of a function are functions, and its fields what they were *)
(* made of.                                                                *)
LEMMA FunctionFacts ==
  ASSUME NEW c \in BOOLEAN, NEW v \in Vertices
  PROVE  /\ Function(c, v) \in AnyFunction
         /\ Function(c, v).complement = c /\ Function(c, v).vertex = v
BY DEF Function, AnyFunction

LEMMA FunctionIs ==
  ASSUME NEW f \in AnyFunction
  PROVE  /\ f.complement \in BOOLEAN /\ f.vertex \in Vertices
         /\ f = Function(f.complement, f.vertex)
BY DEF Function, AnyFunction

LEMMA SameFunction ==
  ASSUME NEW f \in AnyFunction, NEW g \in AnyFunction,
         f.complement = g.complement, f.vertex = g.vertex
  PROVE  f = g
BY FunctionIs

LEMMA Branching ==
  ASSUME NEW f \in AnyFunction, ~f.vertex.terminal
  PROVE  /\ High(f) \in AnyFunction /\ Low(f) \in AnyFunction
         /\ High(f).vertex = f.vertex.high /\ High(f).complement = f.complement
         /\ Low(f).vertex = f.vertex.low
         /\ Low(f).complement = (f.complement /= f.vertex.complement_edge)
         /\ f.vertex.complement_edge \in BOOLEAN
<1>0. MaxOrder \in 0..MaxOrder
  BY MaxOrderAssumption
<1>1. f.complement \in BOOLEAN /\ f.vertex \in Vertices
  BY FunctionIs
<1>2. f.vertex /= kOne
  BY <1>1, TerminalIsOne
<1>3. f.vertex.high \in Vertices /\ f.vertex.low \in Vertices /\ f.vertex.complement_edge \in BOOLEAN
  BY <1>0, <1>1, <1>2, VertexShape DEF Vertices
<1>4. (f.complement /= f.vertex.complement_edge) \in BOOLEAN
  BY <1>1, <1>3
<1> QED
  BY <1>1, <1>3, <1>4, FunctionFacts DEF High, Low

-----------------------------------------------------------------------------
(* What a vertex says of one set of true indices, given what its branches  *)
(* say.                                                                    *)
Says(v, true, high, low) ==
  IF v.index \in true THEN true \in high ELSE v.complement_edge /= (true \in low)

IsModels(models, indices) ==
  /\ models \in [Vertices -> SUBSET SUBSET indices]
  /\ models = [v \in Vertices |->
                 IF v.terminal THEN SUBSET indices
                 ELSE {true \in SUBSET indices : Says(v, true, models[v.high], models[v.low])}]

LEMMA ModelsExist ==
  ASSUME NEW indices
  PROVE  \E models : IsModels(models, indices)
<1> DEFINE V == SUBSET SUBSET indices
           body(f, v) == IF v.terminal THEN SUBSET indices
                         ELSE {true \in SUBSET indices : Says(v, true, f[v.high], f[v.low])}
           step == [f \in [Vertices -> V] |-> [v \in Vertices |-> body(f, v)]]
           rank == [v \in Vertices |-> Height(v)]
<1>0. MaxOrder \in Nat
  BY MaxOrderAssumption
<1>1. rank \in [Vertices -> 0..MaxOrder]
  BY HeightFalls
<1>2. step \in [[Vertices -> V] -> [Vertices -> V]]
  <2>1. ASSUME NEW f, NEW v PROVE body(f, v) \in V
    OBVIOUS
  <2> HIDE DEF body, V
  <2> QED
    BY <2>1
<1>3. ASSUME NEW f \in [Vertices -> V], NEW g \in [Vertices -> V], NEW v \in Vertices,
             \A u \in Vertices : rank[u] < rank[v] => f[u] = g[u]
      PROVE  step[f][v] = step[g][v]
  <2>1. step[f][v] = body(f, v) /\ step[g][v] = body(g, v)
    <3> HIDE DEF body, V
    <3> QED
      OBVIOUS
  <2>2. ~v.terminal => f[v.high] = g[v.high] /\ f[v.low] = g[v.low]
    BY <1>3, HeightFalls
  <2>3. body(f, v) = body(g, v)
    BY <2>2
  <2> HIDE DEF step, body
  <2> QED
    BY <2>1, <2>3
<1>4. {} \in V
  OBVIOUS
<1>5. PICK f \in [Vertices -> V] : f = step[f]
  <2>1. \A f, g \in [Vertices -> V] : \A v \in Vertices :
          (\A u \in Vertices : rank[u] < rank[v] => f[u] = g[u]) => step[f][v] = step[g][v]
    BY <1>3
  <2> HIDE DEF step, rank, V
  <2>2. IsRecursion(Vertices, V, MaxOrder, rank, step)
    BY <1>0, <1>1, <1>2, <1>4, <2>1 DEF IsRecursion
  <2> QED
    BY <2>2, RankedRecursion
<1>6. IsModels(f, indices)
  BY <1>5 DEF IsModels
<1> QED
  BY <1>6

(* A mark that differs from a truth.                                       *)
LEMMA Differs ==
  ASSUME NEW c \in BOOLEAN, NEW x, NEW S
  PROVE  (c /= (x \in S)) <=> ~(c <=> x \in S)
<1>1. CASE c = TRUE
  BY <1>1
<1>2. CASE c = FALSE
  BY <1>2
<1> QED
  BY <1>1, <1>2

(* The recursion of Meaning, at a terminal and at a vertex that branches.  *)
LEMMA MeaningDefined ==
  ASSUME NEW indices
  PROVE  \E models : /\ IsModels(models, indices)
                     /\ \A f : Meaning(f, indices) =
                                 {true \in SUBSET indices : f.complement /= (true \in models[f.vertex])}
<1> DEFINE P(models) ==
             models = [v \in Vertices |->
                 IF v.terminal THEN SUBSET indices
                 ELSE {true \in SUBSET indices : Says(v, true, models[v.high], models[v.low])}]
           models == CHOOSE models : P(models)
<1>1. PICK any : IsModels(any, indices)
  BY ModelsExist
<1>2. P(any)
  BY <1>1 DEF IsModels
<1>3. P(models)
  <2> HIDE DEF P
  <2> QED
    BY <1>2
<1>4. \A v \in Vertices : models[v] \in SUBSET SUBSET indices
  <2> HIDE DEF models
  <2> QED
    BY <1>3
<1>5. models \in [Vertices -> SUBSET SUBSET indices]
  <2> HIDE DEF models
  <2> QED
    BY <1>3, <1>4
<1>6. IsModels(models, indices)
  <2> HIDE DEF models
  <2> QED
    BY <1>3, <1>5 DEF IsModels
<1>7. ASSUME NEW f
      PROVE  Meaning(f, indices) = {true \in SUBSET indices : f.complement /= (true \in models[f.vertex])}
  BY Zenon DEF Meaning, Says
<1> HIDE DEF models
<1> QED
  BY <1>6, <1>7

LEMMA MeaningAtTerminal ==
  ASSUME NEW indices, NEW f \in AnyFunction, f.vertex.terminal
  PROVE  Meaning(f, indices) = IF f.complement THEN {} ELSE SUBSET indices
<1>1. PICK models : /\ IsModels(models, indices)
                    /\ \A g : Meaning(g, indices) =
                                {true \in SUBSET indices : g.complement /= (true \in models[g.vertex])}
  BY MeaningDefined
<1>2. f.complement \in BOOLEAN /\ f.vertex \in Vertices
  BY FunctionIs
<1>3. models[f.vertex] = SUBSET indices
  BY <1>1, <1>2 DEF IsModels
<1>4. Meaning(f, indices) = {true \in SUBSET indices : f.complement /= (true \in SUBSET indices)}
  BY <1>1, <1>3
<1>5. CASE f.complement = TRUE
  BY <1>4, <1>5
<1>6. CASE f.complement = FALSE
  BY <1>4, <1>6
<1> QED
  BY <1>2, <1>5, <1>6

LEMMA MeaningAtBranch ==
  ASSUME NEW indices, NEW f \in AnyFunction, ~f.vertex.terminal, NEW true \in SUBSET indices
  PROVE  true \in Meaning(f, indices) <=>
           IF f.vertex.index \in true THEN true \in Meaning(High(f), indices)
           ELSE true \in Meaning(Low(f), indices)
<1>1. PICK models : /\ IsModels(models, indices)
                    /\ \A g : Meaning(g, indices) =
                                {t \in SUBSET indices : g.complement /= (t \in models[g.vertex])}
  BY MeaningDefined
<1>2. f.complement \in BOOLEAN /\ f.vertex \in Vertices
  BY FunctionIs
<1> DEFINE v == f.vertex
<1>3. models[v] = {t \in SUBSET indices : Says(v, t, models[v.high], models[v.low])}
  BY <1>1, <1>2 DEF IsModels
<1>4. true \in models[v] <=> Says(v, true, models[v.high], models[v.low])
  BY <1>3
<1>5. /\ High(f).vertex = v.high /\ High(f).complement = f.complement
      /\ Low(f).vertex = v.low /\ Low(f).complement = (f.complement /= v.complement_edge)
      /\ v.complement_edge \in BOOLEAN
  BY Branching
<1>6. /\ true \in Meaning(f, indices) <=> (f.complement /= (true \in models[v]))
      /\ true \in Meaning(High(f), indices) <=> (High(f).complement /= (true \in models[v.high]))
      /\ true \in Meaning(Low(f), indices) <=> (Low(f).complement /= (true \in models[v.low]))
  BY <1>1, <1>5
<1>7. CASE v.index \in true
  <2>1. true \in models[v] <=> true \in models[v.high]
    BY <1>4, <1>7 DEF Says
  <2> QED
    BY <1>2, <1>5, <1>6, <1>7, <2>1
<1>8. CASE ~(v.index \in true)
  <2>1. true \in models[v] <=> ~(v.complement_edge <=> true \in models[v.low])
    BY <1>4, <1>5, <1>8, Differs DEF Says
  <2>2. true \in Meaning(f, indices) <=> ~(f.complement <=> true \in models[v])
    BY <1>2, <1>6, Differs
  <2>3. Low(f).complement <=> ~(f.complement <=> v.complement_edge)
    BY <1>2, <1>5
  <2>4. Low(f).complement \in BOOLEAN
    BY <1>2, <1>5
  <2>5. true \in Meaning(Low(f), indices) <=> ~(Low(f).complement <=> true \in models[v.low])
    BY <1>6, <2>4, Differs
  <2> QED
    BY <1>2, <1>5, <1>8, <2>1, <2>2, <2>3, <2>5
<1> QED
  BY <1>7, <1>8

LEMMA MeaningIsSets ==
  ASSUME NEW indices, NEW f
  PROVE  Meaning(f, indices) \subseteq SUBSET indices
BY MeaningDefined

(* A complement mark turns a meaning around.                               *)
LEMMA MeaningOfComplement ==
  ASSUME NEW indices, NEW c \in BOOLEAN, NEW f \in AnyFunction, NEW true \in SUBSET indices
  PROVE  /\ Negate(c, f) \in AnyFunction /\ Negate(c, f).vertex = f.vertex
         /\ true \in Meaning(Negate(c, f), indices) <=> (c /= (true \in Meaning(f, indices)))
<1>1. f.complement \in BOOLEAN /\ f.vertex \in Vertices
  BY FunctionIs
<1>2. (c /= f.complement) \in BOOLEAN
  BY <1>1
<1>3. /\ Negate(c, f) \in AnyFunction /\ Negate(c, f).vertex = f.vertex
      /\ Negate(c, f).complement = (c /= f.complement)
  BY <1>1, <1>2, FunctionFacts DEF Negate
<1>4. PICK models : /\ IsModels(models, indices)
                    /\ \A g : Meaning(g, indices) =
                                {t \in SUBSET indices : g.complement /= (t \in models[g.vertex])}
  BY MeaningDefined
<1>5. /\ true \in Meaning(f, indices) <=> (f.complement /= (true \in models[f.vertex]))
      /\ true \in Meaning(Negate(c, f), indices) <=> ((c /= f.complement) /= (true \in models[f.vertex]))
  BY <1>3, <1>4
<1>6. ((c /= f.complement) /= (true \in models[f.vertex])) <=>
        (c /= (f.complement /= (true \in models[f.vertex])))
  BY <1>1
<1>7. CASE c = TRUE
  BY <1>3, <1>5, <1>6, <1>7
<1>8. CASE c = FALSE
  BY <1>3, <1>5, <1>6, <1>8
<1> QED
  BY <1>7, <1>8

-----------------------------------------------------------------------------
(* The body of Apply, over what the recursion makes of the branches.       *)
Applied(type, result, one, two) ==
  IF one.vertex.terminal THEN IF one = Absorbing(type) THEN one ELSE two
  ELSE IF two.vertex.terminal THEN IF two = Absorbing(type) THEN two ELSE one
  ELSE IF one.vertex = two.vertex THEN IF one = two THEN one ELSE Absorbing(type)
  ELSE IF one.vertex.order = two.vertex.order
  THEN Made(one.vertex, result[<<High(one), High(two)>>], result[<<Low(one), Low(two)>>])
  ELSE IF one.vertex.order < two.vertex.order
  THEN Made(one.vertex, result[<<High(one), two>>], result[<<Low(one), two>>])
  ELSE Made(two.vertex, result[<<one, High(two)>>], result[<<one, Low(two)>>])

Pairs == AnyFunction \X AnyFunction

(* It looks only at pairs of functions with fewer levels below them.       *)
LEMMA AppliedLooksBelow ==
  ASSUME NEW type, NEW f, NEW g, NEW one \in AnyFunction, NEW two \in AnyFunction,
         \A a, b \in AnyFunction :
           Height(a.vertex) + Height(b.vertex) < Height(one.vertex) + Height(two.vertex) =>
             f[<<a, b>>] = g[<<a, b>>]
  PROVE  Applied(type, f, one, two) = Applied(type, g, one, two)
<1>1. one.vertex \in Vertices /\ two.vertex \in Vertices
  BY FunctionIs
<1>2. /\ Height(one.vertex) \in Nat /\ Height(two.vertex) \in Nat
      /\ one.vertex.terminal \in BOOLEAN /\ two.vertex.terminal \in BOOLEAN
  BY <1>1, HeightFalls, TerminalIsOne
<1>3. CASE one.vertex.terminal
  BY <1>3 DEF Applied
<1>4. CASE ~one.vertex.terminal /\ two.vertex.terminal
  BY <1>4 DEF Applied
<1>5. CASE ~one.vertex.terminal /\ ~two.vertex.terminal
  <2>1. /\ High(one) \in AnyFunction /\ Low(one) \in AnyFunction
        /\ High(two) \in AnyFunction /\ Low(two) \in AnyFunction
        /\ High(one).vertex = one.vertex.high /\ Low(one).vertex = one.vertex.low
        /\ High(two).vertex = two.vertex.high /\ Low(two).vertex = two.vertex.low
    BY <1>5, Branching
  <2>2. /\ Height(one.vertex.high) \in Nat /\ Height(one.vertex.high) < Height(one.vertex)
        /\ Height(one.vertex.low) \in Nat /\ Height(one.vertex.low) < Height(one.vertex)
        /\ Height(two.vertex.high) \in Nat /\ Height(two.vertex.high) < Height(two.vertex)
        /\ Height(two.vertex.low) \in Nat /\ Height(two.vertex.low) < Height(two.vertex)
    BY <1>1, <1>5, HeightFalls
  <2>3. /\ f[<<High(one), High(two)>>] = g[<<High(one), High(two)>>]
        /\ f[<<Low(one), Low(two)>>] = g[<<Low(one), Low(two)>>]
    <3>1. /\ Height(High(one).vertex) + Height(High(two).vertex) < Height(one.vertex) + Height(two.vertex)
          /\ Height(Low(one).vertex) + Height(Low(two).vertex) < Height(one.vertex) + Height(two.vertex)
      BY <1>2, <2>1, <2>2
    <3> QED
      BY <2>1, <3>1
  <2>4. f[<<High(one), two>>] = g[<<High(one), two>>] /\ f[<<Low(one), two>>] = g[<<Low(one), two>>]
    <3>1. /\ Height(High(one).vertex) + Height(two.vertex) < Height(one.vertex) + Height(two.vertex)
          /\ Height(Low(one).vertex) + Height(two.vertex) < Height(one.vertex) + Height(two.vertex)
      BY <1>2, <2>1, <2>2
    <3> QED
      BY <2>1, <3>1
  <2>5. f[<<one, High(two)>>] = g[<<one, High(two)>>] /\ f[<<one, Low(two)>>] = g[<<one, Low(two)>>]
    <3>1. /\ Height(one.vertex) + Height(High(two).vertex) < Height(one.vertex) + Height(two.vertex)
          /\ Height(one.vertex) + Height(Low(two).vertex) < Height(one.vertex) + Height(two.vertex)
      BY <1>2, <2>1, <2>2
    <3> QED
      BY <2>1, <3>1
  <2> QED
    BY <2>3, <2>4, <2>5 DEF Applied
<1> QED
  BY <1>2, <1>3, <1>4, <1>5

LEMMA ApplyExists ==
  ASSUME NEW type
  PROVE  \E result : result = [pair \in Pairs |-> Applied(type, result, pair[1], pair[2])]
<1> DEFINE N == MaxOrder + MaxOrder
           size(a, b) == Height(a.vertex) + Height(b.vertex)
           Settled(f, r) == \A a, b \in AnyFunction : size(a, b) <= r => f[<<a, b>>] = Applied(type, f, a, b)
           next(f) == [pair \in Pairs |-> Applied(type, f, pair[1], pair[2])]
           S == {r \in 0..N : \E f : Settled(f, r)}
<1>0. MaxOrder \in Nat /\ N \in Nat
  BY MaxOrderAssumption
<1>1. ASSUME NEW a \in AnyFunction, NEW b \in AnyFunction PROVE size(a, b) \in 0..N
  <2>1. a.vertex \in Vertices /\ b.vertex \in Vertices
    BY FunctionIs
  <2>2. Height(a.vertex) \in 0..MaxOrder /\ Height(b.vertex) \in 0..MaxOrder
    BY <2>1, HeightFalls
  <2> QED
    BY <1>0, <2>2
<1>2. ASSUME NEW f, NEW a \in AnyFunction, NEW b \in AnyFunction
      PROVE  next(f)[<<a, b>>] = Applied(type, f, a, b)
  BY DEF Pairs
<1>3. ASSUME NEW r \in 0..N, NEW f, r > 0 => Settled(f, r - 1)
      PROVE  Settled(next(f), r)
  <2>1. ASSUME NEW a \in AnyFunction, NEW b \in AnyFunction, size(a, b) <= r
        PROVE  next(f)[<<a, b>>] = Applied(type, next(f), a, b)
    <3>1. ASSUME NEW c \in AnyFunction, NEW d \in AnyFunction, size(c, d) < size(a, b)
          PROVE  f[<<c, d>>] = next(f)[<<c, d>>]
      <4>1. size(c, d) \in 0..N /\ size(a, b) \in 0..N
        BY <1>1
      <4>2. r > 0 /\ size(c, d) <= r - 1
        <5> HIDE DEF size, N
        <5> QED
          BY <1>0, <2>1, <3>1, <4>1
      <4>3. f[<<c, d>>] = Applied(type, f, c, d)
        BY <1>3, <4>2
      <4> QED
        BY <1>2, <4>3
    <3>2. Applied(type, f, a, b) = Applied(type, next(f), a, b)
      <4> HIDE DEF next
      <4> QED
        BY <3>1, AppliedLooksBelow
    <3> QED
      BY <1>2, <3>2
  <2> QED
    BY <2>1
<1>4. 0 \in S
  <2>1. 0 \in 0..N /\ ~(0 > 0)
    BY <1>0
  <2> HIDE DEF Settled, next, N
  <2> QED
    BY <1>3, <2>1
<1>5. ASSUME NEW r \in 1..N, r - 1 \in S PROVE r \in S
  <2>1. r \in 0..N
    BY <1>0
  <2> HIDE DEF Settled, next, N
  <2>2. PICK f : Settled(f, r - 1)
    BY <1>5
  <2> QED
    BY <1>3, <2>1, <2>2
<1>6. N \in S
  <2> HIDE DEF S, N
  <2>1. \A r \in 0..N : r \in S
    BY <1>0, <1>4, <1>5, Stepping
  <2> QED
    BY <1>0, <2>1
<1>7. PICK f : Settled(f, N)
  <2> HIDE DEF Settled
  <2> QED
    BY <1>6
<1>8. ASSUME NEW a \in AnyFunction, NEW b \in AnyFunction
      PROVE  f[<<a, b>>] = Applied(type, f, a, b)
  <2>1. size(a, b) <= N
    <3> HIDE DEF size, N
    <3> QED
      BY <1>0, <1>1
  <2> QED
    BY <1>7, <2>1
<1>9. ASSUME NEW a \in AnyFunction, NEW b \in AnyFunction
      PROVE  Applied(type, f, a, b) = Applied(type, next(f), a, b)
  <2>1. ASSUME NEW c \in AnyFunction, NEW d \in AnyFunction
        PROVE  f[<<c, d>>] = next(f)[<<c, d>>]
    BY <1>2, <1>8
  <2> HIDE DEF next
  <2> QED
    BY <2>1, AppliedLooksBelow
<1>10. ASSUME NEW pair \in Pairs
       PROVE  Applied(type, f, pair[1], pair[2]) = Applied(type, next(f), pair[1], pair[2])
  BY <1>9 DEF Pairs
<1>11. next(f) = [pair \in Pairs |-> Applied(type, next(f), pair[1], pair[2])]
  BY <1>10
<1> QED
  <2> HIDE DEF next
  <2> QED
    BY <1>11

(* The recursion of Apply, case by case.                                   *)
LEMMA ApplyDefined ==
  ASSUME NEW type, NEW one \in AnyFunction, NEW two \in AnyFunction
  PROVE  /\ one.vertex.terminal => Apply(type, one, two) = IF one = Absorbing(type) THEN one ELSE two
         /\ ~one.vertex.terminal /\ two.vertex.terminal =>
              Apply(type, one, two) = IF two = Absorbing(type) THEN two ELSE one
         /\ ~one.vertex.terminal /\ ~two.vertex.terminal /\ one.vertex = two.vertex =>
              Apply(type, one, two) = IF one = two THEN one ELSE Absorbing(type)
         /\ ~one.vertex.terminal /\ ~two.vertex.terminal /\ one.vertex /= two.vertex =>
              Apply(type, one, two) =
                IF one.vertex.order = two.vertex.order
                THEN Made(one.vertex, Apply(type, High(one), High(two)), Apply(type, Low(one), Low(two)))
                ELSE IF one.vertex.order < two.vertex.order
                THEN Made(one.vertex, Apply(type, High(one), two), Apply(type, Low(one), two))
                ELSE Made(two.vertex, Apply(type, one, High(two)), Apply(type, one, Low(two)))
<1> DEFINE P(result) == result = [pair \in Pairs |-> Applied(type, result, pair[1], pair[2])]
           result == CHOOSE result : P(result)
<1>1. P(result)
  <2>1. \E any : P(any)
    BY ApplyExists
  <2> HIDE DEF P
  <2> QED
    BY <2>1
<1>2. ASSUME NEW a, NEW b PROVE Apply(type, a, b) = result[<<a, b>>]
  BY Zenon DEF Apply, Applied, Pairs
<1>3. result[<<one, two>>] = Applied(type, result, one, two)
  <2>1. <<one, two>> \in Pairs /\ <<one, two>>[1] = one /\ <<one, two>>[2] = two
    BY DEF Pairs
  <2> HIDE DEF result
  <2> QED
    BY <1>1, <2>1
<1>4. Apply(type, one, two) = Applied(type, result, one, two)
  BY <1>2, <1>3
<1> HIDE DEF result
<1>5. one.vertex.terminal \in BOOLEAN /\ two.vertex.terminal \in BOOLEAN
  BY FunctionIs, TerminalIsOne
<1>6. one.vertex.terminal => Apply(type, one, two) = IF one = Absorbing(type) THEN one ELSE two
  BY <1>4 DEF Applied
<1>7. ~one.vertex.terminal /\ two.vertex.terminal =>
        Apply(type, one, two) = IF two = Absorbing(type) THEN two ELSE one
  BY <1>4 DEF Applied
<1>8. ~one.vertex.terminal /\ ~two.vertex.terminal /\ one.vertex = two.vertex =>
        Apply(type, one, two) = IF one = two THEN one ELSE Absorbing(type)
  BY <1>4 DEF Applied
<1>9. ASSUME ~one.vertex.terminal, ~two.vertex.terminal, one.vertex /= two.vertex
      PROVE  Apply(type, one, two) =
                IF one.vertex.order = two.vertex.order
                THEN Made(one.vertex, Apply(type, High(one), High(two)), Apply(type, Low(one), Low(two)))
                ELSE IF one.vertex.order < two.vertex.order
                THEN Made(one.vertex, Apply(type, High(one), two), Apply(type, Low(one), two))
                ELSE Made(two.vertex, Apply(type, one, High(two)), Apply(type, one, Low(two)))
  BY <1>2, <1>4, <1>9 DEF Applied
<1> QED
  BY <1>6, <1>7, <1>8, <1>9

-----------------------------------------------------------------------------
(* What tells the prototypes of vertices apart: an index and an order each.*)
Attributes(v) == [index |-> v.index, order |-> v.order, module |-> v.module, coherent |-> v.coherent]

ArePrototypes(P) ==
  /\ P \subseteq [index : Nat, order : 1..MaxOrder, module : BOOLEAN, coherent : BOOLEAN]
  /\ \A p, q \in P : p.order = q.order \/ p.index = q.index => p = q

(* A vertex of a prototype, reduced, over vertices of a set that come later*)
(* in the order.                                                           *)
Stands(P, v, S) ==
  /\ ~v.terminal /\ Attributes(v) \in P
  /\ v.high \in S /\ v.low \in S
  /\ v.complement_edge \/ v.high /= v.low
  /\ v.high.terminal \/ v.order < v.high.order
  /\ v.low.terminal \/ v.order < v.low.order

Built(P, S) == \A v \in S : v = kOne \/ Stands(P, v, S)

(* The diagrams over prototypes.                                           *)
Diagrams(P) == UNION {S \in SUBSET Vertices : Built(P, S)}

DiagramFunctions(P) == [complement : BOOLEAN, vertex : Diagrams(P)]

LEMMA DiagramShape ==
  ASSUME NEW P, NEW v \in Diagrams(P)
  PROVE  v \in Vertices /\ (v = kOne \/ Stands(P, v, Diagrams(P)))
<1>1. PICK S \in SUBSET Vertices : Built(P, S) /\ v \in S
  BY DEF Diagrams
<1>2. S \subseteq Diagrams(P)
  BY <1>1 DEF Diagrams
<1> QED
  BY <1>1, <1>2 DEF Built, Stands

LEMMA DiagramFunctionFacts ==
  ASSUME NEW P, NEW f \in DiagramFunctions(P)
  PROVE  f \in AnyFunction /\ f.complement \in BOOLEAN /\ f.vertex \in Diagrams(P)
<1>1. f.complement \in BOOLEAN /\ f.vertex \in Diagrams(P)
  BY DEF DiagramFunctions
<1>2. \A v \in Diagrams(P) : v \in Vertices
  BY DiagramShape
<1> QED
  BY <1>1, <1>2 DEF DiagramFunctions, AnyFunction

LEMMA OneIsDiagram ==
  ASSUME NEW P
  PROVE  kOne \in Diagrams(P)
<1>1. Built(P, {kOne}) /\ {kOne} \in SUBSET Vertices
  BY TerminalIsOne DEF Built
<1> QED
  BY <1>1 DEF Diagrams

LEMMA FunctionOnDiagram ==
  ASSUME NEW P, NEW c \in BOOLEAN, NEW v \in Diagrams(P)
  PROVE  Function(c, v) \in DiagramFunctions(P)
BY DEF Function, DiagramFunctions

(* The place of a vertex, counted from the end of the order.               *)
Rank(v) == IF v.terminal THEN 0 ELSE MaxOrder + 1 - v.order

LEMMA RankFalls ==
  ASSUME NEW P, ArePrototypes(P), NEW v \in Diagrams(P)
  PROVE  /\ Rank(v) \in 0..MaxOrder /\ (Rank(v) = 0 <=> v.terminal)
         /\ ~v.terminal =>
              /\ Attributes(v) \in P
              /\ v.order \in 1..MaxOrder /\ Rank(v) = MaxOrder + 1 - v.order
              /\ v.index \in Nat
              /\ v.high \in Diagrams(P) /\ v.low \in Diagrams(P)
              /\ Rank(v.high) \in 0..MaxOrder /\ Rank(v.low) \in 0..MaxOrder
              /\ Rank(v.high) < Rank(v) /\ Rank(v.low) < Rank(v)
<1>0. MaxOrder \in Nat
  BY MaxOrderAssumption
<1>1. ASSUME NEW u \in Diagrams(P)
      PROVE  /\ u.terminal \in BOOLEAN
             /\ ~u.terminal => /\ u.order \in 1..MaxOrder /\ u.index \in Nat /\ Attributes(u) \in P
                               /\ Rank(u) = MaxOrder + 1 - u.order
             /\ Rank(u) \in 0..MaxOrder /\ (Rank(u) = 0 <=> u.terminal)
  <2>1. u \in Vertices /\ (u = kOne \/ Stands(P, u, Diagrams(P)))
    BY DiagramShape
  <2>2. u.terminal \in BOOLEAN /\ (u.terminal <=> u = kOne)
    BY <2>1, TerminalIsOne
  <2>3. CASE u.terminal
    BY <1>0, <2>2, <2>3 DEF Rank
  <2>4. CASE ~u.terminal
    <3>1. Attributes(u) \in P
      BY <2>1, <2>2, <2>4 DEF Stands
    <3>2. Attributes(u).order \in 1..MaxOrder /\ Attributes(u).index \in Nat
      BY <3>1 DEF ArePrototypes
    <3>3. u.order \in 1..MaxOrder /\ u.index \in Nat
      BY <3>2 DEF Attributes
    <3>4. Rank(u) = MaxOrder + 1 - u.order
      BY <2>4 DEF Rank
    <3> QED
      BY <1>0, <2>2, <2>4, <3>1, <3>3, <3>4
  <2> QED
    BY <2>2, <2>3, <2>4
<1>2. ASSUME ~v.terminal
      PROVE  /\ v.high \in Diagrams(P) /\ v.low \in Diagrams(P)
             /\ Rank(v.high) < Rank(v) /\ Rank(v.low) < Rank(v)
  <2>1. /\ v.high \in Diagrams(P) /\ v.low \in Diagrams(P)
        /\ v.high.terminal \/ v.order < v.high.order
        /\ v.low.terminal \/ v.order < v.low.order
    BY <1>2, DiagramShape, TerminalIsOne DEF Stands
  <2>2. v.order \in 1..MaxOrder /\ Rank(v) = MaxOrder + 1 - v.order
    BY <1>1, <1>2
  <2>3. ASSUME NEW u \in Diagrams(P), u.terminal \/ v.order < u.order
        PROVE  Rank(u) < Rank(v)
    BY <1>0, <1>1, <2>2, <2>3
  <2> QED
    BY <2>1, <2>3
<1> QED
  BY <1>1, <1>2

(* The depth of a diagram is bounded by its place.                         *)
LEMMA DiagramDepth ==
  ASSUME NEW P, ArePrototypes(P)
  PROVE  \A v \in Diagrams(P) : v \in Levels[Rank(v)]
<1> DEFINE S == {r \in 0..MaxOrder : \A v \in Diagrams(P) : Rank(v) = r => v \in Levels[r]}
<1>0. MaxOrder \in Nat
  BY MaxOrderAssumption
<1>1. ASSUME NEW r \in 0..MaxOrder, \A k \in 0..(r - 1) : k \in S
      PROVE  r \in S
  <2>1. ASSUME NEW v \in Diagrams(P), Rank(v) = r
        PROVE  v \in Levels[r]
    <3>1. v \in Vertices /\ (v.terminal <=> v = kOne)
      BY DiagramShape, TerminalIsOne
    <3>2. CASE v.terminal
      BY <3>1, <3>2, TerminalIsOne
    <3>3. CASE ~v.terminal
      <4>1. /\ v.high \in Diagrams(P) /\ v.low \in Diagrams(P)
            /\ Rank(v.high) \in 0..MaxOrder /\ Rank(v.low) \in 0..MaxOrder
            /\ Rank(v.high) < r /\ Rank(v.low) < r
        BY <2>1, <3>3, RankFalls
      <4>2. /\ Rank(v.high) \in 0..(r - 1) /\ Rank(v.low) \in 0..(r - 1)
            /\ r \in 1..MaxOrder /\ r - 1 \in 0..MaxOrder
        BY <1>0, <4>1
      <4>3. v.high \in Levels[Rank(v.high)] /\ v.low \in Levels[Rank(v.low)]
        BY <1>1, <4>1, <4>2
      <4>4. v.high \in Levels[r - 1] /\ v.low \in Levels[r - 1]
        BY <4>2, <4>3, LevelsGrow
      <4>5. v /= kOne /\ MaxOrder \in 1..MaxOrder
        BY <1>0, <3>1, <3>3, <4>2
      <4>6. v \in Over(Levels[MaxOrder - 1])
        BY <3>1, <4>5, LevelsDefined DEF Vertices
      <4>7. v \in Over(Levels[r - 1])
        BY <4>4, <4>6 DEF Over
      <4> QED
        BY <4>2, <4>7, LevelsDefined
    <3> QED
      BY <3>1, <3>2, <3>3, TerminalIsOne
  <2> QED
    BY <2>1
<1>2. \A r \in 0..MaxOrder : r \in S
  <2> HIDE DEF S
  <2> QED
    BY <1>0, <1>1, Climbing
<1> QED
  BY <1>2, RankFalls

(* FindOrAddVertex, over two diagrams that come later, makes a diagram.    *)
LEMMA VertexMade ==
  ASSUME NEW P, ArePrototypes(P), NEW like, Attributes(like) \in P,
         NEW high \in Diagrams(P), NEW low \in Diagrams(P), NEW edge \in BOOLEAN,
         edge \/ high /= low,
         Rank(high) < MaxOrder + 1 - like.order, Rank(low) < MaxOrder + 1 - like.order
  PROVE  /\ FindOrAddVertex(like, high, low, edge) \in Diagrams(P)
         /\ Rank(FindOrAddVertex(like, high, low, edge)) = MaxOrder + 1 - like.order
<1> DEFINE v == FindOrAddVertex(like, high, low, edge)
           r == MaxOrder + 1 - like.order
<1>0. MaxOrder \in Nat
  BY MaxOrderAssumption
<1>1. /\ v.terminal = FALSE /\ v.index = like.index /\ v.order = like.order
      /\ v.module = like.module /\ v.coherent = like.coherent
      /\ v.high = high /\ v.low = low /\ v.complement_edge = edge
  BY DEF FindOrAddVertex
<1>2. /\ like.index \in Nat /\ like.order \in 1..MaxOrder
      /\ like.module \in BOOLEAN /\ like.coherent \in BOOLEAN
  <2>1. /\ Attributes(like).index \in Nat /\ Attributes(like).order \in 1..MaxOrder
        /\ Attributes(like).module \in BOOLEAN /\ Attributes(like).coherent \in BOOLEAN
    BY DEF ArePrototypes
  <2> QED
    BY <2>1 DEF Attributes
<1>3. r \in 1..MaxOrder /\ r - 1 \in 0..MaxOrder
  BY <1>0, <1>2
<1>4. /\ Rank(high) \in 0..(r - 1) /\ Rank(low) \in 0..(r - 1)
  BY <1>0, <1>2, RankFalls
<1>5. high \in Levels[r - 1] /\ low \in Levels[r - 1]
  <2>1. high \in Levels[Rank(high)] /\ low \in Levels[Rank(low)]
    BY DiagramDepth
  <2> HIDE DEF r
  <2> QED
    BY <1>3, <1>4, <2>1, LevelsGrow
<1>6. v \in Over(Levels[r - 1])
  BY <1>2, <1>5 DEF FindOrAddVertex, Over
<1>7. v \in Vertices
  <2> HIDE DEF r, v
  <2>1. v \in Levels[r] /\ r \in 0..MaxOrder
    BY <1>3, <1>6, LevelsDefined
  <2> QED
    BY <2>1, VertexShape
<1>8. Attributes(v) \in P
  BY <1>1 DEF Attributes
<1> HIDE DEF v
<1>9. high.terminal \/ like.order < high.order
  BY <1>0, <1>2, RankFalls
<1>10. low.terminal \/ like.order < low.order
  BY <1>0, <1>2, RankFalls
<1> DEFINE S == Diagrams(P) \cup {v}
<1>11. Stands(P, v, S)
  BY <1>1, <1>8, <1>9, <1>10 DEF Stands
<1>12. \A u \in Diagrams(P) : u \in Vertices /\ (u = kOne \/ Stands(P, u, S))
  BY DiagramShape DEF Stands
<1>13. S \in SUBSET Vertices /\ Built(P, S)
  BY <1>7, <1>11, <1>12 DEF Built
<1>14. v \in Diagrams(P)
  <2>1. v \in S
    OBVIOUS
  <2> HIDE DEF S
  <2> QED
    BY <1>13, <2>1 DEF Diagrams
<1>15. Rank(v) = MaxOrder + 1 - like.order
  BY <1>1 DEF Rank
<1> QED
  BY <1>14, <1>15 DEF v

-----------------------------------------------------------------------------
(* The diagrams that begin at a variable of some place or after it.        *)
LEMMA BranchesOfDiagram ==
  ASSUME NEW P, ArePrototypes(P), NEW f \in DiagramFunctions(P), ~f.vertex.terminal
  PROVE  /\ High(f) \in DiagramFunctions(P) /\ Low(f) \in DiagramFunctions(P)
         /\ High(f).vertex = f.vertex.high /\ Low(f).vertex = f.vertex.low
         /\ Rank(High(f).vertex) \in 0..MaxOrder /\ Rank(Low(f).vertex) \in 0..MaxOrder
         /\ Rank(High(f).vertex) < Rank(f.vertex) /\ Rank(Low(f).vertex) < Rank(f.vertex)
         /\ f.vertex.order \in 1..MaxOrder /\ f.vertex.index \in Nat /\ Attributes(f.vertex) \in P
         /\ Rank(f.vertex) = MaxOrder + 1 - f.vertex.order
<1>1. f \in AnyFunction /\ f.complement \in BOOLEAN /\ f.vertex \in Diagrams(P)
  BY DiagramFunctionFacts
<1>2. /\ High(f) = Function(f.complement, f.vertex.high)
      /\ Low(f) = Function(f.complement /= f.vertex.complement_edge, f.vertex.low)
  BY DEF High, Low
<1>3. f.vertex.complement_edge \in BOOLEAN
  BY <1>1, Branching
<1>4. (f.complement /= f.vertex.complement_edge) \in BOOLEAN
  BY <1>1, <1>3
<1>5. High(f).vertex = f.vertex.high /\ Low(f).vertex = f.vertex.low
  BY <1>1, Branching
<1>6. f.vertex.high \in Diagrams(P) /\ f.vertex.low \in Diagrams(P)
  BY <1>1, RankFalls
<1>7. High(f) \in DiagramFunctions(P) /\ Low(f) \in DiagramFunctions(P)
  BY <1>1, <1>2, <1>4, <1>6, FunctionOnDiagram
<1> QED
  BY <1>1, <1>5, <1>7, RankFalls

(* The tail of Apply makes a diagram of two that come later, and what it   *)
(* makes is the first where its variable is true, else the second.         *)
LEMMA MadeIsDiagram ==
  ASSUME NEW P, ArePrototypes(P), NEW like, Attributes(like) \in P,
         NEW high \in DiagramFunctions(P), NEW low \in DiagramFunctions(P),
         Rank(high.vertex) < MaxOrder + 1 - like.order,
         Rank(low.vertex) < MaxOrder + 1 - like.order
  PROVE  /\ Made(like, high, low) \in DiagramFunctions(P)
         /\ Rank(Made(like, high, low).vertex) <= MaxOrder + 1 - like.order
         /\ \A indices : \A true \in SUBSET indices :
              true \in Meaning(Made(like, high, low), indices) <=>
                IF like.index \in true THEN true \in Meaning(high, indices)
                ELSE true \in Meaning(low, indices)
<1> DEFINE edge == high.complement /= low.complement
           v == FindOrAddVertex(like, high.vertex, low.vertex, edge)
           made == Function(high.complement, v)
<1>0. MaxOrder \in Nat /\ like.order \in Nat
  <2>1. Attributes(like).order \in Nat
    BY DEF ArePrototypes
  <2> QED
    BY <2>1, MaxOrderAssumption DEF Attributes
<1>1. /\ high \in AnyFunction /\ high.complement \in BOOLEAN /\ high.vertex \in Diagrams(P)
      /\ low \in AnyFunction /\ low.complement \in BOOLEAN /\ low.vertex \in Diagrams(P)
  BY DiagramFunctionFacts
<1>2. CASE high = low
  <2>1. Made(like, high, low) = high
    BY <1>2 DEF Made
  <2>2. Rank(high.vertex) \in Nat
    BY <1>1, RankFalls
  <2> QED
    BY <1>0, <1>2, <2>1, <2>2
<1>3. CASE high /= low
  <2>1. Made(like, high, low) = made
    BY <1>3 DEF Made
  <2>2. edge \in BOOLEAN
    BY <1>1
  <2>3. edge \/ high.vertex /= low.vertex
    BY <1>1, <1>3, SameFunction
  <2>4. v \in Diagrams(P) /\ Rank(v) = MaxOrder + 1 - like.order
    <3> HIDE DEF edge
    <3> QED
      BY <1>1, <2>2, <2>3, VertexMade
  <2>5. /\ v.terminal = FALSE /\ v.index = like.index
        /\ v.high = high.vertex /\ v.low = low.vertex /\ v.complement_edge = edge
    <3> HIDE DEF edge
    <3> QED
      BY DEF FindOrAddVertex
  <2> HIDE DEF v
  <2>6. v \in Vertices
    BY <2>4, DiagramShape
  <2>7. made \in DiagramFunctions(P) /\ made \in AnyFunction /\ made.vertex = v /\ made.complement = high.complement
    BY <1>1, <2>4, <2>6, FunctionOnDiagram, FunctionFacts
  <2> HIDE DEF made, edge
  <2>8. High(made) = high
    <3>1. /\ High(made) \in AnyFunction /\ High(made).vertex = high.vertex
          /\ High(made).complement = high.complement
      BY <2>5, <2>7, Branching
    <3> QED
      BY <1>1, <3>1, SameFunction
  <2>9. Low(made) = low
    <3>1. /\ Low(made) \in AnyFunction /\ Low(made).vertex = low.vertex
          /\ Low(made).complement = (high.complement /= edge)
      BY <2>5, <2>7, Branching
    <3>2. (high.complement /= edge) = low.complement
      BY <1>1 DEF edge
    <3> QED
      BY <1>1, <3>1, <3>2, SameFunction
  <2>10. ASSUME NEW indices, NEW true \in SUBSET indices
         PROVE  true \in Meaning(made, indices) <=>
                  IF like.index \in true THEN true \in Meaning(high, indices)
                  ELSE true \in Meaning(low, indices)
    BY <2>5, <2>7, <2>8, <2>9, MeaningAtBranch
  <2>11. Rank(made.vertex) <= MaxOrder + 1 - like.order
    BY <1>0, <2>4, <2>7
  <2> QED
    BY <2>1, <2>7, <2>10, <2>11
<1> QED
  BY <1>2, <1>3

(* Two sets of true indices that agree from a place of the order on.       *)
Agree(P, k, t, u) == \A q \in P : q.order >= k => (q.index \in t <=> q.index \in u)

LEMMA MeaningLooksBelow ==
  ASSUME NEW P, ArePrototypes(P), NEW indices,
         NEW t \in SUBSET indices, NEW u \in SUBSET indices
  PROVE  \A f \in DiagramFunctions(P) :
           Agree(P, MaxOrder + 1 - Rank(f.vertex), t, u) =>
             (t \in Meaning(f, indices) <=> u \in Meaning(f, indices))
<1> DEFINE Same(f) == t \in Meaning(f, indices) <=> u \in Meaning(f, indices)
           S == {r \in 0..MaxOrder :
                   \A f \in DiagramFunctions(P) :
                     Rank(f.vertex) = r /\ Agree(P, MaxOrder + 1 - r, t, u) => Same(f)}
<1>0. MaxOrder \in Nat
  BY MaxOrderAssumption
<1>1. ASSUME NEW r \in 0..MaxOrder, \A k \in 0..(r - 1) : k \in S
      PROVE  r \in S
  <2>1. ASSUME NEW f \in DiagramFunctions(P), Rank(f.vertex) = r, Agree(P, MaxOrder + 1 - r, t, u)
        PROVE  Same(f)
    <3>1. f \in AnyFunction /\ f.vertex \in Diagrams(P) /\ f.vertex.terminal \in BOOLEAN
      BY DiagramFunctionFacts, DiagramShape, TerminalIsOne
    <3>2. CASE f.vertex.terminal
      BY <3>1, <3>2, MeaningAtTerminal
    <3>3. CASE ~f.vertex.terminal
      <4>1. /\ High(f) \in DiagramFunctions(P) /\ Low(f) \in DiagramFunctions(P)
            /\ Rank(High(f).vertex) \in 0..MaxOrder /\ Rank(Low(f).vertex) \in 0..MaxOrder
            /\ Rank(High(f).vertex) < r /\ Rank(Low(f).vertex) < r
            /\ f.vertex.order \in 1..MaxOrder /\ Attributes(f.vertex) \in P
            /\ r = MaxOrder + 1 - f.vertex.order
        BY <2>1, <3>3, BranchesOfDiagram
      <4>2. ASSUME NEW h \in DiagramFunctions(P), Rank(h.vertex) \in 0..MaxOrder, Rank(h.vertex) < r
            PROVE  Same(h)
        <5>1. Rank(h.vertex) \in 0..(r - 1)
          BY <1>0, <4>2
        <5>2. Agree(P, MaxOrder + 1 - Rank(h.vertex), t, u)
          <6>1. ASSUME NEW q \in P, q.order >= MaxOrder + 1 - Rank(h.vertex)
                PROVE  q.order >= MaxOrder + 1 - r
            <7>1. q.order \in 1..MaxOrder
              BY DEF ArePrototypes
            <7> QED
              BY <1>0, <4>2, <6>1, <7>1
          <6> QED
            BY <2>1, <6>1 DEF Agree
        <5> QED
          BY <1>1, <5>1, <5>2
      <4>3. f.vertex.index \in t <=> f.vertex.index \in u
        <5>1. Attributes(f.vertex).order = f.vertex.order /\ Attributes(f.vertex).index = f.vertex.index
          BY DEF Attributes
        <5>2. f.vertex.order >= MaxOrder + 1 - r
          BY <1>0, <4>1
        <5> QED
          BY <2>1, <4>1, <5>1, <5>2 DEF Agree
      <4> QED
        BY <3>1, <3>3, <4>1, <4>2, <4>3, MeaningAtBranch
    <3> QED
      BY <3>1, <3>2, <3>3
  <2> QED
    BY <2>1
<1>2. \A r \in 0..MaxOrder : r \in S
  <2> HIDE DEF S
  <2> QED
    BY <1>0, <1>1, Climbing
<1>3. ASSUME NEW f \in DiagramFunctions(P) PROVE Rank(f.vertex) \in 0..MaxOrder
  BY DiagramFunctionFacts, RankFalls
<1> QED
  BY <1>2, <1>3

-----------------------------------------------------------------------------
(* What the combination of two truths by a connective is.                  *)
Connects(type, x, y) == IF type = "and" THEN x /\ y ELSE x \/ y

(* A diagram that combines two: it begins no earlier than they, and means  *)
(* what the connective makes of their meanings.                            *)
Combines(P, type, f, g, h) ==
  /\ h \in DiagramFunctions(P)
  /\ \A k \in Nat : Rank(f.vertex) <= k /\ Rank(g.vertex) <= k => Rank(h.vertex) <= k
  /\ \A indices : \A true \in SUBSET indices :
       true \in Meaning(h, indices) <=>
         Connects(type, true \in Meaning(f, indices), true \in Meaning(g, indices))

LEMMA CombinesWithTerminal ==
  ASSUME NEW P, NEW type, NEW f \in DiagramFunctions(P), NEW g \in DiagramFunctions(P),
         f.vertex.terminal
  PROVE  /\ Combines(P, type, f, g, IF f = Absorbing(type) THEN f ELSE g)
         /\ Combines(P, type, g, f, IF f = Absorbing(type) THEN f ELSE g)
<1>1. f \in AnyFunction /\ f.complement \in BOOLEAN /\ f.vertex \in Vertices /\ f.vertex = kOne
  BY DiagramFunctionFacts, FunctionIs, TerminalIsOne
<1>2. f = Function(f.complement, kOne)
  BY <1>1, FunctionIs
<1>3. f = Absorbing(type) <=> f.complement = (type = "and")
  <2>1. (type = "and") \in BOOLEAN /\ kOne \in Vertices
    BY TerminalIsOne
  <2>2. Function(type = "and", kOne).complement = (type = "and")
    BY <2>1, FunctionFacts
  <2> QED
    BY <1>2, <2>2 DEF Absorbing
<1>4. \A indices : Meaning(f, indices) = IF f.complement THEN {} ELSE SUBSET indices
  BY <1>1, MeaningAtTerminal
<1>5. CASE f = Absorbing(type)
  <2>1. CASE type = "and"
    <3>1. \A indices : Meaning(f, indices) = {}
      BY <1>3, <1>4, <1>5, <2>1
    <3> QED
      BY <1>5, <2>1, <3>1 DEF Combines, Connects
  <2>2. CASE type /= "and"
    <3>1. \A indices : Meaning(f, indices) = SUBSET indices
      BY <1>3, <1>4, <1>5, <2>2
    <3> QED
      BY <1>5, <2>2, <3>1 DEF Combines, Connects
  <2> QED
    BY <2>1, <2>2
<1>6. CASE f /= Absorbing(type)
  <2>1. CASE type = "and"
    <3>1. \A indices : Meaning(f, indices) = SUBSET indices
      BY <1>1, <1>3, <1>4, <1>6, <2>1
    <3> QED
      BY <1>6, <2>1, <3>1 DEF Combines, Connects
  <2>2. CASE type /= "and"
    <3>1. \A indices : Meaning(f, indices) = {}
      BY <1>1, <1>3, <1>4, <1>6, <2>2
    <3> QED
      BY <1>6, <2>2, <3>1 DEF Combines, Connects
  <2> QED
    BY <2>1, <2>2
<1> QED
  BY <1>5, <1>6

LEMMA CombinesOneVertex ==
  ASSUME NEW P, ArePrototypes(P), NEW type,
         NEW f \in DiagramFunctions(P), NEW g \in DiagramFunctions(P), f.vertex = g.vertex
  PROVE  Combines(P, type, f, g, IF f = g THEN f ELSE Absorbing(type))
<1>1. /\ f \in AnyFunction /\ f.complement \in BOOLEAN /\ f.vertex \in Diagrams(P)
      /\ g \in AnyFunction /\ g.complement \in BOOLEAN
  BY DiagramFunctionFacts
<1>2. CASE f = g
  BY <1>2 DEF Combines, Connects
<1>3. CASE f /= g
  <2>1. f = Negate(TRUE, g)
    <3>1. (TRUE /= g.complement) = f.complement
      BY <1>1, <1>3, SameFunction
    <3>2. f = Function(f.complement, f.vertex)
      BY <1>1, FunctionIs
    <3> QED
      BY <3>1, <3>2 DEF Negate
  <2>2. \A indices : \A true \in SUBSET indices :
          true \in Meaning(f, indices) <=> ~(true \in Meaning(g, indices))
    BY <1>1, <2>1, MeaningOfComplement
  <2>3. (type = "and") \in BOOLEAN
    OBVIOUS
  <2>4. /\ Absorbing(type) \in DiagramFunctions(P) /\ Absorbing(type) \in AnyFunction
        /\ Absorbing(type).vertex = kOne /\ Absorbing(type).complement = (type = "and")
    BY <2>3, OneIsDiagram, FunctionOnDiagram, TerminalIsOne, FunctionFacts DEF Absorbing
  <2>5. \A indices : Meaning(Absorbing(type), indices) = IF type = "and" THEN {} ELSE SUBSET indices
    BY <2>4, TerminalIsOne, MeaningAtTerminal
  <2>6. Rank(Absorbing(type).vertex) = 0
    BY <2>4, TerminalIsOne DEF Rank
  <2> QED
    BY <1>3, <2>2, <2>4, <2>5, <2>6 DEF Combines, Connects
<1> QED
  BY <1>2, <1>3

(* A vertex of the place of the first over combinations of the branches.   *)
LEMMA CombinesMade ==
  ASSUME NEW P, ArePrototypes(P), NEW type,
         NEW f \in DiagramFunctions(P), NEW g \in DiagramFunctions(P), ~f.vertex.terminal,
         NEW gh \in DiagramFunctions(P), NEW gl \in DiagramFunctions(P),
         Rank(gh.vertex) < Rank(f.vertex), Rank(gl.vertex) < Rank(f.vertex),
         \A indices : \A true \in SUBSET indices :
           true \in Meaning(g, indices) <=>
             IF f.vertex.index \in true THEN true \in Meaning(gh, indices) ELSE true \in Meaning(gl, indices),
         NEW high, NEW low,
         Combines(P, type, High(f), gh, high), Combines(P, type, Low(f), gl, low)
  PROVE  /\ Combines(P, type, f, g, Made(f.vertex, high, low))
         /\ Combines(P, type, g, f, Made(f.vertex, high, low))
<1> DEFINE made == Made(f.vertex, high, low)
<1>0. MaxOrder \in Nat /\ f \in AnyFunction
  BY MaxOrderAssumption, DiagramFunctionFacts
<1>1. /\ Attributes(f.vertex) \in P /\ f.vertex.order \in 1..MaxOrder
      /\ Rank(f.vertex) = MaxOrder + 1 - f.vertex.order
      /\ Rank(High(f).vertex) \in 0..MaxOrder /\ Rank(Low(f).vertex) \in 0..MaxOrder
      /\ Rank(High(f).vertex) < Rank(f.vertex) /\ Rank(Low(f).vertex) < Rank(f.vertex)
  BY BranchesOfDiagram
<1>2. Rank(gh.vertex) \in 0..MaxOrder /\ Rank(gl.vertex) \in 0..MaxOrder
  BY DiagramFunctionFacts, RankFalls
<1>3. high \in DiagramFunctions(P) /\ low \in DiagramFunctions(P)
  BY DEF Combines
<1>4. Rank(high.vertex) \in 0..MaxOrder /\ Rank(low.vertex) \in 0..MaxOrder
  BY <1>3, DiagramFunctionFacts, RankFalls
<1>5. Rank(high.vertex) < Rank(f.vertex) /\ Rank(low.vertex) < Rank(f.vertex)
  <2>1. /\ Rank(f.vertex) - 1 \in Nat
        /\ Rank(High(f).vertex) <= Rank(f.vertex) - 1 /\ Rank(Low(f).vertex) <= Rank(f.vertex) - 1
        /\ Rank(gh.vertex) <= Rank(f.vertex) - 1 /\ Rank(gl.vertex) <= Rank(f.vertex) - 1
    BY <1>0, <1>1, <1>2
  <2>2. Rank(high.vertex) <= Rank(f.vertex) - 1 /\ Rank(low.vertex) <= Rank(f.vertex) - 1
    BY <2>1 DEF Combines
  <2> QED
    BY <1>0, <1>1, <1>4, <2>2
<1>6. /\ made \in DiagramFunctions(P) /\ Rank(made.vertex) <= Rank(f.vertex)
      /\ \A indices : \A true \in SUBSET indices :
              true \in Meaning(made, indices) <=>
                IF f.vertex.index \in true THEN true \in Meaning(high, indices)
                ELSE true \in Meaning(low, indices)
  BY <1>1, <1>3, <1>5, MadeIsDiagram
<1> HIDE DEF made
<1>7. ASSUME NEW indices, NEW true \in SUBSET indices
      PROVE  /\ true \in Meaning(made, indices) <=>
                  Connects(type, true \in Meaning(f, indices), true \in Meaning(g, indices))
             /\ true \in Meaning(made, indices) <=>
                  Connects(type, true \in Meaning(g, indices), true \in Meaning(f, indices))
  <2>1. true \in Meaning(f, indices) <=>
           IF f.vertex.index \in true THEN true \in Meaning(High(f), indices)
           ELSE true \in Meaning(Low(f), indices)
    BY <1>0, MeaningAtBranch
  <2>2. /\ true \in Meaning(high, indices) <=>
             Connects(type, true \in Meaning(High(f), indices), true \in Meaning(gh, indices))
        /\ true \in Meaning(low, indices) <=>
             Connects(type, true \in Meaning(Low(f), indices), true \in Meaning(gl, indices))
    BY DEF Combines
  <2> QED
    BY <1>6, <2>1, <2>2 DEF Connects
<1>8. Rank(made.vertex) \in Nat /\ Rank(f.vertex) \in Nat
  BY <1>6, DiagramFunctionFacts, RankFalls
<1>9. \A k \in Nat : Rank(f.vertex) <= k => Rank(made.vertex) <= k
  BY <1>6, <1>8
<1> QED
  BY <1>6, <1>7, <1>9 DEF Combines, made

(* Apply where both functions branch.                                      *)
LEMMA ApplyAtBranches ==
  ASSUME NEW type, NEW one \in AnyFunction, NEW two \in AnyFunction,
         ~one.vertex.terminal, ~two.vertex.terminal, one.vertex /= two.vertex
  PROVE  Apply(type, one, two) =
           IF one.vertex.order = two.vertex.order
           THEN Made(one.vertex, Apply(type, High(one), High(two)), Apply(type, Low(one), Low(two)))
           ELSE IF one.vertex.order < two.vertex.order
           THEN Made(one.vertex, Apply(type, High(one), two), Apply(type, Low(one), two))
           ELSE Made(two.vertex, Apply(type, one, High(two)), Apply(type, one, Low(two)))
BY ApplyDefined

(* bdd.cc:202-307: of two diagrams Apply makes one that means both         *)
(* meanings, for AND, or either, for OR, and that begins no earlier than   *)
(* they do, for every set of prototypes and however the marks lie.         *)
THEOREM ApplyCombines ==
  ASSUME NEW P, ArePrototypes(P), NEW type
  PROVE  \A f, g \in DiagramFunctions(P) : Combines(P, type, f, g, Apply(type, f, g))
<1> DEFINE size(f, g) == Rank(f.vertex) + Rank(g.vertex)
           N == MaxOrder + MaxOrder
           S == {r \in 0..N : \A f, g \in DiagramFunctions(P) :
                                size(f, g) = r => Combines(P, type, f, g, Apply(type, f, g))}
<1>0. MaxOrder \in Nat /\ N \in Nat
  BY MaxOrderAssumption
<1>1. ASSUME NEW f \in DiagramFunctions(P)
      PROVE  Rank(f.vertex) \in 0..MaxOrder /\ f \in AnyFunction /\ f.vertex.terminal \in BOOLEAN
  BY DiagramFunctionFacts, RankFalls, DiagramShape, TerminalIsOne
<1>2. ASSUME NEW r \in 0..N, \A k \in 0..(r - 1) : k \in S
      PROVE  r \in S
  <2>1. ASSUME NEW f \in DiagramFunctions(P), NEW g \in DiagramFunctions(P), size(f, g) = r
        PROVE  Combines(P, type, f, g, Apply(type, f, g))
    <3>0. /\ Rank(f.vertex) \in 0..MaxOrder /\ f \in AnyFunction /\ f.vertex.terminal \in BOOLEAN
          /\ Rank(g.vertex) \in 0..MaxOrder /\ g \in AnyFunction /\ g.vertex.terminal \in BOOLEAN
      BY <1>1
    <3>1. ASSUME NEW a \in DiagramFunctions(P), NEW b \in DiagramFunctions(P),
                 Rank(a.vertex) + Rank(b.vertex) < Rank(f.vertex) + Rank(g.vertex)
          PROVE  Combines(P, type, a, b, Apply(type, a, b))
      <4>1. Rank(a.vertex) \in 0..MaxOrder /\ Rank(b.vertex) \in 0..MaxOrder
        BY <1>1
      <4>2. size(a, b) \in 0..(r - 1)
        BY <1>0, <2>1, <3>0, <3>1, <4>1
      <4>3. size(a, b) \in S
        <5> HIDE DEF S, size
        <5> QED
          BY <1>2, <4>2
      <4> QED
        BY <4>3
    <3>2. CASE f.vertex.terminal
      BY <3>0, <3>2, ApplyDefined, CombinesWithTerminal
    <3>3. CASE ~f.vertex.terminal /\ g.vertex.terminal
      BY <3>0, <3>3, ApplyDefined, CombinesWithTerminal
    <3>4. CASE ~f.vertex.terminal /\ ~g.vertex.terminal /\ f.vertex = g.vertex
      BY <3>0, <3>4, ApplyDefined, CombinesOneVertex
    <3>5. CASE ~f.vertex.terminal /\ ~g.vertex.terminal /\ f.vertex /= g.vertex
      <4>1. /\ High(f) \in DiagramFunctions(P) /\ Low(f) \in DiagramFunctions(P)
            /\ Rank(High(f).vertex) \in 0..MaxOrder /\ Rank(Low(f).vertex) \in 0..MaxOrder
            /\ Rank(High(f).vertex) < Rank(f.vertex) /\ Rank(Low(f).vertex) < Rank(f.vertex)
            /\ f.vertex.order \in 1..MaxOrder /\ Attributes(f.vertex) \in P
            /\ Rank(f.vertex) = MaxOrder + 1 - f.vertex.order
        BY <3>5, BranchesOfDiagram
      <4>2. /\ High(g) \in DiagramFunctions(P) /\ Low(g) \in DiagramFunctions(P)
            /\ Rank(High(g).vertex) \in 0..MaxOrder /\ Rank(Low(g).vertex) \in 0..MaxOrder
            /\ Rank(High(g).vertex) < Rank(g.vertex) /\ Rank(Low(g).vertex) < Rank(g.vertex)
            /\ g.vertex.order \in 1..MaxOrder /\ Attributes(g.vertex) \in P
            /\ Rank(g.vertex) = MaxOrder + 1 - g.vertex.order
        BY <3>5, BranchesOfDiagram
      <4>3. Apply(type, f, g) =
                IF f.vertex.order = g.vertex.order
                THEN Made(f.vertex, Apply(type, High(f), High(g)), Apply(type, Low(f), Low(g)))
                ELSE IF f.vertex.order < g.vertex.order
                THEN Made(f.vertex, Apply(type, High(f), g), Apply(type, Low(f), g))
                ELSE Made(g.vertex, Apply(type, f, High(g)), Apply(type, f, Low(g)))
        BY <3>0, <3>5, ApplyAtBranches
      <4>4. CASE f.vertex.order = g.vertex.order
        <5>1. f.vertex.index = g.vertex.index
          <6>1. /\ Attributes(f.vertex).order = f.vertex.order /\ Attributes(f.vertex).index = f.vertex.index
                /\ Attributes(g.vertex).order = g.vertex.order /\ Attributes(g.vertex).index = g.vertex.index
            BY DEF Attributes
          <6>2. Attributes(f.vertex) = Attributes(g.vertex)
            BY <4>1, <4>2, <4>4, <6>1 DEF ArePrototypes
          <6> QED
            BY <6>1, <6>2
        <5>2. /\ Combines(P, type, High(f), High(g), Apply(type, High(f), High(g)))
              /\ Combines(P, type, Low(f), Low(g), Apply(type, Low(f), Low(g)))
          <6>1. /\ Rank(High(f).vertex) + Rank(High(g).vertex) < Rank(f.vertex) + Rank(g.vertex)
                /\ Rank(Low(f).vertex) + Rank(Low(g).vertex) < Rank(f.vertex) + Rank(g.vertex)
            BY <3>0, <4>1, <4>2
          <6> QED
            BY <3>1, <4>1, <4>2, <6>1
        <5>3. Rank(High(g).vertex) < Rank(f.vertex) /\ Rank(Low(g).vertex) < Rank(f.vertex)
          BY <1>0, <4>1, <4>2, <4>4
        <5>4. \A indices : \A true \in SUBSET indices :
                true \in Meaning(g, indices) <=>
                  IF f.vertex.index \in true THEN true \in Meaning(High(g), indices)
                  ELSE true \in Meaning(Low(g), indices)
          BY <3>0, <3>5, <5>1, MeaningAtBranch
        <5>5. Combines(P, type, f, g,
                       Made(f.vertex, Apply(type, High(f), High(g)), Apply(type, Low(f), Low(g))))
          BY <3>5, <4>2, <5>2, <5>3, <5>4, CombinesMade
        <5> QED
          BY <4>3, <4>4, <5>5
      <4>5. CASE f.vertex.order < g.vertex.order
        <5>1. /\ Combines(P, type, High(f), g, Apply(type, High(f), g))
              /\ Combines(P, type, Low(f), g, Apply(type, Low(f), g))
          <6>1. /\ Rank(High(f).vertex) + Rank(g.vertex) < Rank(f.vertex) + Rank(g.vertex)
                /\ Rank(Low(f).vertex) + Rank(g.vertex) < Rank(f.vertex) + Rank(g.vertex)
            BY <3>0, <4>1
          <6> QED
            BY <3>1, <4>1, <6>1
        <5>2. Rank(g.vertex) < Rank(f.vertex)
          BY <1>0, <4>1, <4>2, <4>5
        <5>3. Combines(P, type, f, g, Made(f.vertex, Apply(type, High(f), g), Apply(type, Low(f), g)))
          BY <3>5, <5>1, <5>2, CombinesMade
        <5>4. Apply(type, f, g) = Made(f.vertex, Apply(type, High(f), g), Apply(type, Low(f), g))
          BY <4>1, <4>2, <4>3, <4>5
        <5> QED
          BY <5>3, <5>4
      <4>6. CASE g.vertex.order < f.vertex.order
        <5>1. /\ Combines(P, type, f, High(g), Apply(type, f, High(g)))
              /\ Combines(P, type, f, Low(g), Apply(type, f, Low(g)))
          <6>1. /\ Rank(f.vertex) + Rank(High(g).vertex) < Rank(f.vertex) + Rank(g.vertex)
                /\ Rank(f.vertex) + Rank(Low(g).vertex) < Rank(f.vertex) + Rank(g.vertex)
            BY <3>0, <4>2
          <6> QED
            BY <3>1, <4>2, <6>1
        <5>2. Rank(f.vertex) < Rank(g.vertex)
          BY <1>0, <4>1, <4>2, <4>6
        <5>3. /\ Combines(P, type, High(g), f, Apply(type, f, High(g)))
              /\ Combines(P, type, Low(g), f, Apply(type, f, Low(g)))
          BY <5>1 DEF Combines, Connects
        <5>4. Combines(P, type, f, g, Made(g.vertex, Apply(type, f, High(g)), Apply(type, f, Low(g))))
          BY <3>5, <5>2, <5>3, CombinesMade
        <5>5. Apply(type, f, g) = Made(g.vertex, Apply(type, f, High(g)), Apply(type, f, Low(g)))
          BY <4>1, <4>2, <4>3, <4>6
        <5> QED
          BY <5>4, <5>5
      <4> QED
        BY <4>1, <4>2, <4>4, <4>5, <4>6
    <3> QED
      BY <3>0, <3>2, <3>3, <3>4, <3>5
  <2> HIDE DEF size
  <2> QED
    BY <2>1
<1>3. \A r \in 0..N : r \in S
  <2> HIDE DEF S, N
  <2> QED
    BY <1>0, <1>2, Climbing
<1>4. ASSUME NEW f \in DiagramFunctions(P), NEW g \in DiagramFunctions(P)
      PROVE  size(f, g) \in 0..N
  BY <1>0, <1>1
<1> QED
  BY <1>3, <1>4

-----------------------------------------------------------------------------
(* A diagram says nothing of a variable that comes before it in the order. *)
LEMMA SaysNothingBefore ==
  ASSUME NEW P, ArePrototypes(P), NEW p \in P, NEW h \in DiagramFunctions(P),
         Rank(h.vertex) < MaxOrder + 1 - p.order,
         NEW indices, NEW t \in SUBSET indices, p.index \in indices
  PROVE  /\ t \cup {p.index} \in Meaning(h, indices) <=> t \in Meaning(h, indices)
         /\ t \ {p.index} \in Meaning(h, indices) <=> t \in Meaning(h, indices)
<1>0. MaxOrder \in Nat /\ p.order \in 1..MaxOrder /\ Rank(h.vertex) \in 0..MaxOrder
  BY MaxOrderAssumption, DiagramFunctionFacts, RankFalls DEF ArePrototypes
<1>1. ASSUME NEW q \in P, q.order >= MaxOrder + 1 - Rank(h.vertex)
      PROVE  q.index /= p.index
  <2>1. q.order \in 1..MaxOrder
    BY DEF ArePrototypes
  <2>2. q.order /= p.order
    BY <1>0, <1>1, <2>1
  <2> QED
    BY <2>2 DEF ArePrototypes
<1>2. /\ Agree(P, MaxOrder + 1 - Rank(h.vertex), t \cup {p.index}, t)
      /\ Agree(P, MaxOrder + 1 - Rank(h.vertex), t \ {p.index}, t)
  BY <1>1 DEF Agree
<1>3. t \cup {p.index} \in SUBSET indices /\ t \ {p.index} \in SUBSET indices
  OBVIOUS
<1> QED
  BY <1>2, <1>3, MeaningLooksBelow

(* What the branches mean is what the function means once its variable is  *)
(* settled.                                                                *)
LEMMA BranchesMean ==
  ASSUME NEW P, ArePrototypes(P), NEW f \in DiagramFunctions(P), ~f.vertex.terminal,
         NEW indices, NEW t \in SUBSET indices, f.vertex.index \in indices
  PROVE  /\ t \cup {f.vertex.index} \in Meaning(f, indices) <=> t \in Meaning(High(f), indices)
         /\ t \ {f.vertex.index} \in Meaning(f, indices) <=> t \in Meaning(Low(f), indices)
<1> DEFINE p == Attributes(f.vertex)
<1>1. /\ High(f) \in DiagramFunctions(P) /\ Low(f) \in DiagramFunctions(P)
      /\ Rank(High(f).vertex) < MaxOrder + 1 - f.vertex.order
      /\ Rank(Low(f).vertex) < MaxOrder + 1 - f.vertex.order
      /\ p \in P
  BY BranchesOfDiagram
<1>2. p.order = f.vertex.order /\ p.index = f.vertex.index
  BY DEF Attributes
<1> HIDE DEF p
<1>3. /\ t \cup {p.index} \in Meaning(High(f), indices) <=> t \in Meaning(High(f), indices)
      /\ t \ {p.index} \in Meaning(Low(f), indices) <=> t \in Meaning(Low(f), indices)
  BY <1>1, <1>2, SaysNothingBefore
<1>4. /\ t \cup {p.index} \in SUBSET indices /\ t \ {p.index} \in SUBSET indices
      /\ p.index \in t \cup {p.index} /\ p.index \notin t \ {p.index}
  BY <1>2
<1>5. f \in AnyFunction
  BY DiagramFunctionFacts
<1> QED
  BY <1>2, <1>3, <1>4, <1>5, MeaningAtBranch

(* Two diagrams of one meaning begin at the same place.                    *)
LEMMA NoRedundantTop ==
  ASSUME NEW P, ArePrototypes(P), NEW f \in DiagramFunctions(P), ~f.vertex.terminal
  PROVE  High(f) /= Low(f)
<1>1. f \in AnyFunction /\ f.complement \in BOOLEAN /\ f.vertex \in Diagrams(P)
  BY DiagramFunctionFacts
<1>2. /\ High(f).vertex = f.vertex.high /\ High(f).complement = f.complement
      /\ Low(f).vertex = f.vertex.low
      /\ Low(f).complement = (f.complement /= f.vertex.complement_edge)
      /\ f.vertex.complement_edge \in BOOLEAN
  BY <1>1, Branching
<1>3. f.vertex.complement_edge \/ f.vertex.high /= f.vertex.low
  BY <1>1, DiagramShape, TerminalIsOne DEF Stands
<1> QED
  BY <1>1, <1>2, <1>3

(* A diagram is determined by its prototype and its branches.              *)
LEMMA SameBranches ==
  ASSUME NEW P, ArePrototypes(P), NEW f \in DiagramFunctions(P), NEW g \in DiagramFunctions(P),
         ~f.vertex.terminal, ~g.vertex.terminal, f.vertex.order = g.vertex.order,
         High(f) = High(g), Low(f) = Low(g)
  PROVE  f = g
<1>1. /\ f \in AnyFunction /\ f.complement \in BOOLEAN /\ f.vertex \in Diagrams(P)
      /\ g \in AnyFunction /\ g.complement \in BOOLEAN /\ g.vertex \in Diagrams(P)
  BY DiagramFunctionFacts
<1>2. /\ High(f).vertex = f.vertex.high /\ High(f).complement = f.complement
      /\ Low(f).vertex = f.vertex.low
      /\ Low(f).complement = (f.complement /= f.vertex.complement_edge)
      /\ f.vertex.complement_edge \in BOOLEAN
      /\ High(g).vertex = g.vertex.high /\ High(g).complement = g.complement
      /\ Low(g).vertex = g.vertex.low
      /\ Low(g).complement = (g.complement /= g.vertex.complement_edge)
      /\ g.vertex.complement_edge \in BOOLEAN
  BY <1>1, Branching
<1>3. /\ f.complement = g.complement /\ f.vertex.high = g.vertex.high /\ f.vertex.low = g.vertex.low
      /\ f.vertex.complement_edge = g.vertex.complement_edge
  BY <1>1, <1>2
<1>4. Attributes(f.vertex) = Attributes(g.vertex)
  <2>1. /\ Attributes(f.vertex).order = f.vertex.order /\ Attributes(g.vertex).order = g.vertex.order
    BY DEF Attributes
  <2>2. Attributes(f.vertex) \in P /\ Attributes(g.vertex) \in P
    BY BranchesOfDiagram
  <2> QED
    BY <2>1, <2>2 DEF ArePrototypes
<1>5. /\ f.vertex.index = g.vertex.index /\ f.vertex.order = g.vertex.order
      /\ f.vertex.module = g.vertex.module /\ f.vertex.coherent = g.vertex.coherent
  <2>1. ASSUME NEW v
        PROVE  /\ Attributes(v).index = v.index /\ Attributes(v).order = v.order
               /\ Attributes(v).module = v.module /\ Attributes(v).coherent = v.coherent
    BY DEF Attributes
  <2> QED
    BY <1>4, <2>1
<1>6. f.vertex \in Over(Levels[MaxOrder - 1]) /\ g.vertex \in Over(Levels[MaxOrder - 1])
  <2>1. f.vertex \in Vertices /\ g.vertex \in Vertices /\ f.vertex /= kOne /\ g.vertex /= kOne
    BY <1>1, DiagramShape, TerminalIsOne
  <2>2. MaxOrder = 0 \/ MaxOrder \in 1..MaxOrder
    BY MaxOrderAssumption
  <2> QED
    BY <2>1, <2>2, LevelsDefined DEF Vertices
<1>7. f.vertex = g.vertex
  <2>1. ASSUME NEW u \in Over(Levels[MaxOrder - 1])
        PROVE  u = [terminal |-> FALSE, index |-> u.index, order |-> u.order, module |-> u.module,
                    coherent |-> u.coherent, high |-> u.high, low |-> u.low,
                    complement_edge |-> u.complement_edge]
    BY DEF Over
  <2>2. g.vertex = [terminal |-> FALSE, index |-> f.vertex.index, order |-> f.vertex.order,
                    module |-> f.vertex.module, coherent |-> f.vertex.coherent,
                    high |-> f.vertex.high, low |-> f.vertex.low,
                    complement_edge |-> f.vertex.complement_edge]
    BY <1>3, <1>5, <1>6, <2>1
  <2>3. f.vertex = [terminal |-> FALSE, index |-> f.vertex.index, order |-> f.vertex.order,
                    module |-> f.vertex.module, coherent |-> f.vertex.coherent,
                    high |-> f.vertex.high, low |-> f.vertex.low,
                    complement_edge |-> f.vertex.complement_edge]
    BY <1>6, <2>1
  <2> QED
    BY <2>2, <2>3
<1> QED
  BY <1>1, <1>3, <1>7, SameFunction

LEMMA SameMeaning ==
  ASSUME NEW indices, NEW f, NEW g,
         \A t \in SUBSET indices : t \in Meaning(f, indices) <=> t \in Meaning(g, indices)
  PROVE  Meaning(f, indices) = Meaning(g, indices)
<1>1. Meaning(f, indices) \subseteq SUBSET indices /\ Meaning(g, indices) \subseteq SUBSET indices
  BY MeaningIsSets
<1> QED
  BY <1>1

(* bdd.cc:91-133, 283-295: complement edges on the low side only, no equal *)
(* branches, and one order: diagrams of one meaning are one diagram.       *)
THEOREM OneDiagramPerMeaning ==
  ASSUME NEW P, ArePrototypes(P), NEW indices, \A p \in P : p.index \in indices
  PROVE  \A f, g \in DiagramFunctions(P) : Meaning(f, indices) = Meaning(g, indices) => f = g
<1> DEFINE Settled(f, g, r) == Rank(f.vertex) <= r /\ Rank(g.vertex) <= r
           S == {r \in 0..MaxOrder : \A f, g \in DiagramFunctions(P) :
                   Settled(f, g, r) /\ Meaning(f, indices) = Meaning(g, indices) => f = g}
<1>0. MaxOrder \in Nat
  BY MaxOrderAssumption
<1>1. ASSUME NEW f \in DiagramFunctions(P)
      PROVE  /\ f \in AnyFunction /\ Rank(f.vertex) \in 0..MaxOrder /\ f.vertex.terminal \in BOOLEAN
             /\ (Rank(f.vertex) = 0 <=> f.vertex.terminal) /\ f.complement \in BOOLEAN
             /\ (f.vertex.terminal => f.vertex = kOne)
  BY DiagramFunctionFacts, RankFalls, DiagramShape, TerminalIsOne
<1>2. 0 \in S
  <2>1. ASSUME NEW f \in DiagramFunctions(P), NEW g \in DiagramFunctions(P),
               Rank(f.vertex) <= 0, Rank(g.vertex) <= 0,
               Meaning(f, indices) = Meaning(g, indices)
        PROVE  f = g
    <3>1. f.vertex.terminal /\ g.vertex.terminal
      BY <1>1, <2>1
    <3>2. /\ Meaning(f, indices) = IF f.complement THEN {} ELSE SUBSET indices
          /\ Meaning(g, indices) = IF g.complement THEN {} ELSE SUBSET indices
      BY <1>1, <3>1, MeaningAtTerminal
    <3>3. {} \in SUBSET indices
      OBVIOUS
    <3>4. f.complement = g.complement
      BY <1>1, <2>1, <3>2, <3>3
    <3> QED
      BY <1>1, <3>1, <3>4, SameFunction
  <2> QED
    BY <1>0, <2>1
<1>3. ASSUME NEW r \in 1..MaxOrder, r - 1 \in S
      PROVE  r \in S
  <2>0. ASSUME NEW f \in DiagramFunctions(P), NEW g \in DiagramFunctions(P),
               Rank(f.vertex) < r, Rank(g.vertex) < r,
               Meaning(f, indices) = Meaning(g, indices)
        PROVE  f = g
    <3>1. Rank(f.vertex) <= r - 1 /\ Rank(g.vertex) <= r - 1
      BY <1>1, <2>0
    <3> QED
      BY <1>3, <2>0, <3>1
  <2>1. ASSUME NEW f \in DiagramFunctions(P), NEW g \in DiagramFunctions(P),
               Rank(f.vertex) = r, Rank(g.vertex) <= r,
               Meaning(f, indices) = Meaning(g, indices)
        PROVE  f = g
    <3> DEFINE p == Attributes(f.vertex)
               x == f.vertex.index
    <3>1. ~f.vertex.terminal
      BY <1>1, <2>1
    <3>2. /\ High(f) \in DiagramFunctions(P) /\ Low(f) \in DiagramFunctions(P)
          /\ Rank(High(f).vertex) < r /\ Rank(Low(f).vertex) < r
          /\ r = MaxOrder + 1 - f.vertex.order /\ f.vertex.order \in 1..MaxOrder /\ p \in P
      BY <2>1, <3>1, BranchesOfDiagram
    <3>3. p.order = f.vertex.order /\ p.index = x
      BY DEF Attributes
    <3>4. x \in indices
      BY <3>2, <3>3
    <3>5. ASSUME NEW t \in SUBSET indices
          PROVE  /\ t \cup {x} \in Meaning(f, indices) <=> t \in Meaning(High(f), indices)
                 /\ t \ {x} \in Meaning(f, indices) <=> t \in Meaning(Low(f), indices)
      BY <3>1, <3>4, BranchesMean
    <3> HIDE DEF p, x
    <3>6. CASE Rank(g.vertex) = r
      <4>1. ~g.vertex.terminal
        BY <1>1, <3>6
      <4>2. /\ High(g) \in DiagramFunctions(P) /\ Low(g) \in DiagramFunctions(P)
            /\ Rank(High(g).vertex) < r /\ Rank(Low(g).vertex) < r
            /\ r = MaxOrder + 1 - g.vertex.order /\ g.vertex.order \in 1..MaxOrder
            /\ Attributes(g.vertex) \in P
        BY <3>6, <4>1, BranchesOfDiagram
      <4>3. f.vertex.order = g.vertex.order
        BY <1>0, <3>2, <4>2
      <4>4. g.vertex.index = x
        <5>1. /\ Attributes(g.vertex).order = g.vertex.order /\ Attributes(g.vertex).index = g.vertex.index
          BY DEF Attributes
        <5>2. p = Attributes(g.vertex)
          BY <3>2, <3>3, <4>2, <4>3, <5>1 DEF ArePrototypes
        <5> QED
          BY <3>3, <5>1, <5>2
      <4>5. ASSUME NEW t \in SUBSET indices
            PROVE  /\ t \cup {x} \in Meaning(g, indices) <=> t \in Meaning(High(g), indices)
                   /\ t \ {x} \in Meaning(g, indices) <=> t \in Meaning(Low(g), indices)
        BY <3>4, <4>1, <4>4, BranchesMean
      <4>6. /\ Meaning(High(f), indices) = Meaning(High(g), indices)
            /\ Meaning(Low(f), indices) = Meaning(Low(g), indices)
        BY <2>1, <3>5, <4>5, SameMeaning
      <4>7. High(f) = High(g) /\ Low(f) = Low(g)
        BY <2>0, <3>2, <4>2, <4>6
      <4> QED
        BY <3>1, <4>1, <4>3, <4>7, SameBranches
    <3>7. CASE Rank(g.vertex) /= r
      <4>1. Rank(g.vertex) < r /\ Rank(g.vertex) < MaxOrder + 1 - p.order
        BY <1>1, <2>1, <3>2, <3>3, <3>7
      <4>2. ASSUME NEW t \in SUBSET indices
            PROVE  /\ t \cup {x} \in Meaning(g, indices) <=> t \in Meaning(g, indices)
                   /\ t \ {x} \in Meaning(g, indices) <=> t \in Meaning(g, indices)
        BY <3>2, <3>3, <3>4, <4>1, SaysNothingBefore
      <4>3. /\ Meaning(High(f), indices) = Meaning(g, indices)
            /\ Meaning(Low(f), indices) = Meaning(g, indices)
        BY <2>1, <3>5, <4>2, SameMeaning
      <4>4. High(f) = g /\ Low(f) = g
        BY <2>0, <3>2, <4>1, <4>3
      <4> QED
        BY <3>1, <4>4, NoRedundantTop
    <3> QED
      BY <3>6, <3>7
  <2>2. ASSUME NEW f \in DiagramFunctions(P), NEW g \in DiagramFunctions(P),
               Rank(f.vertex) <= r, Rank(g.vertex) <= r,
               Meaning(f, indices) = Meaning(g, indices)
        PROVE  f = g
    <3>1. \/ Rank(f.vertex) = r \/ Rank(g.vertex) = r
          \/ Rank(f.vertex) < r /\ Rank(g.vertex) < r
      BY <1>1, <2>2
    <3> QED
      BY <2>0, <2>1, <2>2, <3>1
  <2> QED
    BY <1>0, <2>2
<1>4. \A r \in 0..MaxOrder : r \in S
  <2> HIDE DEF S
  <2> QED
    BY <1>0, <1>2, <1>3, Stepping
<1>5. MaxOrder \in S
  <2> HIDE DEF S
  <2> QED
    BY <1>0, <1>4
<1> QED
  BY <1>0, <1>1, <1>5

-----------------------------------------------------------------------------
(* The consensus of a function and the variable at its top (bdd.cc:309-314)*)
(* is a diagram again, and holds exactly where the function holds whatever *)
(* the value of that variable.                                             *)
THEOREM ConsensusMeans ==
  ASSUME NEW P, ArePrototypes(P), NEW f \in DiagramFunctions(P), ~f.vertex.terminal,
         NEW indices, \A p \in P : p.index \in indices
  PROVE  /\ CalculateConsensus(f) \in DiagramFunctions(P)
         /\ \A t \in SUBSET indices :
              t \in Meaning(CalculateConsensus(f), indices)
                <=> /\ t \cup {f.vertex.index} \in Meaning(f, indices)
                    /\ t \ {f.vertex.index} \in Meaning(f, indices)
<1> DEFINE x == f.vertex.index
           h == Apply("and", High(f), Low(f))
<1>1. High(f) \in DiagramFunctions(P) /\ Low(f) \in DiagramFunctions(P)
  BY BranchesOfDiagram
<1>2. x \in indices
  <2>1. Attributes(f.vertex) \in P /\ Attributes(f.vertex).index = x
    BY BranchesOfDiagram DEF Attributes
  <2> QED
    BY <2>1
<1>3. Combines(P, "and", High(f), Low(f), h)
  BY <1>1, ApplyCombines
<1>4. h \in DiagramFunctions(P)
  BY <1>3 DEF Combines
<1>5. ASSUME NEW t \in SUBSET indices
      PROVE  t \in Meaning(h, indices)
               <=> t \cup {x} \in Meaning(f, indices) /\ t \ {x} \in Meaning(f, indices)
  <2>1. t \in Meaning(h, indices)
          <=> t \in Meaning(High(f), indices) /\ t \in Meaning(Low(f), indices)
    BY <1>3 DEF Combines, Connects
  <2>2. /\ t \cup {x} \in Meaning(f, indices) <=> t \in Meaning(High(f), indices)
        /\ t \ {x} \in Meaning(f, indices) <=> t \in Meaning(Low(f), indices)
    BY <1>2, BranchesMean
  <2> QED
    BY <2>1, <2>2
<1>6. CalculateConsensus(f) = h
  BY DEF CalculateConsensus
<1> QED
  BY <1>4, <1>5, <1>6

-----------------------------------------------------------------------------
(* The assertions of TestStructure on a vertex, given those below.         *)
Tests(v, high, low) ==
  v.terminal \/
    /\ v.complement_edge \/ v.high /= v.low
    /\ v.high.terminal \/ v.order < v.high.order
    /\ v.low.terminal \/ v.order < v.low.order
    /\ high
    /\ low

LEMMA TestedExists ==
  \E tested : tested = [v \in Vertices |-> Tests(v, tested[v.high], tested[v.low])]
<1> DEFINE body(f, v) == Tests(v, f[v.high], f[v.low])
           step == [f \in [Vertices -> BOOLEAN] |-> [v \in Vertices |-> body(f, v)]]
           rank == [v \in Vertices |-> Height(v)]
<1>0. MaxOrder \in Nat
  BY MaxOrderAssumption
<1>1. rank \in [Vertices -> 0..MaxOrder]
  BY HeightFalls
<1>2. step \in [[Vertices -> BOOLEAN] -> [Vertices -> BOOLEAN]]
  <2>1. ASSUME NEW f, NEW v PROVE body(f, v) \in BOOLEAN
    BY DEF Tests
  <2> HIDE DEF body
  <2> QED
    BY <2>1
<1>3. ASSUME NEW f \in [Vertices -> BOOLEAN], NEW g \in [Vertices -> BOOLEAN], NEW v \in Vertices,
             \A u \in Vertices : rank[u] < rank[v] => f[u] = g[u]
      PROVE  step[f][v] = step[g][v]
  <2>1. step[f][v] = body(f, v) /\ step[g][v] = body(g, v)
    <3> HIDE DEF body
    <3> QED
      OBVIOUS
  <2>2. v.terminal \in BOOLEAN
    BY TerminalIsOne
  <2>3. ~v.terminal => f[v.high] = g[v.high] /\ f[v.low] = g[v.low]
    BY <1>3, HeightFalls
  <2>4. body(f, v) = body(g, v)
    <3>1. CASE v.terminal
      BY <3>1 DEF Tests
    <3>2. CASE ~v.terminal
      <4>1. f[v.high] = g[v.high] /\ f[v.low] = g[v.low]
        BY <2>3, <3>2
      <4> QED
        BY <4>1
    <3> QED
      BY <2>2, <3>1, <3>2
  <2> HIDE DEF step, body
  <2> QED
    BY <2>1, <2>4
<1>4. PICK f \in [Vertices -> BOOLEAN] : f = step[f]
  <2>1. \A f, g \in [Vertices -> BOOLEAN] : \A v \in Vertices :
          (\A u \in Vertices : rank[u] < rank[v] => f[u] = g[u]) => step[f][v] = step[g][v]
    BY <1>3
  <2>2. BOOLEAN /= {}
    OBVIOUS
  <2> HIDE DEF step, rank
  <2>3. IsRecursion(Vertices, BOOLEAN, MaxOrder, rank, step)
    BY <1>0, <1>1, <1>2, <2>1, <2>2 DEF IsRecursion
  <2> QED
    BY <2>3, RankedRecursion
<1> HIDE DEF body
<1>5. f = [v \in Vertices |-> body(f, v)]
  BY <1>4
<1> QED
  BY <1>5 DEF body

(* bdd.cc:346: every diagram passes TestStructure.                         *)
LEMMA DiagramsAreStructured ==
  ASSUME NEW P, ArePrototypes(P)
  PROVE  \A v \in Diagrams(P) : Structured(v)
<1> DEFINE Q(tested) == tested = [v \in Vertices |-> Tests(v, tested[v.high], tested[v.low])]
           tested == CHOOSE tested : Q(tested)
           S == {r \in 0..MaxOrder : \A v \in Diagrams(P) : Rank(v) = r => tested[v] = TRUE}
<1>0. MaxOrder \in Nat
  BY MaxOrderAssumption
<1>1. Q(tested)
  <2>1. \E any : Q(any)
    BY TestedExists
  <2> HIDE DEF Q
  <2> QED
    BY <2>1
<1>2. ASSUME NEW v PROVE Structured(v) = tested[v]
  BY Zenon DEF Structured, Tests
<1>3. ASSUME NEW v \in Vertices PROVE tested[v] = Tests(v, tested[v.high], tested[v.low])
  <2> HIDE DEF tested
  <2> QED
    BY <1>1
<1> HIDE DEF tested, Q
<1>4. ASSUME NEW r \in 0..MaxOrder, \A k \in 0..(r - 1) : k \in S
      PROVE  r \in S
  <2>1. ASSUME NEW v \in Diagrams(P), Rank(v) = r
        PROVE  tested[v] = TRUE
    <3>1. v \in Vertices /\ v.terminal \in BOOLEAN /\ (v.terminal \/ Stands(P, v, Diagrams(P)))
      BY DiagramShape, TerminalIsOne
    <3>2. CASE v.terminal
      BY <1>3, <3>1, <3>2 DEF Tests
    <3>3. CASE ~v.terminal
      <4>1. /\ v.high \in Diagrams(P) /\ v.low \in Diagrams(P)
            /\ Rank(v.high) \in 0..MaxOrder /\ Rank(v.low) \in 0..MaxOrder
            /\ Rank(v.high) < r /\ Rank(v.low) < r
        BY <2>1, <3>3, RankFalls
      <4>2. Rank(v.high) \in 0..(r - 1) /\ Rank(v.low) \in 0..(r - 1)
        BY <1>0, <4>1
      <4>3. tested[v.high] = TRUE /\ tested[v.low] = TRUE
        BY <1>4, <4>1, <4>2
      <4> QED
        BY <1>3, <3>1, <3>3, <4>3 DEF Tests, Stands
    <3> QED
      BY <3>1, <3>2, <3>3
  <2> QED
    BY <2>1
<1>5. \A r \in 0..MaxOrder : r \in S
  <2> HIDE DEF S
  <2> QED
    BY <1>0, <1>4, Climbing
<1> QED
  BY <1>2, <1>5, RankFalls

-----------------------------------------------------------------------------
(* The graph at hand, and the prototypes and functions it gives rise to.   *)
Ready == graph \in Graphs /\ order = TopologicalOrder(graph)

Prototypes == {Prototype(n) : n \in Branches}

Functions == DiagramFunctions(Prototypes)

(* What preprocessing has seen to, for the graph at hand.                  *)
LEMMA GraphFacts ==
  ASSUME Ready
  PROVE  /\ Gates(graph) \subseteq Nat \ {0, kConstant} /\ IsFiniteSet(Gates(graph))
         /\ graph.root \in Gates(graph) /\ graph.modules \subseteq Gates(graph)
         /\ graph.complement \in BOOLEAN
         /\ \A h \in Gates(graph) :
              /\ graph.args[h] \subseteq Int \ {0} /\ IsFiniteSet(graph.args[h]) /\ graph.args[h] /= {}
              /\ \A a \in GateArgs(graph, h) : order[Abs(a)] < order[h]
         /\ order \in [Gates(graph) \cup Variables(graph) -> 1..MaxOrder]
         /\ IsTrivial(graph) =>
              /\ Gates(graph) = {graph.root} /\ ~graph.complement
              /\ \E a \in graph.args[graph.root] :
                    graph.args[graph.root] = {a} /\ Abs(a) /= graph.root
         /\ ~IsTrivial(graph) =>
              \A h \in Gates(graph) :
                 /\ graph.type[h] \in {"and", "or"}
                 /\ \A a \in graph.args[h] : Abs(a) /= kConstant /\ -a \notin graph.args[h]
BY GraphsAssumption DEF Ready, Prepared

(* An argument names a node: a gate, a variable or the constant.           *)
LEMMA ArgumentFacts ==
  ASSUME Ready, NEW h \in Gates(graph), NEW a \in graph.args[h]
  PROVE  /\ a \in Int /\ a /= 0 /\ Abs(a) \in Nat /\ Abs(a) /= 0
         /\ a = Abs(a) \/ a = -Abs(a)
         /\ Abs(a) \in Nodes(graph)
         /\ \/ Abs(a) \in Gates(graph) /\ a \in GateArgs(graph, h) /\ a \notin VariableArgs(graph, h)
            \/ Abs(a) \in Variables(graph) /\ a \in VariableArgs(graph, h) /\ a \notin GateArgs(graph, h)
            \/ Abs(a) = kConstant
<1>1. a \in Int /\ a /= 0
  BY GraphFacts
<1>2. Abs(a) \in Nat /\ Abs(a) /= 0 /\ (a = Abs(a) \/ a = -Abs(a))
  BY <1>1 DEF Abs
<1>3. Abs(a) \in Nodes(graph)
  BY DEF Nodes
<1>4. \/ Abs(a) \in Gates(graph) /\ Abs(a) \notin Variables(graph)
      \/ Abs(a) \in Variables(graph) /\ Abs(a) \notin Gates(graph)
      \/ Abs(a) = kConstant
  BY <1>3 DEF Variables
<1> QED
  BY <1>1, <1>2, <1>3, <1>4 DEF GateArgs, VariableArgs

LEMMA VariableFacts ==
  ASSUME Ready, NEW v \in Variables(graph)
  PROVE  v \in Nat /\ v /= 0 /\ v /= kConstant /\ v \notin Gates(graph) /\ v \in Nodes(graph)
<1>1. v \in Nodes(graph) /\ v \notin Gates(graph) /\ v /= kConstant
  BY DEF Variables
<1>2. PICK h \in Gates(graph) : \E a \in graph.args[h] : v = Abs(a)
  BY <1>1 DEF Nodes
<1>3. PICK a \in graph.args[h] : v = Abs(a)
  BY <1>2
<1> QED
  BY <1>1, <1>3, ArgumentFacts

(* The order numbers nodes one by one.                                     *)
LEMMA OrderIsInjective ==
  ASSUME Ready, NEW m \in Gates(graph) \cup Variables(graph),
         NEW n \in Gates(graph) \cup Variables(graph), order[m] = order[n]
  PROVE  m = n
<1> DEFINE list == Numbered(graph)
<1>1. order = [k \in ToSet(list) |-> CHOOSE i \in DOMAIN list : list[i] = k]
  BY DEF Ready, TopologicalOrder
<1>2. m \in ToSet(list) /\ n \in ToSet(list)
  <2>1. DOMAIN order = Gates(graph) \cup Variables(graph) /\ DOMAIN order = ToSet(list)
    BY <1>1, GraphFacts
  <2> QED
    BY <2>1
<1> HIDE DEF list
<1>3. ASSUME NEW k \in ToSet(list) PROVE list[order[k]] = k
  <2>1. \E i \in DOMAIN list : list[i] = k
    BY DEF ToSet
  <2> QED
    BY <1>1, <2>1
<1> QED
  BY <1>2, <1>3

LEMMA PrototypeFacts ==
  ASSUME NEW n
  PROVE  /\ Prototype(n).index = n /\ Prototype(n).order = order[n]
         /\ Attributes(Prototype(n)) = Prototype(n)
BY DEF Prototype, Attributes

LEMMA BranchFacts ==
  ASSUME Ready, NEW n \in Branches
  PROVE  /\ n \in Nat /\ n \in Gates(graph) \cup Variables(graph)
         /\ order[n] \in 1..MaxOrder /\ Prototype(n) \in Prototypes
<1>1. n \in Gates(graph) \cup Variables(graph)
  BY GraphFacts DEF Branches
<1>2. n \in Nat
  BY <1>1, GraphFacts, VariableFacts
<1> QED
  BY <1>1, <1>2, GraphFacts DEF Prototypes

LEMMA PrototypesFit ==
  ASSUME Ready
  PROVE  ArePrototypes(Prototypes) /\ \A p \in Prototypes : p.index \in Branches
<1>1. ASSUME NEW n \in Branches
      PROVE  Prototype(n) \in [index : Nat, order : 1..MaxOrder, module : BOOLEAN, coherent : BOOLEAN]
  <2>1. n \in Nat /\ order[n] \in 1..MaxOrder
    BY BranchFacts
  <2>2. IsModuleGate(n) \in BOOLEAN
    BY DEF IsModuleGate
  <2>3. (n \in Gates(graph) /\ Coherent(graph, n)) \in BOOLEAN
    OBVIOUS
  <2> QED
    BY <2>1, <2>2, <2>3 DEF Prototype
<1>2. ASSUME NEW m \in Branches, NEW n \in Branches,
             Prototype(m).order = Prototype(n).order \/ Prototype(m).index = Prototype(n).index
      PROVE  Prototype(m) = Prototype(n)
  <2>1. order[m] = order[n] \/ m = n
    BY <1>2, PrototypeFacts
  <2>2. m = n
    BY <2>1, BranchFacts, OrderIsInjective
  <2> QED
    BY <2>2
<1> QED
  BY <1>1, <1>2, PrototypeFacts DEF ArePrototypes, Prototypes

(* The function of a variable or of a proxy.                               *)
LEMMA LiteralFacts ==
  ASSUME Ready, NEW n \in Branches, NEW c \in BOOLEAN
  PROVE  /\ Function(c, Literal(Prototype(n))) \in Functions
         /\ \A true \in SUBSET Branches :
              true \in Meaning(Function(c, Literal(Prototype(n))), Branches) <=> (c /= (n \in true))
<1> DEFINE p == Prototype(n)
           v == Literal(p)
           f == Function(c, v)
<1>0. MaxOrder \in Nat /\ ArePrototypes(Prototypes)
  BY MaxOrderAssumption, PrototypesFit
<1>1. /\ p \in Prototypes /\ Attributes(p) = p /\ p.index = n
      /\ p.order \in 1..MaxOrder
  BY BranchFacts, PrototypeFacts
<1> HIDE DEF p
<1>2. kOne \in Diagrams(Prototypes) /\ Rank(kOne) = 0
  BY OneIsDiagram, TerminalIsOne DEF Rank
<1>3. 0 < MaxOrder + 1 - p.order
  BY <1>0, <1>1
<1>4. v \in Diagrams(Prototypes)
  BY <1>0, <1>1, <1>2, <1>3, VertexMade DEF Literal
<1>5. v.terminal = FALSE /\ v.index = n /\ v.high = kOne /\ v.low = kOne /\ v.complement_edge = TRUE
  BY <1>1 DEF Literal, FindOrAddVertex
<1> HIDE DEF v
<1>6. /\ f \in Functions /\ f \in AnyFunction /\ f.vertex = v /\ f.complement = c
  <2>1. v \in Vertices
    BY <1>4, DiagramShape
  <2> QED
    BY <1>4, <2>1, FunctionOnDiagram, FunctionFacts DEF Functions
<1> HIDE DEF f
<1>7. /\ High(f) \in AnyFunction /\ Low(f) \in AnyFunction
      /\ High(f).vertex = kOne /\ Low(f).vertex = kOne
      /\ High(f).complement = c /\ Low(f).complement = ~c
  <2>1. /\ High(f) \in AnyFunction /\ Low(f) \in AnyFunction
        /\ High(f).vertex = f.vertex.high /\ High(f).complement = f.complement
        /\ Low(f).vertex = f.vertex.low
        /\ Low(f).complement = (f.complement /= f.vertex.complement_edge)
    BY <1>5, <1>6, Branching
  <2>2. (c /= TRUE) = ~c
    OBVIOUS
  <2> QED
    BY <1>5, <1>6, <2>1, <2>2
<1>8. /\ Meaning(High(f), Branches) = IF c THEN {} ELSE SUBSET Branches
      /\ Meaning(Low(f), Branches) = IF c THEN SUBSET Branches ELSE {}
  BY <1>7, TerminalIsOne, MeaningAtTerminal
<1>9. ASSUME NEW true \in SUBSET Branches
      PROVE  true \in Meaning(f, Branches) <=> (c /= (n \in true))
  <2>1. true \in Meaning(f, Branches) <=>
           IF n \in true THEN true \in Meaning(High(f), Branches)
           ELSE true \in Meaning(Low(f), Branches)
    BY <1>5, <1>6, MeaningAtBranch
  <2>2. (c /= (n \in true)) <=> ~(c <=> n \in true)
    BY Differs
  <2> QED
    BY <1>8, <2>1, <2>2
<1> QED
  BY <1>6, <1>9 DEF f, v, p

-----------------------------------------------------------------------------
(* The truth of a node, given that of its arguments.                       *)
Happening(true, happens, m) ==
  IF m \notin Gates(graph) THEN m = kConstant \/ m \in true
  ELSE IF graph.type[m] = "and" THEN \A a \in graph.args[m] : (a < 0) /= happens[Abs(a)]
  ELSE \E a \in graph.args[m] : (a < 0) /= happens[Abs(a)]

LEMMA HappeningExists ==
  ASSUME Ready, NEW true
  PROVE  \E happens \in [Nodes(graph) -> BOOLEAN] :
           happens = [m \in Nodes(graph) |-> Happening(true, happens, m)]
<1> DEFINE step == [f \in [Nodes(graph) -> BOOLEAN] |-> [m \in Nodes(graph) |-> Happening(true, f, m)]]
           rank == [m \in Nodes(graph) |-> IF m \in Gates(graph) THEN order[m] ELSE 0]
<1>0. MaxOrder \in Nat
  BY MaxOrderAssumption
<1>1. rank \in [Nodes(graph) -> 0..MaxOrder]
  <2>1. \A m \in Gates(graph) : order[m] \in 0..MaxOrder
    BY GraphFacts
  <2>2. 0 \in 0..MaxOrder
    BY <1>0
  <2> QED
    BY <2>1, <2>2
<1>2. step \in [[Nodes(graph) -> BOOLEAN] -> [Nodes(graph) -> BOOLEAN]]
  <2>1. ASSUME NEW f, NEW m PROVE Happening(true, f, m) \in BOOLEAN
    BY DEF Happening
  <2> QED
    BY <2>1
<1>3. ASSUME NEW f \in [Nodes(graph) -> BOOLEAN], NEW g \in [Nodes(graph) -> BOOLEAN],
             NEW m \in Nodes(graph),
             \A k \in Nodes(graph) : rank[k] < rank[m] => f[k] = g[k]
      PROVE  step[f][m] = step[g][m]
  <2>1. step[f][m] = Happening(true, f, m) /\ step[g][m] = Happening(true, g, m)
    OBVIOUS
  <2>2. ASSUME m \in Gates(graph), NEW a \in graph.args[m]
        PROVE  f[Abs(a)] = g[Abs(a)]
    <3>1. Abs(a) \in Nodes(graph)
      BY <2>2, ArgumentFacts
    <3>2. order[m] \in 1..MaxOrder /\ rank[m] = order[m]
      BY <2>2, GraphFacts
    <3>3. CASE Abs(a) \in Gates(graph)
      <4>1. order[Abs(a)] < order[m]
        BY <2>2, <3>3, GraphFacts DEF GateArgs
      <4> QED
        BY <1>3, <3>1, <3>2, <3>3, <4>1
    <3>4. CASE Abs(a) \notin Gates(graph)
      BY <1>3, <3>1, <3>2, <3>4
    <3> QED
      BY <3>3, <3>4
  <2>3. Happening(true, f, m) = Happening(true, g, m)
    <3>1. CASE m \notin Gates(graph)
      BY <3>1 DEF Happening
    <3>2. CASE m \in Gates(graph)
      BY <2>2, <3>2 DEF Happening
    <3> QED
      BY <3>1, <3>2
  <2> HIDE DEF step
  <2> QED
    BY <2>1, <2>3
<1>4. PICK f \in [Nodes(graph) -> BOOLEAN] : f = step[f]
  <2>1. \A f, g \in [Nodes(graph) -> BOOLEAN] : \A m \in Nodes(graph) :
          (\A k \in Nodes(graph) : rank[k] < rank[m] => f[k] = g[k]) => step[f][m] = step[g][m]
    BY <1>3
  <2>2. BOOLEAN /= {}
    OBVIOUS
  <2> HIDE DEF step, rank
  <2>3. IsRecursion(Nodes(graph), BOOLEAN, MaxOrder, rank, step)
    BY <1>0, <1>1, <1>2, <2>1, <2>2 DEF IsRecursion
  <2> QED
    BY <2>3, RankedRecursion
<1> QED
  BY <1>4

(* An argument holds when its node does not agree with its complement.     *)
ArgumentHolds(a, true) == (a < 0) /= Holds(graph, Abs(a), true)

LEMMA HoldsDefined ==
  ASSUME Ready, NEW true
  PROVE  /\ \A m \in Nodes(graph) : Holds(graph, m, true) \in BOOLEAN
         /\ \A m \in Nodes(graph) \ Gates(graph) :
              Holds(graph, m, true) <=> (m = kConstant \/ m \in true)
         /\ \A m \in Gates(graph) :
              Holds(graph, m, true) <=>
                IF graph.type[m] = "and" THEN \A a \in graph.args[m] : ArgumentHolds(a, true)
                ELSE \E a \in graph.args[m] : ArgumentHolds(a, true)
<1> DEFINE P(happens) == happens = [m \in Nodes(graph) |-> Happening(true, happens, m)]
           happens == CHOOSE happens : P(happens)
<1>1. P(happens)
  <2>1. \E any : P(any)
    BY HappeningExists
  <2> HIDE DEF P
  <2> QED
    BY <2>1
<1>2. \A m : Holds(graph, m, true) = happens[m]
  BY Zenon DEF Holds, Happening
<1>3. \A m \in Nodes(graph) : happens[m] = Happening(true, happens, m)
  <2> HIDE DEF happens
  <2> QED
    BY <1>1
<1> HIDE DEF happens, P
<1>4. Gates(graph) \subseteq Nodes(graph)
  BY DEF Nodes
<1>5. ASSUME NEW m PROVE Happening(true, happens, m) \in BOOLEAN
  BY DEF Happening
<1>6. ASSUME NEW m \in Nodes(graph) \ Gates(graph)
      PROVE  Holds(graph, m, true) <=> (m = kConstant \/ m \in true)
  BY <1>2, <1>3 DEF Happening
<1>7. ASSUME NEW m \in Gates(graph)
      PROVE  Holds(graph, m, true) <=>
                IF graph.type[m] = "and" THEN \A a \in graph.args[m] : ArgumentHolds(a, true)
                ELSE \E a \in graph.args[m] : ArgumentHolds(a, true)
  <2>1. m \in Nodes(graph)
    BY <1>4
  <2>2. Holds(graph, m, true) = Happening(true, happens, m)
    BY <1>2, <1>3, <2>1
  <2>3. \A a \in graph.args[m] : ArgumentHolds(a, true) = ((a < 0) /= happens[Abs(a)])
    BY <1>2 DEF ArgumentHolds
  <2> QED
    BY <2>2, <2>3 DEF Happening
<1>8. \A m \in Nodes(graph) : Holds(graph, m, true) \in BOOLEAN
  BY <1>2, <1>3, <1>5
<1> QED
  BY <1>6, <1>7, <1>8

-----------------------------------------------------------------------------
(* A set of variables with the proxies of the modules that hold with it.   *)
Reading(true) == true \cup {m \in graph.modules \ {graph.root} : Holds(graph, m, true)}

LEMMA ExpandedIs ==
  ASSUME Ready, NEW f
  PROVE  /\ Expanded(f) \subseteq SUBSET Variables(graph)
         /\ \A true \in SUBSET Variables(graph) :
              /\ Reading(true) \in SUBSET Branches
              /\ true \in Expanded(f) <=> Reading(true) \in Meaning(f, Branches)
<1>1. graph.root \notin Variables(graph)
  BY GraphFacts DEF Variables
<1> QED
  BY <1>1 DEF Expanded, Reading, Branches

LEMMA SameExpansion ==
  ASSUME Ready, NEW f, NEW n,
         \A true \in SUBSET Variables(graph) : true \in Expanded(f) <=> Holds(graph, n, true)
  PROVE  Expanded(f) = ModelsOf(graph, n)
<1>1. Expanded(f) \subseteq SUBSET Variables(graph)
  BY ExpandedIs
<1> QED
  BY <1>1 DEF ModelsOf

(* What the operations make of the meanings.                               *)
LEMMA ExpandedOfNegate ==
  ASSUME Ready, NEW c \in BOOLEAN, NEW f \in Functions
  PROVE  /\ Negate(c, f) \in Functions
         /\ \A true \in SUBSET Variables(graph) :
              true \in Expanded(Negate(c, f)) <=> (c /= (true \in Expanded(f)))
<1>1. f \in AnyFunction /\ f.complement \in BOOLEAN /\ f.vertex \in Diagrams(Prototypes)
  BY DiagramFunctionFacts DEF Functions
<1>2. Negate(c, f) \in Functions
  <2>1. (c /= f.complement) \in BOOLEAN
    BY <1>1
  <2> QED
    BY <1>1, <2>1, FunctionOnDiagram DEF Negate, Functions
<1>3. ASSUME NEW true \in SUBSET Variables(graph)
      PROVE  true \in Expanded(Negate(c, f)) <=> (c /= (true \in Expanded(f)))
  <2>1. /\ Reading(true) \in SUBSET Branches
        /\ true \in Expanded(f) <=> Reading(true) \in Meaning(f, Branches)
        /\ true \in Expanded(Negate(c, f)) <=> Reading(true) \in Meaning(Negate(c, f), Branches)
    BY ExpandedIs
  <2>2. Reading(true) \in Meaning(Negate(c, f), Branches) <=> (c /= (Reading(true) \in Meaning(f, Branches)))
    BY <1>1, <2>1, MeaningOfComplement
  <2>3. /\ (c /= (Reading(true) \in Meaning(f, Branches))) <=> ~(c <=> Reading(true) \in Meaning(f, Branches))
        /\ (c /= (true \in Expanded(f))) <=> ~(c <=> true \in Expanded(f))
    BY Differs
  <2> QED
    BY <2>1, <2>2, <2>3
<1> QED
  BY <1>2, <1>3

LEMMA ExpandedOfApply ==
  ASSUME Ready, NEW type, NEW f \in Functions, NEW g \in Functions
  PROVE  /\ Apply(type, f, g) \in Functions
         /\ \A true \in SUBSET Variables(graph) :
              true \in Expanded(Apply(type, f, g)) <=>
                Connects(type, true \in Expanded(f), true \in Expanded(g))
<1>1. Combines(Prototypes, type, f, g, Apply(type, f, g))
  BY PrototypesFit, ApplyCombines DEF Functions
<1>2. ASSUME NEW true \in SUBSET Variables(graph)
      PROVE  true \in Expanded(Apply(type, f, g)) <=>
                Connects(type, true \in Expanded(f), true \in Expanded(g))
  <2>1. /\ Reading(true) \in SUBSET Branches
        /\ true \in Expanded(f) <=> Reading(true) \in Meaning(f, Branches)
        /\ true \in Expanded(g) <=> Reading(true) \in Meaning(g, Branches)
        /\ true \in Expanded(Apply(type, f, g)) <=> Reading(true) \in Meaning(Apply(type, f, g), Branches)
    BY ExpandedIs
  <2> QED
    BY <1>1, <2>1 DEF Combines, Connects
<1> QED
  BY <1>1, <1>2 DEF Combines, Functions

LEMMA ExpandedOfLiteral ==
  ASSUME Ready, NEW n \in Branches, NEW c \in BOOLEAN
  PROVE  /\ Function(c, Literal(Prototype(n))) \in Functions
         /\ \A true \in SUBSET Variables(graph) :
              true \in Expanded(Function(c, Literal(Prototype(n)))) <=> (c /= Holds(graph, n, true))
<1>1. Function(c, Literal(Prototype(n))) \in Functions
  BY LiteralFacts
<1>2. ASSUME NEW true \in SUBSET Variables(graph)
      PROVE  true \in Expanded(Function(c, Literal(Prototype(n)))) <=> (c /= Holds(graph, n, true))
  <2>1. /\ Reading(true) \in SUBSET Branches
        /\ true \in Expanded(Function(c, Literal(Prototype(n)))) <=>
             Reading(true) \in Meaning(Function(c, Literal(Prototype(n))), Branches)
    BY ExpandedIs
  <2>2. Reading(true) \in Meaning(Function(c, Literal(Prototype(n))), Branches) <=> (c /= (n \in Reading(true)))
    BY <2>1, LiteralFacts
  <2>3. (c /= (n \in Reading(true))) <=> ~(c <=> n \in Reading(true))
    BY Differs
  <2>4. n \in Reading(true) <=> Holds(graph, n, true)
    <3>1. CASE n \in Variables(graph)
      <4>1. n \in Nodes(graph) \ Gates(graph) /\ n /= kConstant /\ n \notin graph.modules
        BY <3>1, VariableFacts, GraphFacts
      <4> QED
        BY <4>1, HoldsDefined DEF Reading
    <3>2. CASE n \notin Variables(graph)
      BY <3>2 DEF Reading, Branches
    <3> QED
      BY <3>1, <3>2
  <2>5. Holds(graph, n, true) \in BOOLEAN
    <3>1. n \in Nodes(graph)
      BY BranchFacts, VariableFacts DEF Nodes
    <3> QED
      BY <3>1, HoldsDefined
  <2> QED
    BY <2>1, <2>2, <2>3, <2>4, <2>5
<1> QED
  BY <1>1, <1>2

-----------------------------------------------------------------------------
(* The frames of the walk. The functions at hand mean their arguments, and *)
(* the result what the arguments that have been used come to.              *)
Used(F) == graph.args[F.gate] \ (F.todo \cup DOMAIN F.args)

ComesTo(g, S, true) ==
  IF graph.type[g] = "and" THEN \A b \in S : ArgumentHolds(b, true)
  ELSE \E b \in S : ArgumentHolds(b, true)

FrameRecords ==
  [gate : Gates(graph), todo : SUBSET Int, args : UNION {[D -> Functions] : D \in SUBSET Int},
   result : {<<>>} \cup {<<f>> : f \in Functions}]

FrameOk(F) ==
  /\ order[F.gate] <= order[graph.root]
  /\ F.todo \subseteq GateArgs(graph, F.gate)
  /\ DOMAIN F.args \subseteq graph.args[F.gate]
  /\ F.todo \cap DOMAIN F.args = {}
  /\ F.result = <<>> <=> Used(F) = {}
  /\ \A true \in SUBSET Variables(graph) :
       /\ \A b \in DOMAIN F.args : true \in Expanded(F.args[b]) <=> ArgumentHolds(b, true)
       /\ F.result /= <<>> =>
            (true \in Expanded(F.result[1]) <=> ComesTo(F.gate, Used(F), true))

Frames == {F \in FrameRecords : FrameOk(F)}

(* The memo, the table of the modules and the root.                        *)
Memos ==
  {m \in UNION {[D -> [function : Functions, count : Nat]] : D \in SUBSET Gates(graph)} :
     \A g \in DOMAIN m : Expanded(m[g].function) = ModelsOf(graph, g)}

Tables ==
  {m \in UNION {[D -> Functions] : D \in SUBSET Gates(graph)} :
     \A g \in DOMAIN m : Expanded(m[g]) = ModelsOf(graph, g)}

Roots == {<<>>} \cup {<<f>> : f \in {h \in Functions : Expanded(h) = Models(graph)}}

(* Every gate on the stack is an argument its parent waits for, and the    *)
(* last is the root.                                                       *)
Chained ==
  \A i \in 1..Len(stack) :
    /\ i = Len(stack) => stack[i].gate = graph.root
    /\ i < Len(stack) => \E b \in stack[i + 1].todo : Abs(b) = stack[i].gate

(* The inductive invariant behind Canonical and MeansTheGraph.             *)
Building ==
  /\ Ready
  /\ stack \in Seq(Frames) /\ gates \in Memos /\ modules \in Tables /\ root \in Roots
  /\ stack /= <<>> => ~IsTrivial(graph)
  /\ Chained

LEMMA Unmoved ==
  ASSUME graph' = graph, order' = order
  PROVE  /\ Ready' = Ready /\ Frames' = Frames /\ Memos' = Memos /\ Tables' = Tables
         /\ Roots' = Roots /\ Functions' = Functions /\ Branches' = Branches
BY DEF Ready, Frames, FrameOk, FrameRecords, Used, ComesTo, ArgumentHolds, Memos, Tables, Roots,
       Expanded, Functions, Prototypes, Prototype, IsModuleGate, Branches

-----------------------------------------------------------------------------
(* What an argument adds to its parent means the argument.                 *)
LEMMA ArgumentMeans ==
  ASSUME Ready, NEW h \in Gates(graph), order[h] <= order[graph.root],
         NEW a \in GateArgs(graph, h), NEW res \in Functions,
         Expanded(res) = ModelsOf(graph, Abs(a))
  PROVE  /\ Argument(a, res) \in Functions
         /\ \A true \in SUBSET Variables(graph) :
              true \in Expanded(Argument(a, res)) <=> ArgumentHolds(a, true)
<1>1. a \in graph.args[h] /\ Abs(a) \in Gates(graph) /\ a \in Int /\ (a < 0) \in BOOLEAN
  BY GraphFacts DEF GateArgs
<1>2. CASE IsModuleGate(Abs(a))
  <2>1. Abs(a) /= graph.root
    <3>1. order[Abs(a)] < order[h] /\ order[Abs(a)] \in Nat /\ order[h] \in Nat /\ order[graph.root] \in Nat
      BY <1>1, GraphFacts
    <3> QED
      BY <3>1
  <2>2. Abs(a) \in Branches
    BY <1>2, <2>1 DEF IsModuleGate, Branches
  <2>3. Argument(a, res) = Function(a < 0, Literal(Prototype(Abs(a))))
    BY <1>2 DEF Argument
  <2> QED
    BY <1>1, <2>2, <2>3, ExpandedOfLiteral DEF ArgumentHolds
<1>3. CASE ~IsModuleGate(Abs(a))
  <2>1. Argument(a, res) = Negate(a < 0, res)
    BY <1>3 DEF Argument
  <2>2. ASSUME NEW true \in SUBSET Variables(graph)
        PROVE  true \in Expanded(Argument(a, res)) <=> ArgumentHolds(a, true)
    <3>1. true \in Expanded(Negate(a < 0, res)) <=> ((a < 0) /= (true \in Expanded(res)))
      BY <1>1, ExpandedOfNegate
    <3>2. true \in Expanded(res) <=> Holds(graph, Abs(a), true)
      BY DEF ModelsOf
    <3>3. ((a < 0) /= (true \in Expanded(res))) <=> ~((a < 0) <=> true \in Expanded(res))
      BY <1>1, Differs
    <3>4. Holds(graph, Abs(a), true) \in BOOLEAN
      BY <1>1, ArgumentFacts, HoldsDefined
    <3> QED
      BY <1>1, <2>1, <3>1, <3>2, <3>3, <3>4 DEF ArgumentHolds
  <2>3. Negate(a < 0, res) \in Functions
    BY <1>1, ExpandedOfNegate
  <2> QED
    BY <2>1, <2>2, <2>3
<1> QED
  BY <1>2, <1>3

(* The frame of a gate that is about to be converted.                      *)
LEMMA FrameStarts ==
  ASSUME Ready, ~IsTrivial(graph), NEW g \in Gates(graph), order[g] <= order[graph.root]
  PROVE  /\ Frame(g) \in Frames
         /\ Frame(g).gate = g /\ Frame(g).todo = GateArgs(graph, g)
<1> DEFINE F == Frame(g)
<1>1. ASSUME NEW a \in VariableArgs(graph, g)
      PROVE  /\ Function(a < 0, Literal(Prototype(Abs(a)))) \in Functions
             /\ \A true \in SUBSET Variables(graph) :
                  true \in Expanded(Function(a < 0, Literal(Prototype(Abs(a))))) <=> ArgumentHolds(a, true)
  <2>1. Abs(a) \in Variables(graph) /\ a \in graph.args[g]
    BY DEF VariableArgs
  <2>2. Abs(a) \in Branches
    BY <2>1, GraphFacts, VariableFacts DEF Branches
  <2>3. a \in Int /\ (a < 0) \in BOOLEAN
    BY <2>1, GraphFacts
  <2> QED
    BY <2>2, <2>3, ExpandedOfLiteral DEF ArgumentHolds
<1>2. /\ F.gate = g /\ F.todo = GateArgs(graph, g) /\ F.result = <<>>
      /\ F.args = [a \in VariableArgs(graph, g) |-> Function(a < 0, Literal(Prototype(Abs(a))))]
      /\ F = [gate |-> F.gate, todo |-> F.todo, args |-> F.args, result |-> F.result]
  BY DEF Frame
<1> HIDE DEF F
<1>3. GateArgs(graph, g) \subseteq Int /\ VariableArgs(graph, g) \subseteq Int
  BY GraphFacts DEF GateArgs, VariableArgs
<1>4. F.args \in [VariableArgs(graph, g) -> Functions] /\ DOMAIN F.args = VariableArgs(graph, g)
  BY <1>1, <1>2
<1>5. F \in FrameRecords
  BY <1>2, <1>3, <1>4 DEF FrameRecords
<1>6. Used(F) = {}
  BY <1>2, <1>4, ArgumentFacts, GraphFacts DEF Used
<1>7. F.todo \cap DOMAIN F.args = {}
  BY <1>2, <1>4, VariableFacts DEF GateArgs, VariableArgs
<1>8. GateArgs(graph, g) \subseteq graph.args[g] /\ VariableArgs(graph, g) \subseteq graph.args[g]
  BY DEF GateArgs, VariableArgs
<1>9. \A b \in DOMAIN F.args : F.args[b] = Function(b < 0, Literal(Prototype(Abs(b))))
  BY <1>2, <1>4
<1>10. FrameOk(F)
  BY <1>1, <1>2, <1>4, <1>6, <1>7, <1>8, <1>9 DEF FrameOk
<1> QED
  BY <1>2, <1>5, <1>10 DEF Frames, F

LEMMA FrameFields ==
  ASSUME NEW F \in Frames
  PROVE  /\ F.gate \in Gates(graph) /\ F.todo \subseteq Int
         /\ F.args = [b \in DOMAIN F.args |-> F.args[b]] /\ DOMAIN F.args \subseteq Int
         /\ \A b \in DOMAIN F.args : F.args[b] \in Functions
         /\ F.result = <<>> \/ \E f \in Functions : F.result = <<f>> /\ F.result[1] = f
         /\ FrameOk(F)
         /\ F = [gate |-> F.gate, todo |-> F.todo, args |-> F.args, result |-> F.result]
<1>1. F \in FrameRecords /\ FrameOk(F)
  BY DEF Frames
<1>2. PICK D \in SUBSET Int : F.args \in [D -> Functions]
  BY <1>1 DEF FrameRecords
<1>3. F.gate \in Gates(graph) /\ F.todo \subseteq Int /\ F.result \in {<<>>} \cup {<<f>> : f \in Functions}
  BY <1>1 DEF FrameRecords
<1>4. F.result = <<>> \/ \E f \in Functions : F.result = <<f>> /\ F.result[1] = f
  BY <1>3
<1>5. F = [gate |-> F.gate, todo |-> F.todo, args |-> F.args, result |-> F.result]
  BY <1>1 DEF FrameRecords
<1> QED
  BY <1>1, <1>2, <1>3, <1>4, <1>5

LEMMA FrameChanged ==
  ASSUME NEW g, NEW t, NEW a, NEW r, NEW t2, NEW a2, NEW r2, NEW F,
         F = [gate |-> g, todo |-> t, args |-> a, result |-> r]
  PROVE  /\ [F EXCEPT !.todo = t2, !.args = a2] = [gate |-> g, todo |-> t2, args |-> a2, result |-> r]
         /\ [F EXCEPT !.args = a2, !.result = r2] = [gate |-> g, todo |-> t, args |-> a2, result |-> r2]
<1>1. [F EXCEPT !.todo = t2] = [gate |-> g, todo |-> t2, args |-> a, result |-> r]
  OBVIOUS
<1>2. [[F EXCEPT !.todo = t2] EXCEPT !.args = a2] = [gate |-> g, todo |-> t2, args |-> a2, result |-> r]
  <2> DEFINE G == [F EXCEPT !.todo = t2]
  <2> HIDE DEF G
  <2>1. G = [gate |-> g, todo |-> t2, args |-> a, result |-> r]
    BY <1>1 DEF G
  <2>2. [G EXCEPT !.args = a2] = [gate |-> g, todo |-> t2, args |-> a2, result |-> r]
    BY <2>1
  <2> QED
    BY <2>2 DEF G
<1>3. [F EXCEPT !.args = a2] = [gate |-> g, todo |-> t, args |-> a2, result |-> r]
  OBVIOUS
<1>4. [[F EXCEPT !.args = a2] EXCEPT !.result = r2] = [gate |-> g, todo |-> t, args |-> a2, result |-> r2]
  <2> DEFINE G == [F EXCEPT !.args = a2]
  <2> HIDE DEF G
  <2>1. G = [gate |-> g, todo |-> t, args |-> a2, result |-> r]
    BY <1>3 DEF G
  <2>2. [G EXCEPT !.result = r2] = [gate |-> g, todo |-> t, args |-> a2, result |-> r2]
    BY <2>1
  <2> QED
    BY <2>2 DEF G
<1>5. [F EXCEPT !.todo = t2, !.args = a2] = [[F EXCEPT !.todo = t2] EXCEPT !.args = a2]
  OBVIOUS
<1>6. [F EXCEPT !.args = a2, !.result = r2] = [[F EXCEPT !.args = a2] EXCEPT !.result = r2]
  OBVIOUS
<1> QED
  BY <1>2, <1>4, <1>5, <1>6

(* A frame after the function of an argument's gate has come in.           *)
LEMMA FrameReceives ==
  ASSUME Ready, NEW F \in Frames, NEW a \in F.todo, NEW res \in Functions,
         Expanded(res) = ModelsOf(graph, Abs(a))
  PROVE  /\ Receives(F, a, res) \in Frames
         /\ Receives(F, a, res).gate = F.gate /\ Receives(F, a, res).todo = F.todo \ {a}
<1> DEFINE args == [b \in DOMAIN F.args \cup {a} |-> IF b = a THEN Argument(a, res) ELSE F.args[b]]
           G == Receives(F, a, res)
<1>1. /\ F.gate \in Gates(graph) /\ F.todo \subseteq Int /\ DOMAIN F.args \subseteq Int
      /\ \A b \in DOMAIN F.args : F.args[b] \in Functions
      /\ order[F.gate] <= order[graph.root]
      /\ F.todo \subseteq GateArgs(graph, F.gate)
      /\ DOMAIN F.args \subseteq graph.args[F.gate]
      /\ F.todo \cap DOMAIN F.args = {}
      /\ F.result = <<>> <=> Used(F) = {}
  BY FrameFields DEF FrameOk
<1>2. \A true \in SUBSET Variables(graph) :
       /\ \A b \in DOMAIN F.args : true \in Expanded(F.args[b]) <=> ArgumentHolds(b, true)
       /\ F.result /= <<>> =>
            (true \in Expanded(F.result[1]) <=> ComesTo(F.gate, Used(F), true))
  BY FrameFields DEF FrameOk
<1>3. a \in Int /\ a \in GateArgs(graph, F.gate) /\ a \in graph.args[F.gate] /\ a \notin DOMAIN F.args
  BY <1>1 DEF GateArgs
<1>4. /\ Argument(a, res) \in Functions
      /\ \A true \in SUBSET Variables(graph) :
           true \in Expanded(Argument(a, res)) <=> ArgumentHolds(a, true)
  BY <1>1, <1>3, ArgumentMeans
<1>5. /\ F \in FrameRecords
      /\ F = [gate |-> F.gate, todo |-> F.todo, args |-> F.args, result |-> F.result]
  BY FrameFields DEF Frames
<1>6. /\ G.gate = F.gate /\ G.todo = F.todo \ {a} /\ G.args = args /\ G.result = F.result
      /\ G = [gate |-> F.gate, todo |-> F.todo \ {a}, args |-> args, result |-> F.result]
  <2>1. G = [F EXCEPT !.todo = F.todo \ {a}, !.args = args]
    BY DEF Receives
  <2> HIDE DEF G, args
  <2>2. G = [gate |-> F.gate, todo |-> F.todo \ {a}, args |-> args, result |-> F.result]
    BY <1>5, <2>1, FrameChanged
  <2> QED
    BY <2>2
<1>7. args \in [DOMAIN F.args \cup {a} -> Functions] /\ DOMAIN args = DOMAIN F.args \cup {a}
  BY <1>1, <1>4
<1>8. \A b \in DOMAIN args : args[b] = IF b = a THEN Argument(a, res) ELSE F.args[b]
  OBVIOUS
<1> HIDE DEF G, args
<1>9. G \in FrameRecords
  <2>1. DOMAIN F.args \cup {a} \in SUBSET Int /\ F.todo \ {a} \in SUBSET Int
    BY <1>1, <1>3
  <2>2. args \in UNION {[D -> Functions] : D \in SUBSET Int}
    BY <1>7, <2>1
  <2>3. F.result \in {<<>>} \cup {<<f>> : f \in Functions}
    BY <1>5 DEF FrameRecords
  <2> QED
    BY <1>1, <1>6, <2>1, <2>2, <2>3 DEF FrameRecords
<1>10. Used(G) = Used(F)
  BY <1>6, <1>7, <1>1, <1>3 DEF Used
<1>11. ASSUME NEW true \in SUBSET Variables(graph), NEW b \in DOMAIN G.args
       PROVE  true \in Expanded(G.args[b]) <=> ArgumentHolds(b, true)
  BY <1>2, <1>4, <1>6, <1>7, <1>8
<1>12. FrameOk(G)
  BY <1>1, <1>2, <1>3, <1>6, <1>7, <1>10, <1>11 DEF FrameOk
<1> QED
  BY <1>6, <1>9, <1>12 DEF Frames, G

(* A frame after the next function has been applied to the result.         *)
Total(F, a) ==
  IF F.result = <<>> THEN F.args[a] ELSE Apply(graph.type[F.gate], F.result[1], F.args[a])

Combined(F, a, res) == [F EXCEPT !.args = Taken(F, a), !.result = <<res>>]

LEMMA FrameParts ==
  ASSUME NEW G, NEW g, NEW t, NEW a, NEW r,
         G = [gate |-> g, todo |-> t, args |-> a, result |-> r]
  PROVE  G.gate = g /\ G.todo = t /\ G.args = a /\ G.result = r
OBVIOUS

LEMMA FrameCombines ==
  ASSUME Ready, ~IsTrivial(graph), NEW F \in Frames, F.todo = {}, NEW a \in DOMAIN F.args
  PROVE  /\ Combined(F, a, Total(F, a)) \in Frames
         /\ Combined(F, a, Total(F, a)).gate = F.gate
         /\ Combined(F, a, Total(F, a)).todo = {}
<1> DEFINE args == Taken(F, a)
           res == Total(F, a)
           G == Combined(F, a, res)
           f == F.args[a]
           g == F.gate
<1>1. /\ g \in Gates(graph) /\ DOMAIN F.args \subseteq Int
      /\ \A b \in DOMAIN F.args : F.args[b] \in Functions
      /\ order[g] <= order[graph.root]
      /\ DOMAIN F.args \subseteq graph.args[g]
      /\ F.result = <<>> <=> Used(F) = {}
      /\ F.result /= <<>> => F.result[1] \in Functions
  BY FrameFields DEF FrameOk
<1>2. \A true \in SUBSET Variables(graph) :
       /\ \A b \in DOMAIN F.args : true \in Expanded(F.args[b]) <=> ArgumentHolds(b, true)
       /\ F.result /= <<>> =>
            (true \in Expanded(F.result[1]) <=> ComesTo(g, Used(F), true))
  BY FrameFields DEF FrameOk
<1>3. a \in graph.args[g] /\ a \notin Used(F) /\ f \in Functions
  BY <1>1 DEF Used
<1>4. F = [gate |-> F.gate, todo |-> F.todo, args |-> F.args, result |-> F.result]
  BY FrameFields
<1>5. /\ G.gate = g /\ G.todo = {} /\ G.args = args /\ G.result = <<res>>
      /\ G = [gate |-> g, todo |-> {}, args |-> args, result |-> <<res>>]
  <2>1. G = [F EXCEPT !.args = args, !.result = <<res>>]
    BY DEF Combined
  <2> HIDE DEF G, args, res
  <2>2. G = [gate |-> F.gate, todo |-> F.todo, args |-> args, result |-> <<res>>]
    BY <1>4, <2>1, FrameChanged
  <2> QED
    BY <2>2, FrameParts
<1>6. /\ args \in [DOMAIN F.args \ {a} -> Functions] /\ DOMAIN args = DOMAIN F.args \ {a}
      /\ \A b \in DOMAIN args : args[b] = F.args[b]
  BY <1>1 DEF Taken
<1> HIDE DEF G, args
<1>7. res \in Functions
  BY <1>1, <1>3, ExpandedOfApply DEF Total
<1>13. res = IF F.result = <<>> THEN f ELSE Apply(graph.type[g], F.result[1], f)
  BY DEF Total
<1> HIDE DEF res
<1>8. G \in FrameRecords
  <2>1. DOMAIN F.args \ {a} \in SUBSET Int
    BY <1>1
  <2>2. args \in UNION {[D -> Functions] : D \in SUBSET Int}
    BY <1>6, <2>1
  <2> QED
    BY <1>1, <1>5, <1>7, <2>2 DEF FrameRecords
<1>9. Used(G) = Used(F) \cup {a}
  BY <1>3, <1>5, <1>6 DEF Used
<1>10. G.result /= <<>> /\ G.result[1] = res /\ Used(G) /= {}
  <2>1. <<res>> /= <<>> /\ <<res>>[1] = res
    OBVIOUS
  <2> QED
    BY <1>5, <1>9, <2>1
<1>11. ASSUME NEW true \in SUBSET Variables(graph)
       PROVE  true \in Expanded(res) <=> ComesTo(g, Used(G), true)
  <2>1. true \in Expanded(f) <=> ArgumentHolds(a, true)
    BY <1>2
  <2>2. CASE F.result = <<>>
    <3>1. Used(G) = {a} /\ res = f
      BY <1>1, <1>9, <1>13, <2>2
    <3> QED
      BY <2>1, <3>1 DEF ComesTo
  <2>3. CASE F.result /= <<>>
    <3>1. true \in Expanded(res) <=>
            Connects(graph.type[g], true \in Expanded(F.result[1]), true \in Expanded(f))
      BY <1>1, <1>3, <1>13, <2>3, ExpandedOfApply
    <3>2. true \in Expanded(F.result[1]) <=> ComesTo(g, Used(F), true)
      BY <1>2, <2>3
    <3> QED
      BY <1>9, <2>1, <3>1, <3>2 DEF ComesTo, Connects
  <2> QED
    BY <2>2, <2>3
<1>12. FrameOk(G)
  <2>1. DOMAIN G.args \subseteq graph.args[g]
    BY <1>1, <1>5, <1>6
  <2>2. ASSUME NEW true \in SUBSET Variables(graph), NEW b \in DOMAIN G.args
        PROVE  true \in Expanded(G.args[b]) <=> ArgumentHolds(b, true)
    BY <1>2, <1>5, <1>6
  <2> QED
    BY <1>1, <1>5, <1>10, <1>11, <2>1, <2>2 DEF FrameOk
<1> QED
  BY <1>5, <1>8, <1>12 DEF Frames, args, G, res

(* A frame with nothing left to convert and to combine.                    *)
LEMMA FrameFinishes ==
  ASSUME Ready, NEW F \in Frames, F.todo = {}, DOMAIN F.args = {}
  PROVE  /\ F.result[1] \in Functions
         /\ Expanded(F.result[1]) = ModelsOf(graph, F.gate)
<1>1. F.gate \in Gates(graph) /\ FrameOk(F)
  BY FrameFields
<1>2. Used(F) = graph.args[F.gate] /\ graph.args[F.gate] /= {}
  BY <1>1, GraphFacts DEF Used
<1>3. F.result /= <<>>
  BY <1>1, <1>2 DEF FrameOk
<1>4. F.result[1] \in Functions
  BY <1>3, FrameFields
<1>5. ASSUME NEW true \in SUBSET Variables(graph)
      PROVE  true \in Expanded(F.result[1]) <=> Holds(graph, F.gate, true)
  <2>1. true \in Expanded(F.result[1]) <=> ComesTo(F.gate, Used(F), true)
    BY <1>1, <1>3 DEF FrameOk
  <2> QED
    BY <1>1, <1>2, <2>1, HoldsDefined DEF ComesTo
<1> QED
  BY <1>4, <1>5, SameExpansion

-----------------------------------------------------------------------------
(* The stack after its top is replaced, after a push, and after the first  *)
(* two make place for one.                                                 *)
LEMMA Replaced1 ==
  ASSUME NEW S, NEW s \in Seq(S), s /= <<>>, NEW x \in S
  PROVE  /\ <<x>> \o Tail(s) \in Seq(S) /\ Len(<<x>> \o Tail(s)) = Len(s)
         /\ Len(s) \in Nat /\ Len(s) >= 1 /\ Head(s) = s[1] /\ s[1] \in S
         /\ (<<x>> \o Tail(s))[1] = x
         /\ \A i \in 2..Len(s) : (<<x>> \o Tail(s))[i] = s[i]
OBVIOUS

LEMMA Pushed ==
  ASSUME NEW S, NEW s \in Seq(S), NEW x \in S
  PROVE  /\ <<x>> \o s \in Seq(S) /\ Len(<<x>> \o s) = Len(s) + 1 /\ Len(s) \in Nat
         /\ (<<x>> \o s)[1] = x
         /\ \A i \in 2..(Len(s) + 1) : (<<x>> \o s)[i] = s[i - 1]
OBVIOUS

LEMMA Popped ==
  ASSUME NEW S, NEW s \in Seq(S), Len(s) >= 2, NEW x \in S
  PROVE  /\ <<x>> \o Tail(Tail(s)) \in Seq(S) /\ Len(<<x>> \o Tail(Tail(s))) = Len(s) - 1
         /\ Len(s) \in Nat /\ Head(s) = s[1] /\ s[1] \in S /\ s[2] \in S
         /\ (<<x>> \o Tail(Tail(s)))[1] = x
         /\ \A i \in 2..(Len(s) - 1) : (<<x>> \o Tail(Tail(s)))[i] = s[i + 1]
<1> DEFINE t == Tail(s)
           u == Tail(t)
<1>1. /\ t \in Seq(S) /\ Len(t) = Len(s) - 1 /\ Len(s) \in Nat /\ t /= <<>>
      /\ \A i \in 1..Len(t) : t[i] = s[i + 1]
      /\ Head(s) = s[1] /\ s[1] \in S /\ s[2] \in S
  <2>1. Len(s) \in Nat /\ s /= <<>>
    OBVIOUS
  <2>2. 1 \in 1..Len(s) /\ 2 \in 1..Len(s)
    BY <2>1
  <2>3. s[1] \in S /\ s[2] \in S
    BY <2>2
  <2>4. /\ t \in Seq(S) /\ Len(t) = Len(s) - 1 /\ Head(s) = s[1]
        /\ \A i \in 1..Len(t) : t[i] = s[i + 1]
    BY <2>1
  <2>5. t /= <<>>
    <3> HIDE DEF t
    <3> QED
      BY <2>1, <2>4
  <2> QED
    BY <2>1, <2>3, <2>4, <2>5
<1> HIDE DEF t
<1>2. /\ u \in Seq(S) /\ Len(u) = Len(t) - 1
      /\ \A i \in 1..Len(u) : u[i] = t[i + 1]
  BY <1>1
<1> HIDE DEF u
<1>3. /\ <<x>> \o u \in Seq(S) /\ Len(<<x>> \o u) = Len(u) + 1
      /\ (<<x>> \o u)[1] = x
      /\ \A i \in 2..(Len(u) + 1) : (<<x>> \o u)[i] = u[i - 1]
  BY <1>2, Pushed
<1>4. ASSUME NEW i \in 2..(Len(s) - 1)
      PROVE  (<<x>> \o u)[i] = s[i + 1]
  <2>1. i \in 2..(Len(u) + 1) /\ i - 1 \in 1..Len(u) /\ i - 1 + 1 = i /\ i \in 1..Len(t)
    BY <1>1, <1>2
  <2>2. (<<x>> \o u)[i] = u[i - 1] /\ u[i - 1] = t[i] /\ t[i] = s[i + 1]
    BY <1>1, <1>2, <1>3, <2>1
  <2> QED
    BY <2>2
<1>5. Len(u) + 1 = Len(s) - 1
  BY <1>1, <1>2
<1> QED
  BY <1>1, <1>3, <1>4, <1>5 DEF t, u

(* The memo after it has served a parent.                                  *)
LEMMA MemoServes ==
  ASSUME gates \in Memos, NEW g \in DOMAIN gates
  PROVE  /\ Served(g) \in Memos
         /\ g \in Gates(graph) /\ gates[g].count \in Nat
         /\ gates[g].function \in Functions /\ Expanded(gates[g].function) = ModelsOf(graph, g)
         /\ gates[g].count + 1 = Cardinality(Parents(graph, g)) => DOMAIN Served(g) = DOMAIN gates \ {g}
         /\ gates[g].count + 1 /= Cardinality(Parents(graph, g)) =>
              DOMAIN Served(g) = DOMAIN gates /\ Served(g)[g].count = gates[g].count + 1
         /\ \A h \in DOMAIN Served(g) : h /= g => Served(g)[h] = gates[h]
<1>1. PICK D \in SUBSET Gates(graph) : gates \in [D -> [function : Functions, count : Nat]]
  BY DEF Memos
<1>2. \A h \in DOMAIN gates : Expanded(gates[h].function) = ModelsOf(graph, h)
  BY DEF Memos
<1>3. DOMAIN gates = D /\ \A h \in D : gates[h] \in [function : Functions, count : Nat]
  BY <1>1
<1>4. CASE gates[g].count + 1 = Cardinality(Parents(graph, g))
  <2>1. Served(g) = [h \in D \ {g} |-> gates[h]]
    BY <1>3, <1>4 DEF Served
  <2>2. Served(g) \in [D \ {g} -> [function : Functions, count : Nat]]
    BY <1>3, <2>1
  <2>3. D \ {g} \in SUBSET Gates(graph)
    OBVIOUS
  <2>4. \A h \in D \ {g} : Served(g)[h] = gates[h]
    BY <2>1
  <2>5. DOMAIN Served(g) = D \ {g}
    BY <2>1
  <2>6. Served(g) \in Memos
    BY <1>2, <1>3, <2>2, <2>3, <2>4, <2>5 DEF Memos
  <2> QED
    BY <1>2, <1>3, <1>4, <2>4, <2>5, <2>6
<1>5. CASE gates[g].count + 1 /= Cardinality(Parents(graph, g))
  <2> DEFINE e == [gates[g] EXCEPT !.count = @ + 1]
  <2>1. Served(g) = [gates EXCEPT ![g] = e]
    BY <1>5 DEF Served
  <2>2. /\ e \in [function : Functions, count : Nat]
        /\ e.function = gates[g].function /\ e.count = gates[g].count + 1
    BY <1>3
  <2> HIDE DEF e
  <2>3. Served(g) \in [D -> [function : Functions, count : Nat]]
    BY <1>1, <2>1, <2>2
  <2>4. /\ DOMAIN Served(g) = D /\ Served(g)[g] = e
        /\ \A h \in D : h /= g => Served(g)[h] = gates[h]
    BY <1>1, <1>3, <2>1
  <2>5. \A h \in D : Served(g)[h].function = gates[h].function
    BY <2>2, <2>4
  <2>6. Served(g) \in Memos
    BY <1>2, <1>3, <2>3, <2>4, <2>5 DEF Memos
  <2> QED
    BY <1>2, <1>3, <1>5, <2>2, <2>4, <2>6
<1> QED
  BY <1>4, <1>5

(* An argument comes before its gate, and the gates of the stack come no   *)
(* later than the root.                                                    *)
LEMMA ArgumentComesBefore ==
  ASSUME Ready, NEW F \in Frames, NEW a \in F.todo
  PROVE  /\ F.gate \in Gates(graph) /\ a \in GateArgs(graph, F.gate) /\ Abs(a) \in Gates(graph)
         /\ order[Abs(a)] < order[F.gate] /\ order[Abs(a)] < order[graph.root]
<1>1. /\ F.gate \in Gates(graph) /\ order[F.gate] <= order[graph.root]
      /\ a \in GateArgs(graph, F.gate)
  BY FrameFields DEF FrameOk
<1>2. Abs(a) \in Gates(graph) /\ order[Abs(a)] < order[F.gate]
  BY <1>1, GraphFacts DEF GateArgs
<1>3. order[Abs(a)] \in 1..MaxOrder /\ order[F.gate] \in 1..MaxOrder /\ order[graph.root] \in 1..MaxOrder
  BY <1>1, <1>2, GraphFacts
<1> QED
  BY <1>1, <1>2, <1>3

LEMMA StackFacts ==
  ASSUME Building
  PROVE  /\ Len(stack) \in Nat
         /\ stack /= <<>> => Len(stack) >= 1 /\ Top = stack[1] /\ Top \in Frames
         /\ \A i \in 1..Len(stack) : stack[i] \in Frames
<1>1. stack \in Seq(Frames)
  BY DEF Building
<1> QED
  BY <1>1 DEF Top

-----------------------------------------------------------------------------
LEMMA InitBuilds == Init => Building
<1> SUFFICES ASSUME Init PROVE Building
  OBVIOUS
<1>1. Ready
  BY DEF Init, Ready
<1>2. stack \in Seq(Frames) /\ (stack /= <<>> => ~IsTrivial(graph)) /\ Chained
  <2>1. CASE IsTrivial(graph)
    <3>1. stack = <<>>
      BY <2>1 DEF Init
    <3> QED
      BY <3>1 DEF Chained
  <2>2. CASE ~IsTrivial(graph)
    <3>1. stack = <<Frame(graph.root)>>
      BY <2>2 DEF Init
    <3>2. graph.root \in Gates(graph) /\ order[graph.root] <= order[graph.root]
      <4>1. graph.root \in Gates(graph) /\ order[graph.root] \in 1..MaxOrder
        BY <1>1, GraphFacts
      <4> QED
        BY <4>1
    <3>3. Frame(graph.root) \in Frames /\ Frame(graph.root).gate = graph.root
      BY <1>1, <2>2, <3>2, FrameStarts
    <3>4. stack[1] = Frame(graph.root) /\ Len(stack) = 1
      BY <3>1
    <3>5. Chained
      BY <3>3, <3>4 DEF Chained
    <3> QED
      BY <2>2, <3>1, <3>3, <3>5
  <2> QED
    BY <2>1, <2>2
<1>3. \A T : [g \in {} |-> 0] \in [{} -> T]
  OBVIOUS
<1>4. gates \in Memos
  <2>1. gates \in [{} -> [function : Functions, count : Nat]] /\ DOMAIN gates = {}
    BY <1>3 DEF Init
  <2> QED
    BY <2>1 DEF Memos
<1>5. modules \in Tables
  <2>1. modules \in [{} -> Functions] /\ DOMAIN modules = {}
    BY <1>3 DEF Init
  <2> QED
    BY <2>1 DEF Tables
<1>6. root \in Roots
  BY DEF Init, Roots
<1> QED
  BY <1>1, <1>2, <1>4, <1>5, <1>6 DEF Building

LEMMA RecallBuilds ==
  ASSUME Building, Recall
  PROVE  Building'
<1>1. PICK a \in Top.todo :
        /\ Abs(a) \in DOMAIN gates
        /\ stack' = <<Receives(Top, a, gates[Abs(a)].function)>> \o Tail(stack)
        /\ gates' = Served(Abs(a))
  BY DEF Recall
<1>2. stack /= <<>> /\ UNCHANGED <<graph, order, modules, converted, root>>
  BY DEF Recall
<1>3. Ready /\ stack \in Seq(Frames) /\ gates \in Memos /\ modules \in Tables /\ root \in Roots
      /\ ~IsTrivial(graph) /\ Chained
  BY <1>2 DEF Building
<1>4. Top \in Frames /\ Top = stack[1] /\ Len(stack) \in Nat
  BY <1>2, StackFacts
<1> DEFINE F == Receives(Top, a, gates[Abs(a)].function)
<1>5. F \in Frames /\ F.gate = Top.gate
  <2>1. gates[Abs(a)].function \in Functions /\ Expanded(gates[Abs(a)].function) = ModelsOf(graph, Abs(a))
    BY <1>1, <1>3, MemoServes
  <2> QED
    BY <1>3, <1>4, <2>1, FrameReceives
<1> HIDE DEF F
<1>6. stack' = <<F>> \o Tail(stack)
  BY <1>1 DEF F
<1>7. /\ stack' \in Seq(Frames) /\ Len(stack') = Len(stack) /\ stack'[1] = F
      /\ \A i \in 2..Len(stack) : stack'[i] = stack[i]
  BY <1>2, <1>3, <1>5, <1>6, Replaced1
<1>8. gates' \in Memos
  BY <1>1, <1>3, MemoServes
<1>9. Chained'
  <2>1. \A i \in 1..Len(stack) : stack'[i].gate = stack[i].gate
    BY <1>4, <1>5, <1>7
  <2>2. \A i \in 1..Len(stack) : i < Len(stack) => stack'[i + 1] = stack[i + 1]
    BY <1>4, <1>7
  <2> QED
    BY <1>2, <1>3, <1>7, <2>1, <2>2 DEF Chained
<1> QED
  BY <1>2, <1>3, <1>7, <1>8, <1>9, Unmoved DEF Building

LEMMA DescendBuilds ==
  ASSUME Building, Descend
  PROVE  Building'
<1>1. PICK a \in Top.todo : /\ Abs(a) \notin DOMAIN gates
                            /\ stack' = <<Frame(Abs(a))>> \o stack
  BY DEF Descend
<1>2. stack /= <<>> /\ UNCHANGED <<graph, order, gates, modules, converted, root>>
  BY DEF Descend
<1>3. Ready /\ stack \in Seq(Frames) /\ gates \in Memos /\ modules \in Tables /\ root \in Roots
      /\ ~IsTrivial(graph) /\ Chained
  BY <1>2 DEF Building
<1>4. Top \in Frames /\ Top = stack[1] /\ Len(stack) \in Nat /\ Len(stack) >= 1
  BY <1>2, StackFacts
<1>5. Abs(a) \in Gates(graph) /\ order[Abs(a)] <= order[graph.root]
  <2>1. Abs(a) \in Gates(graph) /\ order[Abs(a)] < order[graph.root]
    BY <1>1, <1>3, <1>4, ArgumentComesBefore
  <2>2. order[Abs(a)] \in 1..MaxOrder /\ order[graph.root] \in 1..MaxOrder
    BY <1>3, <2>1, GraphFacts
  <2> QED
    BY <2>1, <2>2
<1>6. Frame(Abs(a)) \in Frames /\ Frame(Abs(a)).gate = Abs(a)
  BY <1>3, <1>5, FrameStarts
<1>7. /\ stack' \in Seq(Frames) /\ Len(stack') = Len(stack) + 1 /\ stack'[1] = Frame(Abs(a))
      /\ \A i \in 2..(Len(stack) + 1) : stack'[i] = stack[i - 1]
  BY <1>1, <1>3, <1>6, Pushed
<1>8. Chained'
  <2>1. ASSUME NEW i \in 1..Len(stack')
        PROVE  /\ i = Len(stack') => stack'[i].gate = graph.root
               /\ i < Len(stack') => \E b \in stack'[i + 1].todo : Abs(b) = stack'[i].gate
    <3>1. CASE i = 1
      <4>1. stack'[2] = Top /\ 1 /= Len(stack')
        BY <1>4, <1>7
      <4> QED
        BY <1>1, <1>6, <1>7, <3>1, <4>1
    <3>2. CASE i /= 1
      <4>1. i - 1 \in 1..Len(stack) /\ i \in 2..(Len(stack) + 1)
        BY <1>4, <1>7, <3>2
      <4>2. stack'[i] = stack[i - 1]
        BY <1>7, <4>1
      <4>3. i < Len(stack') => /\ i + 1 \in 2..(Len(stack) + 1) /\ i - 1 < Len(stack) /\ i + 1 - 1 = i
                               /\ i - 1 + 1 = i
        BY <1>4, <1>7, <4>1
      <4>4. i < Len(stack') => stack'[i + 1] = stack[i]
        BY <1>7, <4>3
      <4>5. i = Len(stack') => i - 1 = Len(stack)
        BY <1>4, <1>7
      <4>6. /\ i - 1 = Len(stack) => stack[i - 1].gate = graph.root
            /\ i - 1 < Len(stack) => \E b \in stack[i - 1 + 1].todo : Abs(b) = stack[i - 1].gate
        BY <1>3, <4>1 DEF Chained
      <4> QED
        BY <4>2, <4>3, <4>4, <4>5, <4>6
    <3> QED
      BY <3>1, <3>2
  <2> QED
    BY <1>2, <2>1 DEF Chained
<1> QED
  BY <1>2, <1>3, <1>7, <1>8, Unmoved DEF Building

LEMMA CombineBuilds ==
  ASSUME Building, Combine
  PROVE  Building'
<1>1. PICK a \in DOMAIN Top.args :
        LET f == Top.args[a]
            res == IF Top.result = <<>> THEN f
                   ELSE Apply(graph.type[Top.gate], Top.result[1], f)
        IN stack' = <<[Top EXCEPT !.args = Taken(Top, a), !.result = <<res>>]>> \o Tail(stack)
  BY DEF Combine
<1>2. stack /= <<>> /\ Top.todo = {} /\ UNCHANGED <<graph, order, gates, modules, converted, root>>
  BY DEF Combine
<1>3. Ready /\ stack \in Seq(Frames) /\ gates \in Memos /\ modules \in Tables /\ root \in Roots
      /\ ~IsTrivial(graph) /\ Chained
  BY <1>2 DEF Building
<1>4. Top \in Frames /\ Top = stack[1] /\ Len(stack) \in Nat
  BY <1>2, StackFacts
<1> DEFINE F == Combined(Top, a, Total(Top, a))
<1>5. stack' = <<F>> \o Tail(stack)
  BY <1>1 DEF Combined, Total
<1>6. F \in Frames /\ F.gate = Top.gate
  BY <1>2, <1>3, <1>4, FrameCombines
<1> HIDE DEF F
<1>7. /\ stack' \in Seq(Frames) /\ Len(stack') = Len(stack) /\ stack'[1] = F
      /\ \A i \in 2..Len(stack) : stack'[i] = stack[i]
  BY <1>2, <1>3, <1>5, <1>6, Replaced1
<1>8. Chained'
  <2>1. \A i \in 1..Len(stack) : stack'[i].gate = stack[i].gate
    BY <1>4, <1>6, <1>7
  <2>2. \A i \in 1..Len(stack) : i < Len(stack) => stack'[i + 1] = stack[i + 1]
    BY <1>4, <1>7
  <2> QED
    BY <1>2, <1>3, <1>7, <2>1, <2>2 DEF Chained
<1> QED
  BY <1>2, <1>3, <1>7, <1>8, Unmoved DEF Building

(* The memo and the table of the modules when a gate's result comes in.    *)
LEMMA TableTakes ==
  ASSUME modules \in Tables, NEW g \in Gates(graph), NEW res \in Functions,
         Expanded(res) = ModelsOf(graph, g)
  PROVE  [h \in DOMAIN modules \cup {g} |-> IF h = g THEN res ELSE modules[h]] \in Tables
<1> DEFINE m == [h \in DOMAIN modules \cup {g} |-> IF h = g THEN res ELSE modules[h]]
<1>1. PICK D \in SUBSET Gates(graph) : modules \in [D -> Functions]
  BY DEF Tables
<1>2. \A h \in DOMAIN modules : Expanded(modules[h]) = ModelsOf(graph, h)
  BY DEF Tables
<1>3. m \in [D \cup {g} -> Functions] /\ D \cup {g} \in SUBSET Gates(graph)
  BY <1>1
<1>4. DOMAIN m = DOMAIN modules \cup {g}
  OBVIOUS
<1>5. \A h \in DOMAIN m : m[h] = IF h = g THEN res ELSE modules[h]
  OBVIOUS
<1> HIDE DEF m
<1>6. \A h \in DOMAIN m : Expanded(m[h]) = ModelsOf(graph, h)
  BY <1>2, <1>4, <1>5
<1>7. m \in Tables
  BY <1>3, <1>6 DEF Tables
<1> QED
  BY <1>7 DEF m

LEMMA MemoTakes ==
  ASSUME gates \in Memos, NEW g \in Gates(graph), NEW res \in Functions,
         Expanded(res) = ModelsOf(graph, g)
  PROVE  [h \in DOMAIN gates \cup {g} |->
            IF h = g THEN [function |-> res, count |-> 1] ELSE gates[h]] \in Memos
<1> DEFINE e == [function |-> res, count |-> 1]
           m == [h \in DOMAIN gates \cup {g} |-> IF h = g THEN e ELSE gates[h]]
<1>1. PICK D \in SUBSET Gates(graph) : gates \in [D -> [function : Functions, count : Nat]]
  BY DEF Memos
<1>2. \A h \in DOMAIN gates : Expanded(gates[h].function) = ModelsOf(graph, h)
  BY DEF Memos
<1>3. e \in [function : Functions, count : Nat] /\ e.function = res
  OBVIOUS
<1> HIDE DEF e
<1>4. m \in [D \cup {g} -> [function : Functions, count : Nat]] /\ D \cup {g} \in SUBSET Gates(graph)
  BY <1>1, <1>3
<1>5. DOMAIN m = DOMAIN gates \cup {g}
  OBVIOUS
<1>6. \A h \in DOMAIN m : m[h] = IF h = g THEN e ELSE gates[h]
  OBVIOUS
<1> HIDE DEF m
<1>7. \A h \in DOMAIN m : Expanded(m[h].function) = ModelsOf(graph, h)
  BY <1>2, <1>3, <1>5, <1>6
<1>8. m \in Memos
  BY <1>4, <1>7 DEF Memos
<1> QED
  BY <1>8 DEF m, e

(* Who waits for the gate on the top.                                      *)
LEMMA Askers ==
  ASSUME Building, stack /= <<>>
  PROVE  /\ Len(stack) = 1 <=> Top.gate = graph.root
         /\ Len(stack) /= 1 =>
              /\ Len(stack) >= 2 /\ stack[2] \in Frames
              /\ (CHOOSE b \in stack[2].todo : Abs(b) = Top.gate) \in stack[2].todo
              /\ Abs(CHOOSE b \in stack[2].todo : Abs(b) = Top.gate) = Top.gate
<1>1. Ready /\ Chained
  BY DEF Building
<1>0. Len(stack) \in Nat /\ Len(stack) >= 1
  BY StackFacts
<1>2. Top = stack[1] /\ \A i \in 1..Len(stack) : stack[i] \in Frames
  BY StackFacts
<1>3. 1 \in 1..Len(stack)
  BY <1>0
<1>4. Len(stack) = 1 => Top.gate = graph.root
  BY <1>1, <1>2, <1>3 DEF Chained
<1>5. ASSUME Len(stack) /= 1
      PROVE  /\ Len(stack) >= 2 /\ stack[2] \in Frames
             /\ \E b \in stack[2].todo : Abs(b) = Top.gate
  <2>1. 1 < Len(stack) /\ 2 \in 1..Len(stack) /\ 1 + 1 = 2
    <3>1. \A n \in Nat : n >= 1 /\ n /= 1 => 1 < n /\ 2 \in 1..n
      OBVIOUS
    <3>2. 1 < Len(stack) /\ 2 \in 1..Len(stack)
      BY <1>0, <1>5, <3>1
    <3> QED
      BY <3>2
  <2>2. \A i \in 1..Len(stack) : i < Len(stack) => \E b \in stack[i + 1].todo : Abs(b) = stack[i].gate
    BY <1>1 DEF Chained
  <2>3. \E b \in stack[1 + 1].todo : Abs(b) = stack[1].gate
    <3>1. 1 < Len(stack)
      BY <2>1
    <3> QED
      BY <1>3, <2>2, <3>1, Zenon
  <2>4. \E b \in stack[2].todo : Abs(b) = Top.gate
    BY <1>2, <2>1, <2>3
  <2>5. Len(stack) >= 2 /\ stack[2] \in Frames
    BY <1>0, <1>2, <1>5, <2>1
  <2> QED
    BY <2>4, <2>5
<1>6. ASSUME Len(stack) /= 1 PROVE Top.gate /= graph.root
  <2>1. stack[2] \in Frames
    BY <1>5, <1>6
  <2>2. PICK b \in stack[2].todo : Abs(b) = Top.gate
    BY <1>5, <1>6
  <2>3. order[Abs(b)] < order[graph.root] /\ Abs(b) \in Gates(graph)
    BY <1>1, <2>1, ArgumentComesBefore
  <2>4. order[graph.root] \in Nat
    BY <1>1, GraphFacts
  <2> QED
    BY <2>2, <2>3, <2>4
<1> QED
  BY <1>4, <1>5, <1>6

LEMMA FinishBuilds ==
  ASSUME Building, Finish
  PROVE  Building'
<1> DEFINE g == Top.gate
           res == Top.result[1]
           asker == stack[2]
           a == CHOOSE b \in asker.todo : Abs(b) = g
<1>1. /\ stack /= <<>> /\ Top.todo = {} /\ DOMAIN Top.args = {} /\ UNCHANGED <<graph, order>>
      /\ modules' = IF IsModuleGate(g)
                    THEN [h \in DOMAIN modules \cup {g} |-> IF h = g THEN res ELSE modules[h]]
                    ELSE modules
      /\ gates' = IF Cardinality(Parents(graph, g)) > 1
                  THEN [h \in DOMAIN gates \cup {g} |->
                          IF h = g THEN [function |-> res, count |-> 1] ELSE gates[h]]
                  ELSE gates
      /\ IF Len(stack) = 1
         THEN stack' = <<>> /\ root' = <<Negate(graph.complement, res)>>
         ELSE /\ stack' = <<Receives(asker, a, res)>> \o Tail(Tail(stack))
              /\ UNCHANGED root
  BY DEF Finish
<1>2. Ready /\ stack \in Seq(Frames) /\ gates \in Memos /\ modules \in Tables /\ root \in Roots
      /\ ~IsTrivial(graph) /\ Chained
  BY <1>1 DEF Building
<1>3. Top \in Frames /\ Len(stack) \in Nat
  BY <1>1, StackFacts
<1>4. g \in Gates(graph) /\ res \in Functions /\ Expanded(res) = ModelsOf(graph, g)
  BY <1>1, <1>2, <1>3, FrameFields, FrameFinishes
<1>5. modules' \in Tables /\ gates' \in Memos
  <2> HIDE DEF g, res
  <2> QED
    BY <1>1, <1>2, <1>4, TableTakes, MemoTakes
<1>6. CASE Len(stack) = 1
  <2>1. stack' = <<>> /\ root' = <<Negate(graph.complement, res)>> /\ g = graph.root
    BY <1>1, <1>6, Askers
  <2>2. graph.complement \in BOOLEAN
    BY <1>2, GraphFacts
  <2>3. Negate(graph.complement, res) \in Functions
    BY <1>2, <1>4, <2>2, ExpandedOfNegate
  <2>4. Expanded(Negate(graph.complement, res)) = Models(graph)
    <3>1. ASSUME NEW true \in SUBSET Variables(graph)
          PROVE  true \in Expanded(Negate(graph.complement, res)) <=> Truth(graph, true)
      <4>1. true \in Expanded(Negate(graph.complement, res)) <=>
              (graph.complement /= (true \in Expanded(res)))
        BY <1>2, <1>4, <2>2, ExpandedOfNegate
      <4>2. (graph.complement /= (true \in Expanded(res))) <=>
              ~(graph.complement <=> true \in Expanded(res))
        BY <2>2, Differs
      <4>3. true \in Expanded(res) <=> Holds(graph, graph.root, true)
        BY <1>4, <2>1 DEF ModelsOf
      <4>4. Holds(graph, graph.root, true) \in BOOLEAN
        <5>1. graph.root \in Nodes(graph)
          BY <1>2, GraphFacts DEF Nodes
        <5> QED
          BY <1>2, <5>1, HoldsDefined
      <4> HIDE DEF res
      <4> QED
        BY <2>2, <4>1, <4>2, <4>3, <4>4 DEF Truth
    <3>2. Expanded(Negate(graph.complement, res)) \subseteq SUBSET Variables(graph)
      BY <1>2, ExpandedIs
    <3> HIDE DEF res
    <3> QED
      BY <3>1, <3>2 DEF Models
  <2>5. root' \in Roots
    <3> HIDE DEF res
    <3> QED
      BY <2>1, <2>3, <2>4 DEF Roots
  <2>6. stack' \in Seq(Frames) /\ Chained'
    BY <2>1 DEF Chained
  <2> QED
    BY <1>1, <1>2, <1>5, <2>1, <2>5, <2>6, Unmoved DEF Building
<1>7. CASE Len(stack) /= 1
  <2>1. Len(stack) >= 2 /\ asker \in Frames /\ a \in asker.todo /\ Abs(a) = g
    BY <1>1, <1>7, Askers
  <2> DEFINE F == Receives(asker, a, res)
  <2>2. stack' = <<F>> \o Tail(Tail(stack)) /\ root' = root
    BY <1>1, <1>7
  <2>3. F \in Frames /\ F.gate = asker.gate
    <3> HIDE DEF g, res, asker, a
    <3> QED
      BY <1>2, <1>4, <2>1, FrameReceives
  <2> HIDE DEF F
  <2>4. /\ stack' \in Seq(Frames) /\ Len(stack') = Len(stack) - 1 /\ stack'[1] = F
        /\ \A i \in 2..(Len(stack) - 1) : stack'[i] = stack[i + 1]
    BY <1>2, <2>1, <2>2, <2>3, Popped
  <2>5. Chained'
    <3>1. \A i \in 1..(Len(stack) - 1) : stack'[i].gate = stack[i + 1].gate
      <4>1. ASSUME NEW i \in 1..(Len(stack) - 1) PROVE i = 1 \/ i \in 2..(Len(stack) - 1)
        BY <1>3
      <4> QED
        BY <2>3, <2>4, <4>1
    <3>2. ASSUME NEW i \in 1..(Len(stack) - 1)
          PROVE  /\ i = Len(stack') => stack'[i].gate = graph.root
                 /\ i < Len(stack') => \E b \in stack'[i + 1].todo : Abs(b) = stack'[i].gate
      <4>1. i + 1 \in 1..Len(stack)
        BY <1>3
      <4>2. i = Len(stack') => i + 1 = Len(stack)
        BY <1>3, <2>4
      <4>3. i < Len(stack') => i + 1 < Len(stack) /\ i + 1 \in 2..(Len(stack) - 1)
        BY <1>3, <2>4
      <4>4. i < Len(stack') => stack'[i + 1] = stack[i + 1 + 1]
        BY <2>4, <4>3
      <4>5. /\ i + 1 = Len(stack) => stack[i + 1].gate = graph.root
            /\ i + 1 < Len(stack) => \E b \in stack[i + 1 + 1].todo : Abs(b) = stack[i + 1].gate
        BY <1>2, <4>1 DEF Chained
      <4> QED
        BY <3>1, <4>2, <4>3, <4>4, <4>5
    <3> QED
      BY <1>1, <2>4, <3>2 DEF Chained
  <2> QED
    BY <1>1, <1>2, <1>5, <2>2, <2>4, <2>5, Unmoved DEF Building
<1> QED
  BY <1>6, <1>7

LEMMA TrivialBuilds ==
  ASSUME Building, ConvertTrivial
  PROVE  Building'
<1> DEFINE child == CHOOSE a \in graph.args[graph.root] : TRUE
           f == IF Abs(child) = kConstant
                THEN Function(child < 0, kOne)
                ELSE Function(child < 0, Literal(Prototype(Abs(child))))
<1>1. IsTrivial(graph) /\ root' = <<f>> /\ UNCHANGED <<graph, order, stack, gates, modules, converted>>
  BY DEF ConvertTrivial
<1>2. Ready /\ stack = <<>> /\ stack \in Seq(Frames) /\ gates \in Memos /\ modules \in Tables /\ Chained
  BY <1>1 DEF Building
<1>3. /\ graph.root \in Gates(graph) /\ Gates(graph) = {graph.root} /\ ~graph.complement
      /\ graph.complement \in BOOLEAN
      /\ graph.args[graph.root] = {child} /\ Abs(child) /= graph.root
  <2>1. /\ graph.root \in Gates(graph) /\ Gates(graph) = {graph.root} /\ ~graph.complement
        /\ graph.complement \in BOOLEAN
    BY <1>1, <1>2, GraphFacts
  <2>2. PICK a \in graph.args[graph.root] : graph.args[graph.root] = {a} /\ Abs(a) /= graph.root
    BY <1>1, <1>2, GraphFacts
  <2>3. child = a
    BY <2>2
  <2> QED
    BY <2>1, <2>2, <2>3
<1> HIDE DEF child
<1>4. /\ child \in Int /\ Abs(child) \in Nodes(graph) /\ (child < 0) \in BOOLEAN
      /\ Abs(child) = kConstant \/ Abs(child) \in Variables(graph)
      /\ Abs(child) \notin Gates(graph)
  BY <1>2, <1>3, ArgumentFacts
<1>5. /\ f \in Functions
      /\ \A true \in SUBSET Variables(graph) : true \in Expanded(f) <=> ArgumentHolds(child, true)
  <2>1. CASE Abs(child) = kConstant
    <3>1. f = Function(child < 0, kOne)
      BY <2>1
    <3> HIDE DEF f
    <3>2. /\ f \in Functions /\ f \in AnyFunction /\ f.vertex = kOne /\ f.complement = (child < 0)
      BY <1>4, <3>1, OneIsDiagram, FunctionOnDiagram, TerminalIsOne, FunctionFacts DEF Functions
    <3>3. Meaning(f, Branches) = IF child < 0 THEN {} ELSE SUBSET Branches
      BY <3>2, TerminalIsOne, MeaningAtTerminal
    <3>4. ASSUME NEW true \in SUBSET Variables(graph)
          PROVE  true \in Expanded(f) <=> ArgumentHolds(child, true)
      <4>1. /\ Reading(true) \in SUBSET Branches
            /\ true \in Expanded(f) <=> Reading(true) \in Meaning(f, Branches)
        BY <1>2, ExpandedIs
      <4>2. Holds(graph, Abs(child), true) = TRUE
        BY <1>2, <1>4, <2>1, HoldsDefined
      <4> QED
        BY <1>4, <3>3, <4>1, <4>2 DEF ArgumentHolds
    <3> QED
      BY <3>2, <3>4
  <2>2. CASE Abs(child) /= kConstant
    <3>1. f = Function(child < 0, Literal(Prototype(Abs(child)))) /\ Abs(child) \in Variables(graph)
      BY <1>4, <2>2
    <3>2. Abs(child) \in Branches
      BY <1>3, <3>1 DEF Branches
    <3> QED
      BY <1>2, <1>4, <3>1, <3>2, ExpandedOfLiteral DEF ArgumentHolds
  <2> QED
    BY <2>1, <2>2
<1> HIDE DEF f
<1>6. Expanded(f) = Models(graph)
  <2>1. ASSUME NEW true \in SUBSET Variables(graph)
        PROVE  true \in Expanded(f) <=> Truth(graph, true)
    <3>1. graph.type[graph.root] /= "and"
      BY <1>1 DEF IsTrivial
    <3>2. Holds(graph, graph.root, true) <=> ArgumentHolds(child, true)
      BY <1>2, <1>3, <3>1, HoldsDefined
    <3>3. Truth(graph, true) <=> Holds(graph, graph.root, true)
      <4>1. Holds(graph, graph.root, true) \in BOOLEAN
        BY <1>2, <1>3, HoldsDefined DEF Nodes
      <4> QED
        BY <1>3, <4>1 DEF Truth
    <3> QED
      BY <1>5, <3>2, <3>3
  <2>2. Expanded(f) \subseteq SUBSET Variables(graph)
    BY <1>2, ExpandedIs
  <2> QED
    BY <2>1, <2>2 DEF Models
<1>7. root' \in Roots
  BY <1>1, <1>5, <1>6 DEF Roots
<1>8. stack' \in Seq(Frames) /\ Chained' /\ stack' = <<>>
  BY <1>1, <1>2 DEF Chained
<1> QED
  BY <1>1, <1>2, <1>7, <1>8, Unmoved DEF Building

LEMMA NextBuilds ==
  ASSUME Building, [Next]_vars
  PROVE  Building'
<1>1. CASE UNCHANGED vars
  <2>1. UNCHANGED <<graph, order, stack, gates, modules, root>>
    BY <1>1 DEF vars
  <2>2. Chained' = Chained
    BY <2>1 DEF Chained
  <2> QED
    BY <2>1, <2>2, Unmoved DEF Building
<1> QED
  BY <1>1, RecallBuilds, DescendBuilds, CombineBuilds, FinishBuilds, TrivialBuilds
  DEF Next, Constructed

LEMMA AlwaysBuilding == Spec => []Building
<1>1. Building /\ [Next]_vars => Building'
  BY NextBuilds
<1> QED
  BY InitBuilds, <1>1, PTL DEF Spec

(* bdd.cc:179-184: whatever order the arguments are taken in, the memo and *)
(* the table of the modules hold the functions of their gates, and the root*)
(* is the function of the graph.                                           *)
THEOREM SpecMeansTheGraph == Spec => []MeansTheGraph
<1>1. Building => MeansTheGraph
  <2> SUFFICES ASSUME Building PROVE MeansTheGraph
    OBVIOUS
  <2>1. gates \in Memos /\ modules \in Tables /\ root \in Roots
    BY DEF Building
  <2>2. root /= <<>> => Expanded(root[1]) = Models(graph)
    <3>1. root = <<>> \/ \E f : root = <<f>> /\ Expanded(f) = Models(graph)
      BY <2>1 DEF Roots
    <3> QED
      BY <3>1
  <2> QED
    BY <2>1, <2>2 DEF MeansTheGraph, Memos, Tables
<1> QED
  BY AlwaysBuilding, <1>1, PTL

-----------------------------------------------------------------------------
(* The image of a finite set under a function is finite.                   *)
LEMMA FiniteImage ==
  ASSUME NEW S, IsFiniteSet(S), NEW f
  PROVE  IsFiniteSet({f[x] : x \in S})
<1> DEFINE T == {f[x] : x \in S}
           m == [x \in S |-> f[x]]
<1>1. m \in Surjection(S, T)
  BY DEF Surjection
<1> HIDE DEF m, T
<1>3. IsFiniteSet(T)
  BY <1>1, FS_Surjection
<1> QED
  BY <1>3 DEF T

(* Functions that tell meanings apart are as many as their meanings.       *)
LEMMA AsManyMeanings ==
  ASSUME NEW S, IsFiniteSet(S), NEW indices,
         \A f, g \in S : Meaning(f, indices) = Meaning(g, indices) => f = g
  PROVE  Cardinality({Meaning(f, indices) : f \in S}) = Cardinality(S)
<1> DEFINE T == {Meaning(f, indices) : f \in S}
           m == [f \in S |-> Meaning(f, indices)]
<1>1. m \in [S -> T] /\ \A f \in S : m[f] = Meaning(f, indices)
  OBVIOUS
<1>2. \A t \in T : \E f \in S : m[f] = t
  OBVIOUS
<1>3. DOMAIN m = S
  OBVIOUS
<1> HIDE DEF m, T
<1>4. IsInjective(m)
  BY <1>1, <1>3 DEF IsInjective
<1>5. m \in Bijection(S, T)
  BY <1>1, <1>2, <1>4 DEF Bijection, Injection, Surjection
<1>6. ExistsBijection(S, T)
  BY <1>5 DEF ExistsBijection
<1> QED
  BY <1>6, FS_Bijection DEF T

(* The functions a frame holds.                                            *)
Held(F) == {F.args[a] : a \in DOMAIN F.args} \cup ToSet(F.result)

LEMMA HeldFinite ==
  ASSUME Ready, NEW F \in Frames
  PROVE  Held(F) \subseteq Functions /\ IsFiniteSet(Held(F))
<1>1. /\ F.gate \in Gates(graph) /\ DOMAIN F.args \subseteq graph.args[F.gate]
      /\ \A b \in DOMAIN F.args : F.args[b] \in Functions
      /\ F.result = <<>> \/ \E f \in Functions : F.result = <<f>>
  BY FrameFields DEF FrameOk
<1>2. IsFiniteSet(DOMAIN F.args)
  BY <1>1, GraphFacts, FS_Subset
<1>3. IsFiniteSet({F.args[a] : a \in DOMAIN F.args})
  BY <1>2, FiniteImage
<1>4. IsFiniteSet(ToSet(F.result)) /\ ToSet(F.result) \subseteq Functions
  <2>1. CASE F.result = <<>>
    <3>1. ToSet(F.result) = {}
      BY <2>1 DEF ToSet
    <3> QED
      BY <3>1, FS_EmptySet
  <2>2. CASE \E f \in Functions : F.result = <<f>>
    <3>1. PICK f \in Functions : F.result = <<f>>
      BY <2>2
    <3>2. ToSet(F.result) = {f}
      BY <3>1 DEF ToSet
    <3> QED
      BY <3>2, FS_Singleton
  <2> QED
    BY <1>1, <2>1, <2>2
<1> QED
  BY <1>1, <1>3, <1>4, FS_Union DEF Held

LEMMA AroundIsFinite ==
  ASSUME Building
  PROVE  Around \subseteq Functions /\ IsFiniteSet(Around)
<1> DEFINE held == UNION {Held(stack[i]) : i \in 1..Len(stack)}
           remembered == {gates[g].function : g \in DOMAIN gates}
           kept == {modules[g] : g \in DOMAIN modules}
<1>1. Ready /\ gates \in Memos /\ modules \in Tables /\ root \in Roots /\ stack \in Seq(Frames)
  BY DEF Building
<1>2. held \subseteq Functions /\ IsFiniteSet(held)
  <2>1. \A i \in 1..Len(stack) : Held(stack[i]) \subseteq Functions /\ IsFiniteSet(Held(stack[i]))
    BY <1>1, StackFacts, HeldFinite
  <2>2. IsFiniteSet(1..Len(stack))
    BY StackFacts, FS_Interval
  <2> DEFINE m == [i \in 1..Len(stack) |-> Held(stack[i])]
             H == {m[i] : i \in 1..Len(stack)}
  <2>3. H = {Held(stack[i]) : i \in 1..Len(stack)}
    OBVIOUS
  <2>4. IsFiniteSet(H)
    <3> HIDE DEF m
    <3> QED
      BY <2>2, FiniteImage
  <2>5. \A T \in H : IsFiniteSet(T)
    BY <2>1, <2>3
  <2> HIDE DEF H
  <2>6. IsFiniteSet(UNION H)
    BY <2>4, <2>5, FS_UNION
  <2> QED
    BY <2>1, <2>3, <2>6
<1>3. remembered \subseteq Functions /\ IsFiniteSet(remembered)
  <2>1. PICK D \in SUBSET Gates(graph) : gates \in [D -> [function : Functions, count : Nat]]
    BY <1>1 DEF Memos
  <2>2. DOMAIN gates = D /\ IsFiniteSet(D)
    BY <1>1, <2>1, GraphFacts, FS_Subset
  <2> DEFINE m == [g \in DOMAIN gates |-> gates[g].function]
  <2>3. remembered = {m[g] : g \in DOMAIN gates}
    OBVIOUS
  <2>4. IsFiniteSet({m[g] : g \in DOMAIN gates})
    <3> HIDE DEF m
    <3> QED
      BY <2>2, FiniteImage
  <2> QED
    BY <2>1, <2>2, <2>3, <2>4
<1>4. kept \subseteq Functions /\ IsFiniteSet(kept)
  <2>1. PICK D \in SUBSET Gates(graph) : modules \in [D -> Functions]
    BY <1>1 DEF Tables
  <2>2. DOMAIN modules = D /\ IsFiniteSet(D)
    BY <1>1, <2>1, GraphFacts, FS_Subset
  <2> QED
    BY <2>1, <2>2, FiniteImage
<1>5. ToSet(root) \subseteq Functions /\ IsFiniteSet(ToSet(root))
  <2>1. CASE root = <<>>
    <3>1. ToSet(root) = {}
      BY <2>1 DEF ToSet
    <3> QED
      BY <3>1, FS_EmptySet
  <2>2. CASE \E f \in Functions : root = <<f>>
    <3>1. PICK f \in Functions : root = <<f>>
      BY <2>2
    <3>2. ToSet(root) = {f}
      BY <3>1 DEF ToSet
    <3> QED
      BY <3>2, FS_Singleton
  <2> QED
    BY <1>1, <2>1, <2>2 DEF Roots
<1>6. Around = held \cup remembered \cup kept \cup ToSet(root)
  <2>1. DOMAIN stack = 1..Len(stack)
    BY <1>1
  <2>2. Around = (UNION {Held(stack[i]) : i \in DOMAIN stack}) \cup remembered \cup kept \cup ToSet(root)
    BY DEF Around, Held
  <2> QED
    BY <2>1, <2>2
<1> HIDE DEF held, remembered, kept
<1> QED
  BY <1>2, <1>3, <1>4, <1>5, <1>6, FS_Union

(* bdd.cc:99, 346: complement edges, the reduction and the order of the    *)
(* variables keep every diagram ordered and reduced, and no two functions  *)
(* at hand mean the same.                                                  *)
THEOREM SpecCanonical == Spec => []Canonical
<1>1. Building => Canonical
  <2> SUFFICES ASSUME Building PROVE Canonical
    OBVIOUS
  <2>1. Ready
    BY DEF Building
  <2>2. ArePrototypes(Prototypes) /\ \A p \in Prototypes : p.index \in Branches
    BY <2>1, PrototypesFit
  <2>3. Around \subseteq Functions /\ IsFiniteSet(Around)
    BY AroundIsFinite
  <2>4. \A f \in Around : Structured(f.vertex)
    BY <2>2, <2>3, DiagramFunctionFacts, DiagramsAreStructured DEF Functions
  <2>5. \A f, g \in Around : Meaning(f, Branches) = Meaning(g, Branches) => f = g
    BY <2>2, <2>3, OneDiagramPerMeaning DEF Functions
  <2> QED
    BY <2>3, <2>4, <2>5, AsManyMeanings DEF Canonical
<1> QED
  BY AlwaysBuilding, <1>1, PTL

-----------------------------------------------------------------------------
(* The memo. What the parents of a gate have taken, and the invariant that *)
(* ties it to the memo and to the gates whose conversion has finished.     *)
TakenBy(g) == {p \in Parents(graph, g) : HasTaken(p, g)}

Serves(g) ==
  /\ g \in converted <=> TakenBy(g) /= {}
  /\ g \in DOMAIN gates <=> (TakenBy(g) /= {} /\ TakenBy(g) /= Parents(graph, g))
  /\ g \in DOMAIN gates => gates[g].count = Cardinality(TakenBy(g))

Serving ==
  /\ \A i, j \in 1..Len(stack) : i < j => order[stack[i].gate] < order[stack[j].gate]
  /\ \A i \in 1..Len(stack) : stack[i].gate \notin converted
  /\ \A g \in Gates(graph) \ {graph.root} : Serves(g)

LEMMA ServesKept ==
  ASSUME NEW g, graph' = graph, TakenBy(g)' = TakenBy(g),
         g \in converted' <=> g \in converted,
         g \in DOMAIN gates' <=> g \in DOMAIN gates,
         g \in DOMAIN gates => gates'[g].count = gates[g].count,
         Serves(g)
  PROVE  Serves(g)'
BY DEF Serves

LEMMA TakenByKept ==
  ASSUME NEW g, graph' = graph, \A p \in Parents(graph, g) : HasTaken(p, g)' <=> HasTaken(p, g)
  PROVE  TakenBy(g)' = TakenBy(g)
BY DEF TakenBy

LEMMA TakenByGrows ==
  ASSUME NEW g, NEW q \in Parents(graph, g), graph' = graph,
         \A p \in Parents(graph, g) : HasTaken(p, g)' <=> (HasTaken(p, g) \/ p = q)
  PROVE  TakenBy(g)' = TakenBy(g) \cup {q}
BY DEF TakenBy

(* A gate that is an argument has one mark there, and the gate that has it *)
(* is a parent.                                                            *)
LEMMA ParentFacts ==
  ASSUME Ready, NEW g \in Gates(graph)
  PROVE  /\ Parents(graph, g) \subseteq Gates(graph) /\ IsFiniteSet(Parents(graph, g))
         /\ \A p \in Parents(graph, g) : {g, -g} \cap GateArgs(graph, p) /= {}
<1>1. Parents(graph, g) \subseteq Gates(graph) /\ IsFiniteSet(Parents(graph, g))
  BY GraphFacts, FS_Subset DEF Parents
<1>2. g \in Nat /\ g /= 0
  BY GraphFacts
<1>3. Abs(g) = g /\ Abs(-g) = g
  BY <1>2 DEF Abs
<1> QED
  BY <1>1, <1>3 DEF Parents, GateArgs

LEMMA ArgumentOfParent ==
  ASSUME Ready, ~IsTrivial(graph), NEW h \in Gates(graph), NEW a \in GateArgs(graph, h)
  PROVE  /\ Abs(a) \in Gates(graph) /\ h \in Parents(graph, Abs(a))
         /\ a \in {Abs(a), -Abs(a)}
         /\ {Abs(a), -Abs(a)} \cap graph.args[h] = {a}
         /\ \A g \in Gates(graph) : g /= Abs(a) => a \notin {g, -g}
<1>1. a \in graph.args[h] /\ Abs(a) \in Gates(graph)
  BY DEF GateArgs
<1>2. a \in Int /\ -a \notin graph.args[h] /\ (a = Abs(a) \/ a = -Abs(a)) /\ Abs(a) \in Nat /\ Abs(a) /= 0
  BY <1>1, ArgumentFacts, GraphFacts
<1>3. h \in Parents(graph, Abs(a))
  BY <1>1, <1>2 DEF Parents
<1>4. {Abs(a), -Abs(a)} \cap graph.args[h] = {a}
  <2>1. CASE a = Abs(a)
    BY <1>1, <1>2, <2>1
  <2>2. CASE a = -Abs(a)
    <3>1. Abs(a) = -a
      BY <1>2, <2>2
    <3> QED
      BY <1>1, <1>2, <2>2, <3>1
  <2> QED
    BY <1>2, <2>1, <2>2
<1>5. ASSUME NEW g \in Gates(graph), g /= Abs(a) PROVE a \notin {g, -g}
  <2>1. g \in Nat /\ g /= 0
    BY GraphFacts
  <2> QED
    BY <1>2, <1>5, <2>1
<1> QED
  BY <1>1, <1>2, <1>3, <1>4, <1>5

(* The gate on the top has not taken what it still waits for.              *)
LEMMA WaitsHasNotTaken ==
  ASSUME Building, Serving, NEW i \in 1..Len(stack), NEW a \in stack[i].todo
  PROVE  ~HasTaken(stack[i].gate, Abs(a))
<1>1. Ready /\ stack \in Seq(Frames) /\ ~IsTrivial(graph)
  BY DEF Building
<1>2. \A j \in 1..Len(stack) : stack[j] \in Frames
  BY StackFacts
<1>3. a \in GateArgs(graph, stack[i].gate) /\ stack[i].gate \in Gates(graph)
  BY <1>1, <1>2, ArgumentComesBefore
<1>4. a \in {Abs(a), -Abs(a)}
  BY <1>1, <1>3, ArgumentOfParent
<1>5. ASSUME NEW j \in 1..Len(stack), stack[j].gate = stack[i].gate
      PROVE  j = i
  <2>1. order[stack[i].gate] \in Nat /\ Len(stack) \in Nat
    BY <1>1, <1>3, GraphFacts, StackFacts
  <2>2. i < j \/ j < i \/ i = j
    BY <2>1
  <2> QED
    BY <1>5, <2>1, <2>2 DEF Serving
<1>6. DOMAIN stack = 1..Len(stack)
  BY <1>1
<1> QED
  BY <1>4, <1>5, <1>6 DEF HasTaken, Serving

LEMMA InitServes == Init => Serving
<1> SUFFICES ASSUME Init PROVE Serving
  OBVIOUS
<1>1. Building /\ Ready
  BY InitBuilds DEF Building
<1>2. Len(stack) = 0 \/ Len(stack) = 1
  BY DEF Init
<1>3. converted = {} /\ DOMAIN gates = {}
  BY DEF Init
<1>4. ASSUME NEW g \in Gates(graph) PROVE TakenBy(g) = {}
  <2>1. ASSUME NEW p \in Parents(graph, g) PROVE ~HasTaken(p, g)
    <3>1. CASE IsTrivial(graph)
      <4>1. stack = <<>>
        BY <3>1 DEF Init
      <4> QED
        BY <1>3, <4>1 DEF HasTaken
    <3>2. CASE ~IsTrivial(graph)
      <4>1. stack = <<Frame(graph.root)>>
        BY <3>2 DEF Init
      <4>2. /\ graph.root \in Gates(graph)
            /\ order[graph.root] <= order[graph.root]
        <5>1. graph.root \in Gates(graph) /\ order[graph.root] \in 1..MaxOrder
          BY <1>1, GraphFacts
        <5> QED
          BY <5>1
      <4>3. Frame(graph.root).gate = graph.root /\ Frame(graph.root).todo = GateArgs(graph, graph.root)
        BY <1>1, <3>2, <4>2, FrameStarts
      <4>4. DOMAIN stack = {1} /\ stack[1] = Frame(graph.root)
        BY <4>1
      <4>5. {g, -g} \cap GateArgs(graph, p) /= {}
        BY <1>1, ParentFacts
      <4> QED
        BY <1>3, <4>3, <4>4, <4>5 DEF HasTaken
    <3> QED
      BY <3>1, <3>2
  <2> QED
    BY <2>1 DEF TakenBy
<1>5. ASSUME NEW g \in Gates(graph) PROVE Serves(g)
  BY <1>3, <1>4 DEF Serves
<1> QED
  BY <1>2, <1>3, <1>5 DEF Serving

-----------------------------------------------------------------------------
(* One parent more among those that have taken a result.                   *)
Grows(P, T, U) ==
  /\ Cardinality(T) \in Nat /\ Cardinality(P) \in Nat
  /\ Cardinality(U) = Cardinality(T) + 1
  /\ U = P <=> Cardinality(T) + 1 = Cardinality(P)

LEMMA OneMore ==
  ASSUME NEW P, IsFiniteSet(P), NEW T, T \subseteq P, NEW h, h \in P, h \notin T
  PROVE  Grows(P, T, T \cup {h})
<1>1. IsFiniteSet(T) /\ T \cup {h} \in SUBSET P /\ T \in SUBSET P
  BY FS_Subset
<1>2. Cardinality(T \cup {h}) = Cardinality(T) + 1
  BY <1>1, FS_AddElement
<1>3. Cardinality(P) = Cardinality(T \cup {h}) => P = T \cup {h}
  BY <1>1, FS_Subset
<1>4. Cardinality(T) \in Nat /\ Cardinality(P) \in Nat
  BY <1>1, FS_CardinalityType
<1> QED
  BY <1>2, <1>3, <1>4 DEF Grows

(* A gate is missing from the stack and the memo before it is converted.   *)
LEMMA TopIsNew ==
  ASSUME Building, Serving, NEW g \in Gates(graph) \ {graph.root}, g \notin converted
  PROVE  TakenBy(g) = {} /\ g \notin DOMAIN gates
BY DEF Serving, Serves

(* The gates of the stack and what they wait for.                          *)
LEMMA StackStands ==
  ASSUME Building, stack /= <<>>
  PROVE  /\ Ready /\ ~IsTrivial(graph) /\ stack \in Seq(Frames) /\ gates \in Memos
         /\ DOMAIN stack = 1..Len(stack) /\ Len(stack) \in Nat /\ Len(stack) >= 1
         /\ 1 \in 1..Len(stack) /\ Top = stack[1] /\ Top \in Frames
         /\ \A i \in 1..Len(stack) :
              /\ stack[i] \in Frames /\ stack[i].gate \in Gates(graph) /\ order[stack[i].gate] \in Nat
              /\ \A a \in stack[i].todo :
                   /\ a \in GateArgs(graph, stack[i].gate)
                   /\ Abs(a) \in Gates(graph) \ {graph.root}
                   /\ order[Abs(a)] < order[stack[i].gate] /\ order[Abs(a)] \in Nat
                   /\ stack[i].gate \in Parents(graph, Abs(a))
                   /\ {Abs(a), -Abs(a)} \cap (stack[i].todo \ {a}) = {}
                   /\ \A x \in Gates(graph) :
                        x /= Abs(a) => {x, -x} \cap (stack[i].todo \ {a}) = {x, -x} \cap stack[i].todo
<1>1. Ready /\ ~IsTrivial(graph) /\ stack \in Seq(Frames) /\ gates \in Memos
  BY DEF Building
<1>2. /\ Len(stack) \in Nat /\ Len(stack) >= 1 /\ Top = stack[1] /\ Top \in Frames
      /\ \A i \in 1..Len(stack) : stack[i] \in Frames
  BY StackFacts
<1>3. ASSUME NEW F \in Frames
      PROVE  /\ F.gate \in Gates(graph) /\ order[F.gate] \in Nat
             /\ F.todo \subseteq graph.args[F.gate]
  <2>1. F.gate \in Gates(graph) /\ FrameOk(F)
    BY <1>3, FrameFields
  <2>2. F.todo \subseteq GateArgs(graph, F.gate)
    BY <2>1 DEF FrameOk
  <2>3. F.todo \subseteq graph.args[F.gate]
    BY <2>2 DEF GateArgs
  <2>4. order[F.gate] \in Nat
    BY <1>1, <2>1, GraphFacts
  <2> QED
    BY <2>1, <2>3, <2>4
<1>4. ASSUME NEW F \in Frames, NEW a \in F.todo
      PROVE  /\ a \in GateArgs(graph, F.gate)
             /\ Abs(a) \in Gates(graph) \ {graph.root}
             /\ order[Abs(a)] < order[F.gate] /\ order[Abs(a)] \in Nat
             /\ F.gate \in Parents(graph, Abs(a))
             /\ {Abs(a), -Abs(a)} \cap (F.todo \ {a}) = {}
             /\ \A x \in Gates(graph) :
                  x /= Abs(a) => {x, -x} \cap (F.todo \ {a}) = {x, -x} \cap F.todo
  <2>1. /\ F.gate \in Gates(graph) /\ a \in GateArgs(graph, F.gate) /\ Abs(a) \in Gates(graph)
        /\ order[Abs(a)] < order[F.gate] /\ order[Abs(a)] < order[graph.root]
    BY <1>1, ArgumentComesBefore
  <2>2. order[Abs(a)] \in Nat /\ order[graph.root] \in Nat
    BY <1>1, <2>1, GraphFacts
  <2>3. Abs(a) /= graph.root
    BY <2>1, <2>2
  <2>4. /\ F.gate \in Parents(graph, Abs(a))
        /\ {Abs(a), -Abs(a)} \cap graph.args[F.gate] = {a}
        /\ \A x \in Gates(graph) : x /= Abs(a) => a \notin {x, -x}
    BY <1>1, <2>1, ArgumentOfParent
  <2>5. {Abs(a), -Abs(a)} \cap (F.todo \ {a}) = {}
    BY <1>3, <2>4
  <2>6. ASSUME NEW x \in Gates(graph), x /= Abs(a)
        PROVE  {x, -x} \cap (F.todo \ {a}) = {x, -x} \cap F.todo
    <3>1. a \notin {x, -x}
      BY <2>4, <2>6
    <3> QED
      BY <3>1
  <2> QED
    BY <2>1, <2>2, <2>3, <2>4, <2>5, <2>6
<1> QED
  BY <1>1, <1>2, <1>3, <1>4

-----------------------------------------------------------------------------
(* A frame in the place of the top, for the same gate.                     *)
LEMMA OrdersKept ==
  ASSUME Building, Serving, order' = order, converted' = converted, Len(stack') = Len(stack),
         \A i \in 1..Len(stack) : stack'[i].gate = stack[i].gate
  PROVE  /\ \A i, j \in 1..Len(stack') : i < j => order'[stack'[i].gate] < order'[stack'[j].gate]
         /\ \A i \in 1..Len(stack') : stack'[i].gate \notin converted'
BY DEF Serving

LEMMA RecallServes ==
  ASSUME Building, Serving, Recall
  PROVE  Serving'
<1>1. PICK a \in Top.todo :
        /\ Abs(a) \in DOMAIN gates
        /\ stack' = <<Receives(Top, a, gates[Abs(a)].function)>> \o Tail(stack)
        /\ gates' = Served(Abs(a))
  BY DEF Recall
<1>2. stack /= <<>> /\ UNCHANGED <<graph, order, modules, converted, root>>
  BY DEF Recall
<1>3. /\ Ready /\ stack \in Seq(Frames) /\ gates \in Memos /\ DOMAIN stack = 1..Len(stack)
      /\ Len(stack) \in Nat /\ 1 \in 1..Len(stack) /\ Top = stack[1] /\ Top \in Frames
  BY <1>2, StackStands
<1> DEFINE F == Receives(Top, a, gates[Abs(a)].function)
           g == Abs(a)
<1>4. F \in Frames /\ F.gate = Top.gate /\ F.todo = Top.todo \ {a}
  <2>1. gates[Abs(a)].function \in Functions /\ Expanded(gates[Abs(a)].function) = ModelsOf(graph, Abs(a))
    BY <1>1, <1>3, MemoServes
  <2> QED
    BY <1>1, <1>3, <2>1, FrameReceives
<1>5. stack' = <<F>> \o Tail(stack)
  BY <1>1
<1> HIDE DEF F
<1>6. /\ Len(stack') = Len(stack) /\ stack'[1] = F /\ DOMAIN stack' = 1..Len(stack)
      /\ \A i \in 2..Len(stack) : stack'[i] = stack[i]
  BY <1>2, <1>3, <1>4, <1>5, Replaced1
<1>7. \A i \in 1..Len(stack) : i = 1 \/ i \in 2..Len(stack)
  BY <1>3
<1>8. \A i \in 1..Len(stack) : stack'[i].gate = stack[i].gate
  BY <1>3, <1>4, <1>6, <1>7
<1>9. /\ g \in Gates(graph) \ {graph.root} /\ Top.gate \in Parents(graph, g)
      /\ {g, -g} \cap (Top.todo \ {a}) = {}
      /\ \A x \in Gates(graph) : x /= g => {x, -x} \cap (Top.todo \ {a}) = {x, -x} \cap Top.todo
  BY <1>1, <1>2, <1>3, StackStands
<1> HIDE DEF g
<1>10. ASSUME NEW x \in Gates(graph) \ {graph.root}, x /= g
       PROVE  Serves(x)'
  <2>1. \A i \in 1..Len(stack) : {x, -x} \cap stack'[i].todo = {x, -x} \cap stack[i].todo
    BY <1>3, <1>4, <1>6, <1>7, <1>9, <1>10
  <2>2. ASSUME NEW p \in Parents(graph, x) PROVE HasTaken(p, x)' <=> HasTaken(p, x)
    BY <1>2, <1>3, <1>6, <1>8, <2>1 DEF HasTaken
  <2>3. TakenBy(x)' = TakenBy(x)
    BY <1>2, <2>2, TakenByKept
  <2>4. /\ x \in DOMAIN gates' <=> x \in DOMAIN gates
        /\ x \in DOMAIN gates => gates'[x] = gates[x]
    BY <1>1, <1>3, <1>10, MemoServes DEF g
  <2>5. Serves(x)
    BY DEF Serving
  <2> QED
    BY <1>2, <2>3, <2>4, <2>5, ServesKept
<1>11. Serves(g)'
  <2>0. PICK h : h = Top.gate
    OBVIOUS
  <2>1. ASSUME NEW p \in Parents(graph, g) PROVE HasTaken(p, g)' <=> (HasTaken(p, g) \/ p = h)
    <3>1. CASE p = h
      <4>1. stack'[1].gate = p /\ {g, -g} \cap stack'[1].todo = {}
        BY <1>4, <1>6, <1>9, <2>0, <3>1
      <4> QED
        BY <1>3, <1>6, <3>1, <4>1 DEF HasTaken
    <3>2. CASE p /= h
      <4>1. \A i \in 1..Len(stack) : stack[i].gate = p => i \in 2..Len(stack)
        BY <1>3, <1>7, <2>0, <3>2
      <4>2. \A i \in 1..Len(stack) : stack[i].gate = p => stack'[i].todo = stack[i].todo
        BY <1>6, <4>1
      <4> QED
        BY <1>2, <1>3, <1>6, <1>8, <3>2, <4>2 DEF HasTaken
    <3> QED
      BY <3>1, <3>2
  <2>2. TakenBy(g)' = TakenBy(g) \cup {h}
    BY <1>2, <1>9, <2>0, <2>1, TakenByGrows
  <2>3. h \notin TakenBy(g)
    <3>1. ~HasTaken(h, g)
      BY <1>1, <1>3, <2>0, WaitsHasNotTaken DEF g
    <3> QED
      BY <3>1 DEF TakenBy
  <2>4. Serves(g) /\ g \in DOMAIN gates
    BY <1>1, <1>9 DEF Serving, g
  <2>5. TakenBy(g) \in SUBSET Parents(graph, g) /\ IsFiniteSet(Parents(graph, g))
    BY <1>3, <1>9, ParentFacts DEF TakenBy
  <2>6. /\ Cardinality(TakenBy(g) \cup {h}) = Cardinality(TakenBy(g)) + 1
        /\ TakenBy(g) \cup {h} = Parents(graph, g) <=>
             Cardinality(TakenBy(g)) + 1 = Cardinality(Parents(graph, g))
    <3>1. h \in Parents(graph, g) /\ h \notin TakenBy(g)
      BY <1>9, <2>0, <2>3
    <3>2. Grows(Parents(graph, g), TakenBy(g), TakenBy(g) \cup {h})
      BY <2>5, <3>1, OneMore
    <3> QED
      BY <3>2 DEF Grows
  <2>7. g \in converted' /\ TakenBy(g)' /= {} /\ gates[g].count = Cardinality(TakenBy(g))
    BY <1>2, <2>2, <2>4 DEF Serves
  <2>8. Parents(graph, g)' = Parents(graph, g)
    BY <1>2
  <2>9. CASE gates[g].count + 1 = Cardinality(Parents(graph, g))
    <3>1. DOMAIN gates' = DOMAIN gates \ {g}
      BY <1>1, <1>3, <2>9, MemoServes DEF g
    <3>2. TakenBy(g)' = Parents(graph, g)'
      BY <2>2, <2>6, <2>7, <2>8, <2>9
    <3> QED
      BY <2>7, <3>1, <3>2 DEF Serves
  <2>10. CASE gates[g].count + 1 /= Cardinality(Parents(graph, g))
    <3>1. DOMAIN gates' = DOMAIN gates /\ gates'[g].count = gates[g].count + 1
      BY <1>1, <1>3, <2>10, MemoServes DEF g
    <3>2. TakenBy(g)' /= Parents(graph, g)' /\ Cardinality(TakenBy(g)') = Cardinality(TakenBy(g)) + 1
      BY <2>2, <2>6, <2>7, <2>8, <2>10
    <3> QED
      BY <2>4, <2>7, <3>1, <3>2 DEF Serves
  <2> QED
    BY <2>9, <2>10
<1>12. \A x \in Gates(graph)' \ {graph'.root} : Serves(x)'
  BY <1>2, <1>10, <1>11
<1> QED
  BY <1>2, <1>6, <1>8, <1>12, OrdersKept DEF Serving

(* Combining functions takes nothing from the arguments.                   *)
LEMMA CombineServes ==
  ASSUME Building, Serving, Combine
  PROVE  Serving'
<1>1. PICK a \in DOMAIN Top.args :
        LET f == Top.args[a]
            res == IF Top.result = <<>> THEN f
                   ELSE Apply(graph.type[Top.gate], Top.result[1], f)
        IN stack' = <<[Top EXCEPT !.args = Taken(Top, a), !.result = <<res>>]>> \o Tail(stack)
  BY DEF Combine
<1>2. stack /= <<>> /\ Top.todo = {} /\ UNCHANGED <<graph, order, gates, modules, converted, root>>
  BY DEF Combine
<1>3. /\ Ready /\ ~IsTrivial(graph) /\ stack \in Seq(Frames) /\ DOMAIN stack = 1..Len(stack)
      /\ Len(stack) \in Nat /\ 1 \in 1..Len(stack) /\ Top = stack[1] /\ Top \in Frames
  BY <1>2, StackStands
<1> DEFINE F == Combined(Top, a, Total(Top, a))
<1>4. stack' = <<F>> \o Tail(stack)
  BY <1>1 DEF Combined, Total
<1>5. F \in Frames /\ F.gate = Top.gate /\ F.todo = Top.todo
  BY <1>2, <1>3, FrameCombines
<1> HIDE DEF F
<1>6. /\ Len(stack') = Len(stack) /\ stack'[1] = F /\ DOMAIN stack' = 1..Len(stack)
      /\ \A i \in 2..Len(stack) : stack'[i] = stack[i]
  BY <1>2, <1>3, <1>4, <1>5, Replaced1
<1>7. \A i \in 1..Len(stack) : i = 1 \/ i \in 2..Len(stack)
  BY <1>3
<1>8. \A i \in 1..Len(stack) : stack'[i].gate = stack[i].gate /\ stack'[i].todo = stack[i].todo
  BY <1>3, <1>5, <1>6, <1>7
<1>9. ASSUME NEW x \in Gates(graph) \ {graph.root} PROVE Serves(x)'
  <2>1. ASSUME NEW p \in Parents(graph, x) PROVE HasTaken(p, x)' <=> HasTaken(p, x)
    BY <1>2, <1>3, <1>6, <1>8 DEF HasTaken
  <2>2. TakenBy(x)' = TakenBy(x)
    BY <1>2, <2>1, TakenByKept
  <2>3. Serves(x)
    BY DEF Serving
  <2> QED
    BY <1>2, <2>2, <2>3, ServesKept
<1>10. \A x \in Gates(graph)' \ {graph'.root} : Serves(x)'
  BY <1>2, <1>9
<1> QED
  BY <1>2, <1>6, <1>8, <1>10, OrdersKept DEF Serving

LEMMA DescendServes ==
  ASSUME Building, Serving, Descend
  PROVE  Serving'
<1>1. PICK a \in Top.todo : /\ Abs(a) \notin DOMAIN gates
                            /\ stack' = <<Frame(Abs(a))>> \o stack
  BY DEF Descend
<1>2. stack /= <<>> /\ UNCHANGED <<graph, order, gates, modules, converted, root>>
  BY DEF Descend
<1>3. /\ Ready /\ ~IsTrivial(graph) /\ stack \in Seq(Frames) /\ DOMAIN stack = 1..Len(stack)
      /\ Len(stack) \in Nat /\ Len(stack) >= 1 /\ 1 \in 1..Len(stack) /\ Top = stack[1] /\ Top \in Frames
      /\ \A i \in 1..Len(stack) : order[stack[i].gate] \in Nat
  BY <1>2, StackStands
<1> DEFINE g == Abs(a)
<1>4. /\ g \in Gates(graph) \ {graph.root} /\ Top.gate \in Parents(graph, g)
      /\ order[g] < order[stack[1].gate] /\ order[g] \in Nat
  BY <1>1, <1>2, <1>3, StackStands
<1>5. Frame(g) \in Frames /\ Frame(g).gate = g /\ Frame(g).todo = GateArgs(graph, g)
  <2>1. order[g] <= order[graph.root]
    <3>1. order[g] < order[graph.root]
      BY <1>1, <1>3, ArgumentComesBefore
    <3>2. order[graph.root] \in Nat
      BY <1>3, GraphFacts
    <3> QED
      BY <1>4, <3>1, <3>2
  <2> QED
    BY <1>3, <1>4, <2>1, FrameStarts
<1>6. /\ Len(stack') = Len(stack) + 1 /\ stack'[1] = Frame(g) /\ DOMAIN stack' = 1..(Len(stack) + 1)
      /\ \A i \in 2..(Len(stack) + 1) : stack'[i] = stack[i - 1]
  <2>1. /\ stack' \in Seq(Frames) /\ Len(stack') = Len(stack) + 1 /\ stack'[1] = Frame(g)
        /\ \A i \in 2..(Len(stack) + 1) : stack'[i] = stack[i - 1]
    BY <1>1, <1>3, <1>5, Pushed
  <2> QED
    BY <2>1
<1>7. g \notin converted
  <2> SUFFICES ASSUME g \in converted PROVE FALSE
    OBVIOUS
  <2>1. Serves(g)
    BY <1>4 DEF Serving
  <2>2. TakenBy(g) = Parents(graph, g)
    BY <1>1, <2>1 DEF Serves
  <2>3. ~HasTaken(Top.gate, g)
    BY <1>1, <1>3, WaitsHasNotTaken
  <2> QED
    BY <1>4, <2>2, <2>3 DEF TakenBy
<1> HIDE DEF g
<1>8. \A i \in 1..(Len(stack) + 1) :
        i = 1 \/ (i \in 2..(Len(stack) + 1) /\ i - 1 \in 1..Len(stack) /\ stack'[i] = stack[i - 1])
  BY <1>3, <1>6
<1>9. \A i \in 1..Len(stack) : i + 1 \in 1..(Len(stack) + 1) /\ stack'[i + 1] = stack[i]
  <2>1. ASSUME NEW i \in 1..Len(stack)
        PROVE  i + 1 \in 1..(Len(stack) + 1) /\ i + 1 \in 2..(Len(stack) + 1) /\ i + 1 - 1 = i
    BY <1>3
  <2> QED
    BY <1>6, <2>1
<1>10. \A i, j \in 1..Len(stack') : i < j => order'[stack'[i].gate] < order'[stack'[j].gate]
  <2>1. \A i \in 1..Len(stack) : order[g] < order[stack[i].gate]
    <3>1. ASSUME NEW i \in 1..Len(stack), i /= 1 PROVE order[stack[1].gate] < order[stack[i].gate]
      BY <1>3, <3>1 DEF Serving
    <3> QED
      BY <1>3, <1>4, <3>1
  <2>2. ASSUME NEW i \in 1..(Len(stack) + 1), NEW j \in 1..(Len(stack) + 1), i < j
        PROVE  order[stack'[i].gate] < order[stack'[j].gate]
    <3>1. j - 1 \in 1..Len(stack) /\ stack'[j] = stack[j - 1]
      BY <1>3, <1>8, <2>2
    <3>2. CASE i = 1
      BY <1>5, <1>6, <2>1, <3>1, <3>2
    <3>3. CASE i /= 1
      <4>1. i - 1 \in 1..Len(stack) /\ stack'[i] = stack[i - 1] /\ i - 1 < j - 1
        BY <1>3, <1>8, <2>2, <3>3
      <4> QED
        BY <3>1, <4>1 DEF Serving
    <3> QED
      BY <3>2, <3>3
  <2> QED
    BY <1>2, <1>6, <2>2
<1>11. \A i \in 1..Len(stack') : stack'[i].gate \notin converted'
  <2>1. \A i \in 1..Len(stack) : stack[i].gate \notin converted
    BY DEF Serving
  <2> QED
    BY <1>2, <1>5, <1>6, <1>7, <1>8, <2>1
<1>12. ASSUME NEW x \in Gates(graph) \ {graph.root} PROVE Serves(x)'
  <2>1. ASSUME NEW p \in Parents(graph, x) PROVE HasTaken(p, x)' <=> HasTaken(p, x)
    <3>1. ASSUME NEW i \in 1..(Len(stack) + 1), stack'[i].gate = p, {x, -x} \cap stack'[i].todo = {}
          PROVE  \E j \in 1..Len(stack) : stack[j].gate = p /\ {x, -x} \cap stack[j].todo = {}
      <4>1. i /= 1
        <5>1. {x, -x} \cap GateArgs(graph, p) /= {}
          BY <1>3, ParentFacts
        <5> QED
          BY <1>5, <1>6, <3>1, <5>1
      <4> QED
        BY <1>8, <3>1, <4>1
    <3> QED
      BY <1>2, <1>3, <1>6, <1>9, <3>1 DEF HasTaken
  <2>2. TakenBy(x)' = TakenBy(x)
    BY <1>2, <2>1, TakenByKept
  <2>3. Serves(x)
    BY DEF Serving
  <2> QED
    BY <1>2, <2>2, <2>3, ServesKept
<1>13. \A x \in Gates(graph)' \ {graph'.root} : Serves(x)'
  BY <1>2, <1>12
<1> QED
  BY <1>10, <1>11, <1>13 DEF Serving

(* The result of a gate comes in: its memo starts with the one that asked. *)
LEMMA FinishServes ==
  ASSUME Building, Serving, Finish
  PROVE  Serving'
<1>0. PICK g : g = Top.gate
  OBVIOUS
<1> DEFINE res == Top.result[1]
           asker == stack[2]
           a == CHOOSE b \in asker.todo : Abs(b) = g
<1>1. /\ stack /= <<>> /\ Top.todo = {} /\ DOMAIN Top.args = {} /\ UNCHANGED <<graph, order>>
      /\ gates' = IF Cardinality(Parents(graph, g)) > 1
                  THEN [h \in DOMAIN gates \cup {g} |->
                          IF h = g THEN [function |-> res, count |-> 1] ELSE gates[h]]
                  ELSE gates
      /\ converted' = converted \cup {g}
      /\ IF Len(stack) = 1
         THEN stack' = <<>> /\ root' = <<Negate(graph.complement, res)>>
         ELSE /\ stack' = <<Receives(asker, a, res)>> \o Tail(Tail(stack))
              /\ UNCHANGED root
  BY <1>0 DEF Finish
<1>2. /\ Ready /\ ~IsTrivial(graph) /\ stack \in Seq(Frames) /\ DOMAIN stack = 1..Len(stack)
      /\ Len(stack) \in Nat /\ Len(stack) >= 1 /\ 1 \in 1..Len(stack) /\ Top = stack[1] /\ Top \in Frames
      /\ g \in Gates(graph) /\ \A i \in 1..Len(stack) : order[stack[i].gate] \in Nat
  BY <1>0, <1>1, StackStands
<1>3. g \notin converted /\ g = stack[1].gate
  BY <1>0, <1>2 DEF Serving
<1>4. ASSUME NEW x, x /= g
      PROVE  /\ x \in DOMAIN gates' <=> x \in DOMAIN gates
             /\ x \in DOMAIN gates => gates'[x].count = gates[x].count
             /\ x \in converted' <=> x \in converted
  <2> HIDE DEF res
  <2> QED
    BY <1>1, <1>4
<1>5. CASE Len(stack) = 1
  <2>1. stack' = <<>> /\ g = graph.root
    BY <1>0, <1>1, <1>5, Askers
  <2>2. ASSUME NEW x \in Gates(graph) \ {graph.root} PROVE Serves(x)'
    <3>1. ASSUME NEW p \in Parents(graph, x) PROVE HasTaken(p, x)' <=> HasTaken(p, x)
      <4>1. HasTaken(p, x)' <=> p \in converted'
        BY <2>1 DEF HasTaken
      <4>2. HasTaken(p, x) <=> (p \in converted \/ stack[1].gate = p)
        BY <1>1, <1>2, <1>3, <1>5 DEF HasTaken
      <4> QED
        BY <1>1, <1>2, <1>3, <4>1, <4>2
    <3>2. TakenBy(x)' = TakenBy(x)
      BY <1>1, <3>1, TakenByKept
    <3>3. Serves(x)
      BY DEF Serving
    <3>4. x /= g
      BY <2>1
    <3> QED
      BY <1>1, <1>4, <3>2, <3>3, <3>4, ServesKept
  <2>3. \A x \in Gates(graph)' \ {graph'.root} : Serves(x)'
    BY <1>1, <2>2
  <2>4. Len(stack') = 0
    BY <2>1
  <2> QED
    BY <2>3, <2>4 DEF Serving
<1>6. CASE Len(stack) /= 1
  <2>1. /\ Len(stack) >= 2 /\ asker \in Frames /\ a \in asker.todo /\ Abs(a) = g
        /\ g /= graph.root
    BY <1>0, <1>1, <1>6, Askers
  <2> DEFINE F == Receives(asker, a, res)
  <2>2. stack' = <<F>> \o Tail(Tail(stack))
    BY <1>1, <1>6
  <2>3. F \in Frames /\ F.gate = asker.gate /\ F.todo = asker.todo \ {a}
    <3>1. res \in Functions /\ Expanded(res) = ModelsOf(graph, g)
      BY <1>0, <1>1, <1>2, FrameFinishes
    <3> HIDE DEF res, asker, a
    <3> QED
      BY <1>2, <2>1, <3>1, FrameReceives
  <2>4. 2 \in 1..Len(stack)
    BY <1>2, <2>1
  <2>5. /\ asker.gate \in Parents(graph, g)
        /\ {g, -g} \cap (asker.todo \ {a}) = {}
        /\ \A x \in Gates(graph) : x /= g => {x, -x} \cap (asker.todo \ {a}) = {x, -x} \cap asker.todo
    BY <1>1, <2>1, <2>4, StackStands
  <2> HIDE DEF F, a
  <2>6. /\ Len(stack') = Len(stack) - 1 /\ stack'[1] = F /\ DOMAIN stack' = 1..(Len(stack) - 1)
        /\ \A i \in 2..(Len(stack) - 1) : stack'[i] = stack[i + 1]
    <3>1. /\ stack' \in Seq(Frames) /\ Len(stack') = Len(stack) - 1 /\ stack'[1] = F
          /\ \A i \in 2..(Len(stack) - 1) : stack'[i] = stack[i + 1]
      BY <1>2, <2>1, <2>2, <2>3, Popped
    <3> QED
      BY <3>1
  <2>7. \A i \in 1..(Len(stack) - 1) :
          /\ i + 1 \in 1..Len(stack) /\ i + 1 /= 1
          /\ i = 1 \/ (i \in 2..(Len(stack) - 1) /\ stack'[i] = stack[i + 1])
    BY <1>2, <2>6
  <2>8. \A i \in 1..(Len(stack) - 1) : stack'[i].gate = stack[i + 1].gate
    <3>1. stack'[1].gate = stack[1 + 1].gate
      BY <2>3, <2>6
    <3> QED
      BY <2>7, <3>1
  <2>9. \A i \in 1..Len(stack) : i = 1 \/ (i - 1 \in 1..(Len(stack) - 1) /\ i - 1 + 1 = i)
    BY <1>2
  <2>10. ASSUME NEW p, NEW x
         PROVE  HasTaken(p, x)' <=>
                  \/ p \in converted \/ p = g
                  \/ \E i \in 1..(Len(stack) - 1) : stack[i + 1].gate = p /\ {x, -x} \cap stack'[i].todo = {}
    BY <1>1, <2>6, <2>8 DEF HasTaken
  <2>11. ASSUME NEW p, NEW x
         PROVE  HasTaken(p, x) <=>
                  \/ p \in converted \/ p = g
                  \/ \E i \in 1..(Len(stack) - 1) : stack[i + 1].gate = p /\ {x, -x} \cap stack[i + 1].todo = {}
    <3>1. (\E i \in 1..Len(stack) : stack[i].gate = p /\ {x, -x} \cap stack[i].todo = {})
          => p = g \/ \E i \in 1..(Len(stack) - 1) :
                        stack[i + 1].gate = p /\ {x, -x} \cap stack[i + 1].todo = {}
      <4>1. ASSUME NEW i \in 1..Len(stack), stack[i].gate = p, {x, -x} \cap stack[i].todo = {}, i /= 1
            PROVE  \E j \in 1..(Len(stack) - 1) :
                     stack[j + 1].gate = p /\ {x, -x} \cap stack[j + 1].todo = {}
        <5>1. i - 1 \in 1..(Len(stack) - 1) /\ i - 1 + 1 = i
          BY <2>9, <4>1
        <5>2. stack[i - 1 + 1].gate = p /\ {x, -x} \cap stack[i - 1 + 1].todo = {}
          BY <4>1, <5>1
        <5> QED
          BY <5>1, <5>2
      <4> QED
        BY <1>3, <4>1
    <3>2. p = g => (\E i \in 1..Len(stack) : stack[i].gate = p /\ {x, -x} \cap stack[i].todo = {})
      BY <1>1, <1>2, <1>3
    <3>3. \A i \in 1..(Len(stack) - 1) : i + 1 \in 1..Len(stack)
      BY <2>7
    <3> QED
      BY <1>2, <3>1, <3>2, <3>3 DEF HasTaken
  <2>12. PICK q : q = asker.gate
    OBVIOUS
  <2> HIDE DEF asker
  <2>13. ASSUME NEW x \in Gates(graph) \ {graph.root}, x /= g
         PROVE  Serves(x)'
    <3>1. \A i \in 1..(Len(stack) - 1) : {x, -x} \cap stack'[i].todo = {x, -x} \cap stack[i + 1].todo
      <4>1. {x, -x} \cap stack'[1].todo = {x, -x} \cap stack[1 + 1].todo
        BY <2>3, <2>5, <2>6, <2>13 DEF asker
      <4> QED
        BY <2>7, <4>1
    <3>2. ASSUME NEW p \in Parents(graph, x) PROVE HasTaken(p, x)' <=> HasTaken(p, x)
      BY <2>10, <2>11, <3>1
    <3>3. TakenBy(x)' = TakenBy(x)
      BY <1>1, <3>2, TakenByKept
    <3>4. Serves(x)
      BY DEF Serving
    <3> QED
      BY <1>1, <1>4, <2>13, <3>3, <3>4, ServesKept
  <2>14. Serves(g)'
    <3>1. TakenBy(g) = {} /\ g \notin DOMAIN gates
      BY <1>2, <1>3, <2>1, TopIsNew
    <3>2. ASSUME NEW p \in Parents(graph, g) PROVE HasTaken(p, g)' <=> (HasTaken(p, g) \/ p = q)
      <4>1. CASE p = q
        <5>1. 1 \in 1..(Len(stack) - 1) /\ stack[1 + 1].gate = p /\ {g, -g} \cap stack'[1].todo = {}
          BY <1>2, <2>1, <2>3, <2>5, <2>6, <2>12, <4>1 DEF asker
        <5>2. HasTaken(p, g)'
          BY <2>10, <5>1
        <5> QED
          BY <4>1, <5>2
      <4>2. CASE p /= q
        <5>1. \A i \in 1..(Len(stack) - 1) : stack[i + 1].gate = p => stack'[i] = stack[i + 1]
          <6>1. stack[1 + 1].gate /= p
              BY <2>12, <4>2 DEF asker
          <6> QED
            BY <2>7, <6>1
        <5> QED
          BY <2>10, <2>11, <4>2, <5>1
      <4> QED
        BY <4>1, <4>2
    <3>3. TakenBy(g)' = {q}
      BY <1>1, <2>5, <2>12, <3>1, <3>2, TakenByGrows
    <3>4. IsFiniteSet(Parents(graph, g))
      BY <1>2, ParentFacts
    <3>5. /\ Cardinality({q}) = 1 /\ Cardinality(Parents(graph, g)) \in Nat
          /\ {q} = Parents(graph, g) <=> Cardinality(Parents(graph, g)) = 1
          /\ Cardinality(Parents(graph, g)) >= 1
      <4>1. q \in Parents(graph, g)
        BY <2>5, <2>12
      <4>2. Grows(Parents(graph, g), {}, {} \cup {q})
        BY <3>4, <4>1, OneMore
      <4>3. {} \cup {q} = {q} /\ Cardinality({}) = 0
        BY FS_EmptySet
      <4>4. /\ Cardinality({q}) = 1 /\ Cardinality(Parents(graph, g)) \in Nat
            /\ {q} = Parents(graph, g) <=> Cardinality(Parents(graph, g)) = 1
        BY <4>2, <4>3 DEF Grows
      <4>5. Cardinality({q}) <= Cardinality(Parents(graph, g))
        BY <3>4, <4>1, FS_Subset
      <4> QED
        BY <4>4, <4>5
    <3>6. Parents(graph, g)' = Parents(graph, g) /\ g \in converted'
      BY <1>1
    <3>7. CASE Cardinality(Parents(graph, g)) > 1
      <4>1. g \in DOMAIN gates' /\ gates'[g].count = 1
        <5> HIDE DEF res
        <5> QED
          BY <1>1, <3>7
      <4>2. {q} /= Parents(graph, g) /\ {q} /= {}
        BY <3>5, <3>7
      <4> QED
        BY <3>3, <3>5, <3>6, <4>1, <4>2 DEF Serves
    <3>8. CASE ~(Cardinality(Parents(graph, g)) > 1)
      <4>1. g \notin DOMAIN gates'
        BY <1>1, <3>1, <3>8
      <4>2. {q} = Parents(graph, g) /\ {q} /= {}
        BY <3>5, <3>8
      <4> QED
        BY <3>3, <3>6, <4>1, <4>2 DEF Serves
    <3> QED
      BY <3>7, <3>8
  <2>15. \A x \in Gates(graph)' \ {graph'.root} : Serves(x)'
    BY <1>1, <2>13, <2>14
  <2>16. \A i, j \in 1..Len(stack') : i < j => order'[stack'[i].gate] < order'[stack'[j].gate]
    <3>1. ASSUME NEW i \in 1..(Len(stack) - 1), NEW j \in 1..(Len(stack) - 1), i < j
          PROVE  order[stack'[i].gate] < order[stack'[j].gate]
      <4>1. i + 1 \in 1..Len(stack) /\ j + 1 \in 1..Len(stack) /\ i + 1 < j + 1
        BY <1>2, <2>7, <3>1
      <4>2. order[stack[i + 1].gate] < order[stack[j + 1].gate]
        BY <4>1 DEF Serving
      <4> QED
        BY <2>8, <4>2
    <3> QED
      BY <1>1, <2>6, <3>1
  <2>17. \A i \in 1..Len(stack') : stack'[i].gate \notin converted'
    <3>1. ASSUME NEW i \in 1..(Len(stack) - 1) PROVE stack[i + 1].gate \notin converted \cup {g}
      <4>1. i + 1 \in 1..Len(stack) /\ 1 < i + 1
        BY <1>2, <2>7
      <4>2. order[stack[1].gate] < order[stack[i + 1].gate] /\ stack[i + 1].gate \notin converted
        BY <1>2, <4>1 DEF Serving
      <4>3. stack[i + 1].gate /= stack[1].gate
        BY <1>2, <4>1, <4>2
      <4> QED
        BY <1>2, <1>3, <4>2, <4>3
    <3> QED
      BY <1>1, <2>6, <2>8, <3>1
  <2> QED
    BY <2>15, <2>16, <2>17 DEF Serving
<1> QED
  BY <1>5, <1>6

LEMMA NextServes ==
  ASSUME Building, Serving, [Next]_vars
  PROVE  Serving'
<1>1. CASE UNCHANGED <<graph, order, stack, gates, converted>>
  <2>1. ASSUME NEW x PROVE Serves(x)' <=> Serves(x)
    BY <1>1 DEF Serves, TakenBy, HasTaken
  <2> QED
    BY <1>1, <2>1 DEF Serving
<1> QED
  BY <1>1, RecallServes, DescendServes, CombineServes, FinishServes
  DEF Next, Constructed, ConvertTrivial, vars

(* bdd.cc:145: whatever the order of the walk, the memo has the result of  *)
(* a gate from the first parent it serves until the last, counts those it  *)
(* has served, and lets the entry go with the last one.                    *)
THEOREM SpecMemoServesParents == Spec => []MemoServesParents
<1>1. Serving => MemoServesParents
  BY DEF Serving, Serves, TakenBy, MemoServesParents
<1>2. Building /\ Serving /\ [Next]_vars => Serving'
  BY NextServes
<1> QED
  BY AlwaysBuilding, InitServes, <1>1, <1>2, PTL DEF Spec

=============================================================================
