-------------------------- MODULE UniqueTableProofs --------------------------
(***************************************************************************)
(* The vertex store keeps a diagram reduced and its reference counts exact *)
(* for every set of indices, every hash function and every growth of the   *)
(* table.                                                                  *)
(***************************************************************************)
EXTENDS UniqueTable, FiniteSetTheorems, TLAPS

(* A registered vertex is in the bucket where a search looks for it.       *)
Placed == \A v \in table_ptr : bucket[v] = PlaceIn(shape[v], capacity)

(* Registered vertices have distinct signatures.                           *)
Distinct == \A v, w \in table_ptr : shape[v] = shape[w] => v = w

(* Ids in use are old ids, and what was made since the table was cleared   *)
(* is registered.                                                          *)
Tracked ==
  /\ live \cup entries \subseteq 2..(next_id - 1)
  /\ \A v \in live : v >= cleared_at => v \in table_ptr

IInv ==
  /\ TypeOK
  /\ PointersAgree
  /\ CountsExact
  /\ SizeExact
  /\ Placed
  /\ Distinct
  /\ Tracked

USE TerminalsAssumption, BoundsAssumption, CapacitiesAssumption, HashAssumption

-----------------------------------------------------------------------------
(* The sets the counters count are finite.                                 *)
LEMMA Finite ==
  ASSUME IInv
  PROVE  /\ IsFiniteSet(live) /\ IsFiniteSet(entries)
         /\ \A id : IsFiniteSet(HighParents(id)) /\ IsFiniteSet(LowParents(id))
<1>1. next_id \in Int /\ live \subseteq 2..(next_id - 1) /\ entries \subseteq 2..(next_id - 1)
  BY DEF IInv, Tracked, TypeOK
<1>2. IsFiniteSet(2..(next_id - 1))
  BY <1>1, FS_Interval
<1>3. IsFiniteSet(live) /\ IsFiniteSet(entries)
  BY <1>1, <1>2, FS_Subset
<1>4. ASSUME NEW id PROVE IsFiniteSet(HighParents(id)) /\ IsFiniteSet(LowParents(id))
  BY <1>3, FS_Subset DEF HighParents, LowParents
<1> QED
  BY <1>3, <1>4

(* Rehashed or not, the table a search runs on knows the same vertices and *)
(* has them in their buckets (bdd.h:421-424, 449-477).                     *)
LEMMA PreparedTable ==
  ASSUME IInv, ~released
  PROVE  /\ Prepared.entries \subseteq entries
         /\ Prepared.entries \cap live = table_ptr
         /\ Prepared.expired = Prepared.entries \ live
         /\ Prepared.bucket \in [Prepared.entries -> Nat]
         /\ \A v \in table_ptr : Prepared.bucket[v] = PlaceIn(shape[v], Prepared.capacity)
         /\ Prepared.capacity \in Capacities
         /\ Prepared.size = Cardinality(Prepared.entries)
<1>1. CASE Overloaded
  <2> DEFINE buckets == NextCapacity(capacity)
             t == Rehashed(buckets)
  <2>1. buckets \in Capacities
    BY DEF IInv, TypeOK
  <2> HIDE DEF buckets
  <2>2. entries \ expired = table_ptr /\ table_ptr \subseteq live
    BY DEF IInv, PointersAgree
  <2>3. \A v \in table_ptr : shape[v] \in Signatures
    BY <2>2 DEF IInv, TypeOK
  <2>4. \A v \in table_ptr : PlaceIn(shape[v], buckets) \in Nat
    BY <2>1, <2>3 DEF PlaceIn
  <2>5. Prepared = t
    BY <1>1 DEF Prepared, buckets
  <2>6. /\ t.entries = table_ptr /\ t.expired = {} /\ t.capacity = buckets
        /\ t.size = Cardinality(table_ptr)
        /\ t.bucket = [v \in table_ptr |-> PlaceIn(shape[v], buckets)]
    BY <2>2 DEF Rehashed
  <2> HIDE DEF t
  <2> QED
    BY <2>1, <2>2, <2>4, <2>5, <2>6
<1>2. CASE ~Overloaded
  <2>1. /\ Prepared.entries = entries /\ Prepared.expired = expired
        /\ Prepared.bucket = bucket /\ Prepared.capacity = capacity /\ Prepared.size = size
    BY <1>2 DEF Prepared
  <2> QED
    BY <2>1 DEF IInv, PointersAgree, TypeOK, Placed, SizeExact
<1> QED
  BY <1>1, <1>2

(* A search finds a registered signature: it can only be in the chain the  *)
(* search walks.                                                           *)
LEMMA SearchComplete ==
  ASSUME IInv, ~released, NEW sig
  PROVE  Matches(Prepared, sig) = {v \in table_ptr : shape[v] = sig}
  BY PreparedTable DEF Matches, Chain

-----------------------------------------------------------------------------
LEMMA FindStep ==
  ASSUME IInv, NEW sig \in Signatures, Find(sig)
  PROVE  IInv'
<1> DEFINE P == Prepared
<1>0. ~released
  BY DEF Find
<1>1. PICK v \in Matches(P, sig), gone \in SUBSET (Chain(P, sig) \cap P.expired) :
        /\ held[v] < MaxHeld
        /\ Installs(P, gone)
        /\ use_count' = Plus(use_count, v)
        /\ held' = Plus(held, v)
  BY DEF Find
<1>2. v \in table_ptr /\ v \in live
  BY <1>0, <1>1, SearchComplete DEF IInv, TypeOK
<1>3. UNCHANGED <<live, shape, table_ptr, next_id, cleared_at, released>>
  BY DEF Find
<1>p. /\ P.entries \subseteq entries
      /\ P.entries \cap live = table_ptr
      /\ P.expired = P.entries \ live
      /\ P.bucket \in [P.entries -> Nat]
      /\ \A u \in table_ptr : P.bucket[u] = PlaceIn(shape[u], P.capacity)
      /\ P.capacity \in Capacities
      /\ P.size = Cardinality(P.entries)
  BY <1>0, PreparedTable
<1>i. /\ entries' = P.entries \ gone
      /\ expired' = P.expired \ gone
      /\ bucket' = [u \in P.entries \ gone |-> P.bucket[u]]
      /\ size' = P.size - Cardinality(gone)
      /\ capacity' = P.capacity
  BY <1>1 DEF Installs
<1>g. gone \subseteq P.entries /\ gone \cap live = {}
  BY <1>1, <1>p
<1> HIDE DEF P
<1>4. size' = Cardinality(entries') /\ size' \in Nat
  <2>1. IsFiniteSet(P.entries)
    BY <1>p, Finite, FS_Subset
  <2>2. P.entries \cap gone = gone
    BY <1>g
  <2>3. IsFiniteSet(P.entries \ gone) /\ Cardinality(P.entries \ gone) = Cardinality(P.entries) - Cardinality(gone)
    BY <2>1, <2>2, FS_Difference
  <2> QED
    BY <1>i, <1>p, <2>3, FS_CardinalityType
<1>5. PointersAgree'
  BY <1>p, <1>i, <1>g, <1>3 DEF PointersAgree
<1>6. TypeOK'
  <2>1. use_count' \in [live -> Nat] /\ held' \in [live -> 0..MaxHeld]
    <3>1. use_count \in [live -> Nat] /\ held \in [live -> 0..MaxHeld] /\ MaxHeld \in Nat
      BY DEF IInv, TypeOK
    <3>2. held[v] + 1 \in 0..MaxHeld /\ use_count[v] + 1 \in Nat
      BY <1>1, <1>2, <3>1
    <3> QED
      BY <1>1, <1>2, <3>1, <3>2 DEF Plus
  <2>2. bucket' \in [entries' -> Nat] /\ expired' \subseteq entries'
    BY <1>i, <1>p
  <2> QED
    BY <1>3, <1>4, <1>i, <1>p, <2>1, <2>2 DEF IInv, TypeOK
<1>7. CountsExact'
  <2>1. \A u \in live : HighParents(u)' = HighParents(u) /\ LowParents(u)' = LowParents(u)
    BY <1>3 DEF HighParents, LowParents
  <2>2. \A u \in live : Cardinality(HighParents(u)) \in Nat /\ Cardinality(LowParents(u)) \in Nat
    BY Finite, FS_CardinalityType
  <2>3. \A u \in live : use_count'[u] = held'[u] + Cardinality(HighParents(u)) + Cardinality(LowParents(u))
    BY <1>1, <1>2, <2>2 DEF IInv, TypeOK, CountsExact, Plus
  <2> QED
    BY <1>3, <2>1, <2>3 DEF IInv, CountsExact, Vertices
<1>8. SizeExact'
  BY <1>4 DEF SizeExact
<1>9. Placed'
  BY <1>p, <1>i, <1>g, <1>3 DEF Placed, PlaceIn, IInv, TypeOK
<1>10. Distinct' /\ Tracked'
  BY <1>3, <1>i, <1>p DEF IInv, Distinct, Tracked
<1> QED
  BY <1>5, <1>6, <1>7, <1>8, <1>9, <1>10 DEF IInv

LEMMA AddStep ==
  ASSUME IInv, NEW sig \in Signatures, Add(sig), NEW n, n = next_id
  PROVE  IInv'
<1> DEFINE P == Prepared
           gone == Chain(P, sig) \cap P.expired
<1>0. /\ ~released
      /\ n \in 2..MaxId /\ n \notin live /\ n \notin entries /\ n \notin Terminals
  BY DEF Add, IInv, TypeOK, Tracked
<1>p. /\ P.entries \subseteq entries
      /\ P.entries \cap live = table_ptr
      /\ P.expired = P.entries \ live
      /\ P.bucket \in [P.entries -> Nat]
      /\ \A u \in table_ptr : P.bucket[u] = PlaceIn(shape[u], P.capacity)
      /\ P.capacity \in Capacities
      /\ P.size = Cardinality(P.entries)
  BY <1>0, PreparedTable
<1>1. /\ Holds(sig.high) /\ Holds(Magnitude(sig.low))
      /\ live' = live \cup {n}
      /\ shape' = [v \in live' |-> IF v = n THEN sig ELSE shape[v]]
      /\ use_count' = [v \in live' |-> IF v = n THEN 1 ELSE WithChildren(sig, use_count)[v]]
      /\ held' = [v \in live' |-> IF v = n THEN 1 ELSE held[v]]
      /\ table_ptr' = table_ptr \cup {n}
      /\ entries' = (P.entries \ gone) \cup {n}
      /\ expired' = P.expired \ gone
      /\ bucket' = [v \in (P.entries \ gone) \cup {n} |->
                       IF v = n THEN PlaceIn(sig, P.capacity) ELSE P.bucket[v]]
      /\ size' = P.size - Cardinality(gone) + 1
      /\ capacity' = P.capacity
      /\ next_id' = n + 1
      /\ UNCHANGED <<cleared_at, released>>
  BY DEF Add
<1>2. \A v \in table_ptr : shape[v] # sig
  BY <1>0, SearchComplete DEF Add
<1>g. gone \subseteq P.entries /\ gone \cap live = {} /\ n \notin P.entries
  BY <1>p, <1>0
<1> HIDE DEF P, gone
<1>h. PlaceIn(sig, P.capacity) \in Nat
  <2>1. P.capacity \in Nat \ {0} /\ Hash(sig) \in Nat
    BY <1>p
  <2> QED
    BY <2>1 DEF PlaceIn
<1>3. PointersAgree'
  BY <1>p, <1>1, <1>g, <1>0 DEF PointersAgree
<1>4. size' = Cardinality(entries') /\ size' \in Nat
  <2>1. IsFiniteSet(P.entries)
    BY <1>p, Finite, FS_Subset
  <2>2. P.entries \cap gone = gone
    BY <1>g
  <2>3. IsFiniteSet(P.entries \ gone) /\ Cardinality(P.entries \ gone) = Cardinality(P.entries) - Cardinality(gone)
    BY <2>1, <2>2, FS_Difference
  <2>4. n \notin P.entries \ gone
    BY <1>g
  <2>5. /\ IsFiniteSet((P.entries \ gone) \cup {n})
        /\ Cardinality((P.entries \ gone) \cup {n}) = Cardinality(P.entries \ gone) + 1
    BY <2>3, <2>4, FS_AddElement
  <2> QED
    BY <1>1, <1>p, <2>3, <2>5, FS_CardinalityType
<1>5. /\ sig.high \in Vertices /\ Magnitude(sig.low) \in Vertices
      /\ sig.high # n /\ Magnitude(sig.low) # n
  BY <1>0, <1>1 DEF Holds, Vertices
<1>6. /\ \A u \in live : HighParents(u)' = IF sig.high = u THEN HighParents(u) \cup {n} ELSE HighParents(u)
      /\ \A u \in live : LowParents(u)' = IF Magnitude(sig.low) = u THEN LowParents(u) \cup {n} ELSE LowParents(u)
  BY <1>0, <1>1 DEF HighParents, LowParents
<1>7. HighParents(n)' = {} /\ LowParents(n)' = {}
  <2>1. \A w \in live : shape[w].high # n /\ Magnitude(shape[w].low) # n
    BY <1>0 DEF IInv, CountsExact, Vertices
  <2> QED
    BY <1>1, <1>5, <2>1 DEF HighParents, LowParents
<1>8. \A u \in live :
        /\ Cardinality(HighParents(u)) \in Nat /\ Cardinality(LowParents(u)) \in Nat
        /\ Cardinality(HighParents(u)') = Cardinality(HighParents(u)) + (IF sig.high = u THEN 1 ELSE 0)
        /\ Cardinality(LowParents(u)') = Cardinality(LowParents(u)) + (IF Magnitude(sig.low) = u THEN 1 ELSE 0)
  <2> TAKE u \in live
  <2>1. n \notin HighParents(u) /\ n \notin LowParents(u)
    BY <1>0 DEF HighParents, LowParents
  <2>2. IsFiniteSet(HighParents(u)) /\ IsFiniteSet(LowParents(u))
    BY Finite
  <2>3. Cardinality(HighParents(u)) \in Nat /\ Cardinality(LowParents(u)) \in Nat
    BY <2>2, FS_CardinalityType
  <2>4. /\ Cardinality(HighParents(u) \cup {n}) = Cardinality(HighParents(u)) + 1
        /\ Cardinality(LowParents(u) \cup {n}) = Cardinality(LowParents(u)) + 1
    BY <2>1, <2>2, FS_AddElement
  <2>5. Cardinality(HighParents(u)') = Cardinality(HighParents(u)) + (IF sig.high = u THEN 1 ELSE 0)
    BY <1>6, <2>3, <2>4
  <2>6. Cardinality(LowParents(u)') = Cardinality(LowParents(u)) + (IF Magnitude(sig.low) = u THEN 1 ELSE 0)
    <3>1. CASE Magnitude(sig.low) = u
      BY <1>6, <2>3, <2>4, <3>1
    <3>2. CASE Magnitude(sig.low) # u
      BY <1>6, <2>3, <3>2
    <3> QED
      BY <3>1, <3>2
  <2> QED
    BY <2>3, <2>5, <2>6
<1>9. \A u \in live :
        use_count'[u] = use_count[u] + (IF sig.high = u THEN 1 ELSE 0) + (IF Magnitude(sig.low) = u THEN 1 ELSE 0)
  <2>1. use_count \in [live -> Nat]
    BY DEF IInv, TypeOK
  <2>2. \A u \in live : use_count'[u] = WithChildren(sig, use_count)[u]
    BY <1>0, <1>1
  <2> QED
    BY <2>1, <2>2 DEF WithChildren
<1>10. CountsExact'
  <2>1. \A u \in live : /\ shape'[u] = shape[u] /\ held'[u] = held[u] /\ held[u] \in Nat
                         /\ use_count[u] = held[u] + Cardinality(HighParents(u)) + Cardinality(LowParents(u))
                         /\ shape[u].high \in Vertices /\ Magnitude(shape[u].low) \in Vertices
    BY <1>0, <1>1 DEF IInv, CountsExact, TypeOK
  <2>2. \A u \in live : use_count'[u] = held'[u] + Cardinality(HighParents(u)') + Cardinality(LowParents(u)')
    BY <1>8, <1>9, <2>1
  <2>3. use_count'[n] = held'[n] + Cardinality(HighParents(n)') + Cardinality(LowParents(n)')
    BY <1>1, <1>7, FS_EmptySet
  <2>4. shape'[n] = sig /\ Vertices \subseteq Vertices'
    BY <1>1 DEF Vertices
  <2> QED
    BY <1>1, <1>5, <2>1, <2>2, <2>3, <2>4 DEF CountsExact
<1>11. TypeOK'
  <2>1. shape' \in [live' -> Signatures] /\ held' \in [live' -> 0..MaxHeld]
    BY <1>1 DEF IInv, TypeOK
  <2>2. use_count' \in [live' -> Nat]
    <3>1. \A u \in live : use_count'[u] \in Nat
      BY <1>9 DEF IInv, TypeOK
    <3> QED
      BY <1>1, <3>1
  <2>3. bucket' \in [entries' -> Nat] /\ expired' \subseteq entries'
    BY <1>1, <1>p, <1>h
  <2>4. live' \subseteq 2..MaxId /\ next_id' \in 2..MaxId + 1 /\ cleared_at' \in 2..next_id'
    BY <1>0, <1>1 DEF IInv, TypeOK
  <2> QED
    BY <1>1, <1>4, <1>p, <2>1, <2>2, <2>3, <2>4 DEF IInv, TypeOK
<1>12. SizeExact'
  BY <1>4 DEF SizeExact
<1>13. Placed'
  <2>1. \A v \in table_ptr : v \in P.entries \ gone /\ v # n /\ v \in live
    BY <1>p, <1>g, <1>0
  <2> QED
    BY <1>1, <1>p, <2>1 DEF Placed, PlaceIn
<1>14. Distinct'
  BY <1>0, <1>1, <1>2 DEF IInv, Distinct, TypeOK
<1>15. Tracked'
  BY <1>0, <1>1, <1>p DEF IInv, Tracked, TypeOK
<1> QED
  BY <1>3, <1>10, <1>11, <1>12, <1>13, <1>14, <1>15 DEF IInv

-----------------------------------------------------------------------------
LEMMA EmptyMap == \A S : [v \in {} |-> 0] \in [{} -> S]
OBVIOUS

(* A pointer to a vertex comes or goes; the diagram and the table stay.    *)
LEMMA PointerStep ==
  ASSUME IInv, NEW v \in live, Copy(v) \/ Release(v)
  PROVE  IInv'
<1>1. UNCHANGED <<live, shape, table_ptr, entries, expired, bucket, capacity, size, next_id, cleared_at, released>>
  BY DEF Copy, Release, table
<1>2. use_count \in [live -> Nat] /\ held \in [live -> 0..MaxHeld]
  BY DEF IInv, TypeOK
<1>3. \A u \in live : HighParents(u)' = HighParents(u) /\ LowParents(u)' = LowParents(u)
  BY <1>1 DEF HighParents, LowParents
<1>4. \A u \in live : /\ Cardinality(HighParents(u)) \in Nat /\ Cardinality(LowParents(u)) \in Nat
                       /\ use_count[u] = held[u] + Cardinality(HighParents(u)) + Cardinality(LowParents(u))
  BY Finite, FS_CardinalityType DEF IInv, CountsExact
<1>5. /\ use_count' \in [live -> Nat] /\ held' \in [live -> 0..MaxHeld]
      /\ \A u \in live : use_count'[u] - use_count[u] = held'[u] - held[u]
  <2>1. CASE Copy(v)
    <3>1. held[v] + 1 \in 0..MaxHeld /\ use_count[v] + 1 \in Nat
      BY <1>2, <2>1 DEF Copy
    <3>2. held' = [held EXCEPT ![v] = @ + 1] /\ use_count' = [use_count EXCEPT ![v] = @ + 1]
      BY <2>1 DEF Copy, Plus
    <3> QED
      BY <1>2, <3>1, <3>2
  <2>2. CASE Release(v)
    <3>1. held[v] - 1 \in 0..MaxHeld
      BY <1>2, <2>2 DEF Release
    <3>2. use_count[v] - 1 \in Nat
      BY <1>2, <1>4, <2>2 DEF Release
    <3>3. held' = [held EXCEPT ![v] = @ - 1] /\ use_count' = [use_count EXCEPT ![v] = @ - 1]
      BY <2>2 DEF Release
    <3> QED
      BY <1>2, <3>1, <3>2, <3>3
  <2> QED
    BY <2>1, <2>2
<1>6. TypeOK'
  BY <1>1, <1>5 DEF IInv, TypeOK
<1>7. CountsExact'
  <2>1. \A u \in live : use_count'[u] = held'[u] + Cardinality(HighParents(u)) + Cardinality(LowParents(u))
    BY <1>2, <1>4, <1>5
  <2> QED
    BY <1>1, <1>3, <2>1 DEF IInv, CountsExact, Vertices
<1> QED
  BY <1>1, <1>6, <1>7 DEF IInv, PointersAgree, SizeExact, Placed, PlaceIn, Distinct, Tracked

(* The destructor of a vertex nobody points at: no other vertex has it for *)
(* a child, so what is left is closed.                                     *)
LEMMA DestroyStep ==
  ASSUME IInv, NEW v \in live, Destroy(v)
  PROVE  IInv'
<1>1. /\ use_count[v] = 0
      /\ live' = live \ {v}
      /\ shape' = [u \in live \ {v} |-> shape[u]]
      /\ held' = [u \in live \ {v} |-> held[u]]
      /\ table_ptr' = table_ptr \ {v}
      /\ expired' = IF v \in table_ptr THEN expired \cup {v} ELSE expired
      /\ UNCHANGED <<entries, bucket, capacity, size, next_id, cleared_at, released>>
  BY DEF Destroy, Drop, IInv, TypeOK
<1>2. use_count \in [live -> Nat] /\ held \in [live -> 0..MaxHeld] /\ shape \in [live -> Signatures]
  BY DEF IInv, TypeOK
<1>3. \A u \in live : /\ Cardinality(HighParents(u)) \in Nat /\ Cardinality(LowParents(u)) \in Nat
                       /\ use_count[u] = held[u] + Cardinality(HighParents(u)) + Cardinality(LowParents(u))
                       /\ shape[u].high \in Vertices /\ Magnitude(shape[u].low) \in Vertices
  BY Finite, FS_CardinalityType DEF IInv, CountsExact
<1>4. \A u \in live : use_count'[u] = use_count[u] - (IF shape[v].high = u THEN 1 ELSE 0)
                                                  - (IF Magnitude(shape[v].low) = u THEN 1 ELSE 0)
                       \/ u = v
  <2>1. \A u \in live \ {v} : use_count'[u] = WithoutChildren(shape[v], use_count)[u]
    BY <1>2 DEF Destroy, Drop, WithoutChildren
  <2> QED
    BY <1>2, <2>1 DEF WithoutChildren
<1>5. HighParents(v) = {} /\ LowParents(v) = {}
  <2>1. Cardinality(HighParents(v)) = 0 /\ Cardinality(LowParents(v)) = 0
    BY <1>1, <1>2, <1>3
  <2> QED
    BY <2>1, Finite, FS_EmptySet
<1>6. \A u \in live \ {v} :
        /\ HighParents(u)' = HighParents(u) \ {v} /\ (v \in HighParents(u) <=> shape[v].high = u)
        /\ LowParents(u)' = LowParents(u) \ {v} /\ (v \in LowParents(u) <=> Magnitude(shape[v].low) = u)
  BY <1>1 DEF HighParents, LowParents
<1>7. \A u \in live \ {v} :
        /\ Cardinality(HighParents(u)') = Cardinality(HighParents(u)) - (IF shape[v].high = u THEN 1 ELSE 0)
        /\ Cardinality(LowParents(u)') = Cardinality(LowParents(u)) - (IF Magnitude(shape[v].low) = u THEN 1 ELSE 0)
        /\ Cardinality(HighParents(u)') \in Nat /\ Cardinality(LowParents(u)') \in Nat
  <2> TAKE u \in live \ {v}
  <2>1. IsFiniteSet(HighParents(u)) /\ IsFiniteSet(LowParents(u))
    BY Finite
  <2>2. /\ IsFiniteSet(HighParents(u) \ {v})
        /\ Cardinality(HighParents(u) \ {v}) = IF v \in HighParents(u) THEN Cardinality(HighParents(u)) - 1
                                                 ELSE Cardinality(HighParents(u))
        /\ IsFiniteSet(LowParents(u) \ {v})
        /\ Cardinality(LowParents(u) \ {v}) = IF v \in LowParents(u) THEN Cardinality(LowParents(u)) - 1
                                                ELSE Cardinality(LowParents(u))
    BY <2>1, FS_RemoveElement
  <2>3. Cardinality(HighParents(u) \ {v}) \in Nat /\ Cardinality(LowParents(u) \ {v}) \in Nat
    BY <2>2, FS_CardinalityType
  <2>4. Cardinality(HighParents(u)) \in Nat /\ Cardinality(LowParents(u)) \in Nat
    BY <1>3
  <2>5. /\ Cardinality(HighParents(u) \ {v}) = Cardinality(HighParents(u)) - (IF shape[v].high = u THEN 1 ELSE 0)
        /\ Cardinality(LowParents(u) \ {v}) = Cardinality(LowParents(u)) - (IF Magnitude(shape[v].low) = u THEN 1 ELSE 0)
    BY <1>6, <2>2, <2>4
  <2> QED
    BY <1>6, <2>3, <2>5
<1>8. \A u \in live \ {v} :
        use_count'[u] = held[u] + Cardinality(HighParents(u)') + Cardinality(LowParents(u)')
  <2> TAKE u \in live \ {v}
  <2>1. use_count'[u] = use_count[u] - (IF shape[v].high = u THEN 1 ELSE 0)
                                     - (IF Magnitude(shape[v].low) = u THEN 1 ELSE 0)
    BY <1>4
  <2>2. held[u] \in Nat
    BY <1>2
  <2> QED
    BY <1>3, <1>7, <2>1, <2>2
<1>9. CountsExact'
  <2>1. \A u \in live \ {v} : shape[u].high # v /\ Magnitude(shape[u].low) # v
    BY <1>5 DEF HighParents, LowParents
  <2>2. \A u \in live' : shape'[u].high \in Vertices' /\ Magnitude(shape'[u].low) \in Vertices'
    BY <1>1, <1>3, <2>1 DEF Vertices
  <2> QED
    BY <1>1, <1>8, <2>2 DEF CountsExact
<1>10. TypeOK'
  <2>1. use_count' \in [live' -> Nat]
    <3>1. \A u \in live \ {v} : use_count'[u] \in Nat
      BY <1>2, <1>7, <1>8
    <3>2. use_count' = [u \in live \ {v} |-> use_count'[u]]
      BY <1>2 DEF Destroy, Drop, WithoutChildren
    <3> QED
      BY <1>1, <3>1, <3>2
  <2>2. expired' \subseteq entries'
    BY <1>1 DEF IInv, TypeOK, PointersAgree
  <2> QED
    BY <1>1, <2>1, <2>2 DEF IInv, TypeOK
<1>11. PointersAgree'
  BY <1>1 DEF IInv, PointersAgree
<1> QED
  BY <1>1, <1>9, <1>10, <1>11 DEF IInv, TypeOK, SizeExact, Placed, PlaceIn, Distinct, Tracked

(* clear and Release take every entry away and leave the vertices.         *)
LEMMA EmptyingStep ==
  ASSUME IInv, Clear \/ ReleaseTable
  PROVE  IInv'
<1>1. /\ UNCHANGED <<live, shape, use_count, held, capacity, next_id>>
      /\ table_ptr' = table_ptr \ (entries \ expired)
      /\ entries' = {} /\ expired' = {} /\ bucket' = [v \in {} |-> 0]
      /\ cleared_at' = next_id
      /\ (released' /\ size' = size) \/ (released' = released /\ size' = 0)
      /\ released' \in BOOLEAN
  BY DEF Clear, ReleaseTable, DestroyEntries, heap, IInv, TypeOK
<1>2. table_ptr' = {}
  BY <1>1 DEF IInv, PointersAgree
<1>3. \A u \in live : HighParents(u)' = HighParents(u) /\ LowParents(u)' = LowParents(u)
  BY <1>1 DEF HighParents, LowParents
<1>4. CountsExact'
  BY <1>1, <1>3 DEF IInv, CountsExact, Vertices
<1>5. TypeOK'
  <2>1. bucket' \in [entries' -> Nat]
    BY <1>1, EmptyMap
  <2>2. size' \in Nat /\ next_id' \in 2..MaxId + 1 /\ cleared_at' \in 2..next_id'
    BY <1>1 DEF IInv, TypeOK
  <2>3. /\ live' \subseteq 2..MaxId /\ shape' \in [live' -> Signatures] /\ use_count' \in [live' -> Nat]
        /\ held' \in [live' -> 0..MaxHeld] /\ capacity' \in Capacities
    BY <1>1 DEF IInv, TypeOK
  <2> QED
    BY <1>1, <1>2, <2>1, <2>2, <2>3 DEF TypeOK
<1>6. SizeExact'
  BY <1>1, FS_EmptySet DEF SizeExact
<1>7. Tracked'
  BY <1>1 DEF IInv, Tracked, TypeOK
<1> QED
  BY <1>1, <1>2, <1>4, <1>5, <1>6, <1>7 DEF IInv, PointersAgree, Placed, Distinct

-----------------------------------------------------------------------------
LEMMA Initially == Init => IInv
<1> SUFFICES ASSUME Init PROVE IInv
  OBVIOUS
<1>1. /\ shape \in [live -> Signatures] /\ use_count \in [live -> Nat]
      /\ held \in [live -> 0..MaxHeld] /\ bucket \in [entries -> Nat]
  <2>1. /\ live = {} /\ entries = {} /\ shape = [v \in {} |-> 0] /\ use_count = [v \in {} |-> 0]
        /\ held = [v \in {} |-> 0] /\ bucket = [v \in {} |-> 0]
    BY DEF Init
  <2> QED
    BY ONLY <2>1, EmptyMap, Zenon
<1>2. TypeOK
  <2>1. capacity \in Capacities /\ next_id \in 2..MaxId + 1 /\ cleared_at \in 2..next_id
    BY DEF Init
  <2> QED
    BY <1>1, <2>1 DEF Init, TypeOK
<1>3. PointersAgree /\ CountsExact /\ Placed /\ Distinct /\ Tracked
  BY DEF Init, PointersAgree, CountsExact, Placed, Distinct, Tracked
<1>4. SizeExact
  BY FS_EmptySet DEF Init, SizeExact
<1> QED
  BY <1>2, <1>3, <1>4 DEF IInv

LEMMA Inductive == IInv /\ [Next]_vars => IInv'
<1> SUFFICES ASSUME IInv, [Next]_vars
             PROVE  IInv'
  OBVIOUS
<1>1. ASSUME NEW index \in Indices, NEW high \in Vertices, NEW low \in Vertices, NEW complement \in BOOLEAN,
             NEW sig, sig = [index |-> index, high |-> high, low |-> IF complement THEN -low ELSE low],
             Find(sig) \/ Add(sig)
      PROVE  IInv'
  <2>1. Vertices \subseteq 0..MaxId
    BY DEF Vertices, IInv, TypeOK
  <2>2. (IF complement THEN -low ELSE low) \in -MaxId..MaxId
    BY <2>1
  <2>3. sig \in Signatures
    BY <1>1, <2>1, <2>2 DEF Signatures
  <2> QED
    BY <1>1, <2>3, FindStep, AddStep
<1>2. ASSUME NEW v \in live, Copy(v) \/ Release(v) \/ Destroy(v) PROVE IInv'
  BY <1>2, PointerStep, DestroyStep
<1>3. CASE Clear \/ ReleaseTable
  BY <1>3, EmptyingStep
<1>4. CASE UNCHANGED vars
  <2>1. \A u \in live : HighParents(u)' = HighParents(u) /\ LowParents(u)' = LowParents(u)
    BY <1>4 DEF HighParents, LowParents, vars, heap
  <2>2. CountsExact'
    BY <1>4, <2>1 DEF vars, heap, IInv, CountsExact, Vertices
  <2> QED
    BY <1>4, <2>2 DEF vars, heap, table, IInv, TypeOK, PointersAgree, SizeExact, Placed, PlaceIn, Distinct, Tracked
<1> QED
  BY <1>1, <1>2, <1>3, <1>4 DEF Next

(* The invariant the other theorems follow from.                           *)
THEOREM Invariant == Spec => []IInv
BY Initially, Inductive, PTL DEF Spec

(* Two live vertices made since the table was last cleared never have one  *)
(* signature (bdd.h:338): the diagram stays reduced.                       *)
THEOREM StaysReduced == Spec => []Reduced
<1>1. IInv => Reduced
  BY DEF IInv, Tracked, Distinct, Reduced
<1> QED
  BY Invariant, <1>1, PTL

(* Neither a weak pointer nor a vertex's pointer to its entry dangles      *)
(* (bdd.h:97, 197).                                                        *)
THEOREM NothingDangles == Spec => []PointersAgree
<1>1. IInv => PointersAgree
  BY DEF IInv
<1> QED
  BY Invariant, <1>1, PTL

(* Every vertex counts exactly the pointers to it (bdd.h:150-169).         *)
THEOREM ReferenceCountsExact == Spec => []CountsExact
<1>1. IInv => CountsExact
  BY DEF IInv
<1> QED
  BY Invariant, <1>1, PTL

(* The table counts its entries exactly (bdd.h:401-424).                   *)
THEOREM TableSizeExact == Spec => []SizeExact
<1>1. IInv => SizeExact
  BY DEF IInv
<1> QED
  BY Invariant, <1>1, PTL

-----------------------------------------------------------------------------
node == [sig \in Known |-> CHOOSE v \in table_ptr : shape[v] = sig]

(* The table maps the signature of a registered vertex to that vertex.     *)
LEMMA Lookup ==
  ASSUME Distinct, NEW v \in table_ptr
  PROVE  shape[v] \in Known /\ node[shape[v]] = v
<1>1. shape[v] \in Known
  BY DEF Known
<1>2. (CHOOSE w \in table_ptr : shape[w] = shape[v]) = v
  BY DEF Distinct
<1> QED
  BY <1>1, <1>2 DEF node

LEMMA StoreStep == IInv /\ [Next]_vars => [Store!Next]_<<node, next_id>>
<1> SUFFICES ASSUME IInv, [Next]_vars
             PROVE  Store!Next \/ UNCHANGED <<node, next_id>>
  BY DEF node
<1>0. IInv' /\ Distinct /\ Distinct'
  BY Inductive DEF IInv
<1>1. ASSUME UNCHANGED <<shape, table_ptr, next_id>>
      PROVE  UNCHANGED <<node, next_id>>
  BY <1>1 DEF node, Known
<1>2. ASSUME NEW sig \in Signatures, Add(sig), NEW n, n = next_id
      PROVE  Store!Intern(sig)
  <2>1. /\ table_ptr' = table_ptr \cup {n} /\ next_id' = n + 1 /\ n \notin table_ptr
        /\ shape'[n] = sig /\ \A v \in table_ptr : shape'[v] = shape[v]
    BY <1>2 DEF Add, IInv, TypeOK, Tracked
  <2>2. sig \notin Known
    <3>1. {v \in table_ptr : shape[v] = sig} = {}
      BY <1>2, SearchComplete DEF Add
    <3> QED
      BY <3>1 DEF Known
  <2>3. Known' = Known \cup {sig}
    BY <2>1 DEF Known
  <2>4. \A v \in table_ptr : node'[shape[v]] = v /\ node[shape[v]] = v
    <3> TAKE v \in table_ptr
    <3>1. node[shape[v]] = v
      BY <1>0, Lookup
    <3>2. v \in table_ptr' /\ (CHOOSE w \in table_ptr' : shape'[w] = shape'[v]) = v
      BY <1>0, <2>1 DEF Distinct
    <3> QED
      BY <2>1, <2>3, <3>1, <3>2 DEF node, Known
  <2>5. node'[sig] = n
    <3>1. (CHOOSE w \in table_ptr' : shape'[w] = sig) = n
      BY <1>0, <2>1 DEF Distinct
    <3> QED
      BY <2>3, <3>1 DEF node
  <2>6. node' = [s \in Known \cup {sig} |-> IF s = sig THEN next_id ELSE node[s]]
    <3>1. \A s \in Known : node'[s] = node[s]
      BY <2>4 DEF Known
    <3>2. node' = [s \in Known' |-> node'[s]]
      BY DEF node
    <3> QED
      BY <1>2, <2>2, <2>3, <2>5, <3>1, <3>2
  <2>7. DOMAIN node = Known
    BY DEF node
  <2> QED
    BY <1>2, <2>1, <2>2, <2>6, <2>7 DEF Store!Intern, node
<1>3. ASSUME NEW v \in live, Destroy(v), v \in table_ptr, NEW sig, sig = shape[v]
      PROVE  Store!Forget(sig)
  <2>1. /\ table_ptr' = table_ptr \ {v} /\ next_id' = next_id
        /\ \A u \in table_ptr \ {v} : shape'[u] = shape[u]
    BY <1>3 DEF Destroy, Drop, IInv, TypeOK
  <2>2. Known' = Known \ {shape[v]}
    <3>1. \A u \in table_ptr \ {v} : shape[u] # shape[v]
      BY <1>0, <1>3 DEF Distinct
    <3> QED
      BY <2>1, <3>1 DEF Known
  <2>3. \A u \in table_ptr \ {v} : node'[shape[u]] = node[shape[u]]
    <3> TAKE u \in table_ptr \ {v}
    <3>1. node[shape[u]] = u
      BY <1>0, Lookup
    <3>2. u \in table_ptr' /\ (CHOOSE w \in table_ptr' : shape'[w] = shape'[u]) = u
      BY <1>0, <2>1 DEF Distinct
    <3>3. shape'[u] = shape[u] /\ shape'[u] \in Known'
      BY <2>1, <3>2 DEF Known
    <3> QED
      BY <3>1, <3>2, <3>3 DEF node
  <2>4. node' = [s \in Known \ {shape[v]} |-> node[s]]
    <3>1. \A s \in Known' : node'[s] = node[s]
      BY <2>1, <2>3 DEF Known
    <3>2. node' = [s \in Known' |-> node'[s]]
      BY DEF node
    <3> QED
      BY <2>2, <3>1, <3>2
  <2>5. DOMAIN node = Known
    BY DEF node
  <2> QED
    BY <1>3, <2>1, <2>4, <2>5 DEF Store!Forget, node
<1>4. ASSUME NEW v \in live, Destroy(v), v \notin table_ptr
      PROVE  UNCHANGED <<node, next_id>>
  <2>1. table_ptr' = table_ptr /\ next_id' = next_id /\ \A u \in table_ptr : shape'[u] = shape[u]
    BY <1>4 DEF Destroy, Drop, IInv, TypeOK
  <2>2. Known' = Known
    BY <2>1 DEF Known
  <2>3. \A s \in Known : node'[s] = node[s]
    <3> SUFFICES ASSUME NEW u \in table_ptr PROVE node'[shape[u]] = node[shape[u]]
      BY DEF Known
    <3>1. node[shape[u]] = u
      BY <1>0, Lookup
    <3>2. u \in table_ptr' /\ (CHOOSE w \in table_ptr' : shape'[w] = shape'[u]) = u
      BY <1>0, <2>1 DEF Distinct
    <3>3. shape'[u] = shape[u] /\ shape'[u] \in Known'
      BY <2>1, <3>2 DEF Known
    <3> QED
      BY <3>1, <3>2, <3>3 DEF node
  <2>4. node = [s \in Known |-> node[s]] /\ node' = [s \in Known' |-> node'[s]]
    BY DEF node
  <2> QED
    BY <2>1, <2>2, <2>3, <2>4
<1>5. ASSUME Clear \/ ReleaseTable
      PROVE  Store!Reset
  <2>1. table_ptr' = {} /\ next_id' = next_id
    BY <1>5 DEF Clear, ReleaseTable, DestroyEntries, IInv, PointersAgree
  <2>2. Known' = {}
    BY <2>1 DEF Known
  <2>3. node' = [s \in {} |-> 0]
    BY <2>2 DEF node
  <2> QED
    BY <2>1, <2>3 DEF Store!Reset, node
<1>6. ASSUME NEW sig \in Signatures, Find(sig) PROVE UNCHANGED <<node, next_id>>
  BY <1>1, <1>6 DEF Find
<1>7. ASSUME NEW v \in live, Copy(v) \/ Release(v) PROVE UNCHANGED <<node, next_id>>
  BY <1>1, <1>7 DEF Copy, Release
<1>8. ASSUME NEW v \in live, Destroy(v) PROVE Store!Next \/ UNCHANGED <<node, next_id>>
  <2>1. shape[v] \in Signatures
    BY DEF IInv, TypeOK
  <2>2. CASE v \in table_ptr
    <3>1. PICK s \in Signatures : s = shape[v]
      BY <2>1
    <3>2. Store!Forget(s)
      BY <1>3, <1>8, <2>2, <3>1
    <3> QED
      BY <3>2 DEF Store!Next
  <2>3. CASE v \notin table_ptr
    BY <1>4, <1>8, <2>3
  <2> QED
    BY <2>2, <2>3
<1>9. ASSUME NEW index \in Indices, NEW high \in Vertices, NEW low \in Vertices, NEW complement \in BOOLEAN,
             NEW sig, sig = [index |-> index, high |-> high, low |-> IF complement THEN -low ELSE low],
             Find(sig) \/ Add(sig)
      PROVE  Store!Next \/ UNCHANGED <<node, next_id>>
  <2>1. Vertices \subseteq 0..MaxId
    BY DEF Vertices, IInv, TypeOK
  <2>2. (IF complement THEN -low ELSE low) \in -MaxId..MaxId
    BY <2>1
  <2>3. sig \in Signatures
    BY <1>9, <2>1, <2>2 DEF Signatures
  <2> QED
    BY <1>2, <1>6, <1>9, <2>3 DEF Store!Next
<1>10. CASE UNCHANGED vars
  BY <1>1, <1>10 DEF vars, heap
<1> QED
  BY <1>5, <1>7, <1>8, <1>9, <1>10 DEF Next, Store!Next

(* To a diagram the weak-pointer table, with its expired entries, its      *)
(* rehashing and its opportunistic clean-up, is a hash-consing store: no   *)
(* signature it knows is ever added again (bdd.h:421-443).                 *)
THEOREM ImplementsHashConsing == Spec => ConsesSignatures
<1>1. Init => Store!Init
  <2> SUFFICES ASSUME Init PROVE Store!Init
    OBVIOUS
  <2>1. table_ptr = {} /\ next_id = 2
    BY DEF Init
  <2>2. Known = {}
    BY <2>1 DEF Known
  <2> QED
    BY <2>1, <2>2 DEF Store!Init
<1> QED
  BY <1>1, Invariant, StoreStep, PTL DEF Spec, ConsesSignatures, Store!Spec, node
=============================================================================
