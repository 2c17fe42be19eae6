--------------------------- MODULE CacheTableProofs ---------------------------
(***************************************************************************)
(* The memo of Apply never confuses two computations, for every hash       *)
(* function, every set of keys and every growth of the table.              *)
(***************************************************************************)
EXTENDS CacheTable, FiniteSetTheorems, WellFoundedInduction, TLAPS

(* Every entry, reachable by find or not, is the current one of its key.   *)
Current == \A i \in DOMAIN slots :
             slots[i].key \in DOMAIN latest /\ slots[i].result = latest[slots[i].key]

IInv == TypeOK /\ EntriesInPlace /\ SizeExact /\ Current

Entry == [key : Keys, result : Results]

(* A table of some capacity whose entries are current and in place.        *)
WellPlaced(t, buckets) ==
  /\ DOMAIN t \subseteq Slots(buckets)
  /\ t \in [DOMAIN t -> Entry]
  /\ \A i \in DOMAIN t :
       /\ i = SlotOf(t[i].key, buckets)
       /\ t[i].key \in DOMAIN latest
       /\ t[i].result = latest[t[i].key]

USE CapacitiesAssumption, HashAssumption

-----------------------------------------------------------------------------
LEMMA SlotInTable ==
  ASSUME NEW key \in Keys, NEW buckets \in Capacities
  PROVE  SlotOf(key, buckets) \in Slots(buckets)
BY DEF SlotOf, Slots

LEMMA FiniteTable ==
  ASSUME NEW t, NEW n \in Nat, DOMAIN t \subseteq Slots(n)
  PROVE  IsFiniteSet(DOMAIN t) /\ Cardinality(DOMAIN t) \in Nat
<1>1. IsFiniteSet(Slots(n))
  BY FS_Interval DEF Slots
<1> QED
  BY <1>1, FS_Subset, FS_CardinalityType

(* Of the slots whose entries meet in a bucket there is a last one.        *)
LEMMA LastOf ==
  ASSUME NEW n \in Nat, NEW M, M \subseteq Slots(n), M /= {}
  PROVE  \E i \in M : \A k \in M : k <= i
<1> DEFINE T == {n - 1 - i : i \in M}
<1>1. T \subseteq Nat /\ T /= {}
  BY DEF Slots
<1> HIDE DEF T
<1>2. PICK x \in T : \A y \in T : ~(<<y, x>> \in OpToRel(<, Nat))
  BY <1>1, WFMin, NatLessThanWellFounded
<1>3. \A y \in T : ~(y < x)
  BY <1>1, <1>2 DEF OpToRel
<1>4. PICK i \in M : x = n - 1 - i
  BY DEF T
<1>5. \A k \in M : n - 1 - k \in T
  BY DEF T
<1>6. \A k \in M : k <= i
  BY <1>3, <1>4, <1>5 DEF Slots
<1> QED
  BY <1>6

(* bdd.h:660-676: a rehash loses entries and moves the others, and what it *)
(* keeps is current and in place.                                          *)
LEMMA RehashedTable ==
  ASSUME IInv, NEW buckets \in Capacities
  PROVE  WellPlaced(Rehashed(buckets), buckets)
<1> DEFINE Meeting(j) == {i \in DOMAIN slots : SlotOf(slots[i].key, buckets) = j}
           Last(j) == CHOOSE i \in Meeting(j) : \A k \in Meeting(j) : k <= i
           D == {SlotOf(slots[i].key, buckets) : i \in DOMAIN slots}
<1>1. capacity \in Nat /\ DOMAIN slots \subseteq Slots(capacity)
  BY DEF IInv, TypeOK
<1>2. \A i \in DOMAIN slots : slots[i] \in Entry
  BY DEF IInv, TypeOK, Entry
<1>3. ASSUME NEW j \in D PROVE Last(j) \in DOMAIN slots /\ SlotOf(slots[Last(j)].key, buckets) = j
  <2>1. Meeting(j) /= {} /\ Meeting(j) \subseteq Slots(capacity)
    BY <1>1
  <2> HIDE DEF Meeting
  <2>2. \E i \in Meeting(j) : \A k \in Meeting(j) : k <= i
    BY <1>1, <2>1, LastOf
  <2>3. Last(j) \in Meeting(j)
    BY <2>2
  <2> QED
    BY <2>3 DEF Meeting
<1>4. Rehashed(buckets) = [j \in D |-> slots[Last(j)]]
  BY DEF Rehashed
<1> HIDE DEF Last
<1>5. D \subseteq Slots(buckets)
  BY <1>2, SlotInTable DEF Entry
<1> HIDE DEF D
<1>6. \A j \in D : slots[Last(j)] \in Entry
  BY <1>2, <1>3
<1>7. \A j \in D : /\ slots[Last(j)].key \in DOMAIN latest
                   /\ slots[Last(j)].result = latest[slots[Last(j)].key]
  BY <1>3 DEF IInv, Current
<1> QED
  BY <1>3, <1>4, <1>5, <1>6, <1>7 DEF WellPlaced

(* The tail of emplace on any such table.                                  *)
LEMMA PutInto ==
  ASSUME NEW t, NEW buckets \in Capacities, WellPlaced(t, buckets),
         NEW key \in Keys, NEW result \in Results,
         TypeOK,
         Put(t, buckets, Cardinality(DOMAIN t), key, result),
         Remember(key, result)
  PROVE  IInv'
<1> DEFINE i == SlotOf(key, buckets)
           D == DOMAIN t \cup {i}
<1>1. i \in Slots(buckets) /\ DOMAIN t \subseteq Slots(buckets)
  BY SlotInTable DEF WellPlaced
<1>2. capacity' = buckets /\ DOMAIN slots' = D
  BY DEF Put
<1>3. slots'[i] = [key |-> key, result |-> result]
  BY DEF Put
<1>4. \A j \in D : j /= i => j \in DOMAIN t /\ slots'[j] = t[j]
  BY DEF Put
<1>5. /\ DOMAIN latest' = DOMAIN latest \cup {key}
      /\ latest'[key] = result
      /\ \A k \in DOMAIN latest : k /= key => latest'[k] = latest[k]
  BY DEF Remember
<1>6. latest' \in [DOMAIN latest' -> Results] /\ DOMAIN latest' \subseteq Keys
  <2>1. latest \in [DOMAIN latest -> Results] /\ DOMAIN latest \subseteq Keys
    BY DEF TypeOK
  <2> QED
    BY <2>1 DEF Remember
<1>7. slots' \in [D -> Entry]
  <2>1. \A j \in DOMAIN t : t[j] \in Entry
    BY DEF WellPlaced
  <2>2. [key |-> key, result |-> result] \in Entry
    BY DEF Entry
  <2> QED
    BY <2>1, <2>2 DEF Put
<1>8. size' = Cardinality(D) /\ size' \in Nat
  <2>1. IsFiniteSet(DOMAIN t) /\ Cardinality(DOMAIN t) \in Nat
    BY <1>1, FiniteTable
  <2>2. CASE i \in DOMAIN t
    <3>1. D = DOMAIN t
      BY <2>2
    <3>2. size' = Cardinality(DOMAIN t)
      BY <2>2 DEF Put
    <3> QED
      BY <2>1, <3>1, <3>2
  <2>3. CASE i \notin DOMAIN t
    <3>1. Cardinality(D) = Cardinality(DOMAIN t) + 1
      BY <2>1, <2>3, FS_AddElement
    <3>2. size' = Cardinality(DOMAIN t) + 1
      BY <2>3 DEF Put
    <3> QED
      BY <2>1, <3>1, <3>2
  <2> QED
    BY <2>2, <2>3
<1>9. \A j \in D : j = SlotOf(slots'[j].key, buckets)
  BY <1>3, <1>4 DEF WellPlaced
<1>10. \A j \in D : /\ slots'[j].key \in DOMAIN latest'
                    /\ slots'[j].result = latest'[slots'[j].key]
  <2>1. ASSUME NEW j \in D, j /= i
        PROVE  /\ slots'[j].key \in DOMAIN latest'
               /\ slots'[j].result = latest'[slots'[j].key]
    <3>1. slots'[j] = t[j] /\ j \in DOMAIN t
      BY <1>4, <2>1
    <3>2. j = SlotOf(t[j].key, buckets) /\ t[j].key \in DOMAIN latest /\ t[j].result = latest[t[j].key]
      BY <3>1 DEF WellPlaced
    <3>3. t[j].key /= key
      BY <2>1, <3>2
    <3> QED
      BY <1>5, <3>1, <3>2, <3>3
  <2>2. slots'[i].key \in DOMAIN latest' /\ slots'[i].result = latest'[slots'[i].key]
    BY <1>3, <1>5
  <2> QED
    BY <2>1, <2>2
<1> HIDE DEF i, D
<1>11. D \subseteq Slots(buckets)
  BY <1>1 DEF D
<1>12. TypeOK'
  BY <1>2, <1>6, <1>7, <1>8, <1>11 DEF TypeOK, Entry
<1>13. EntriesInPlace'
  BY <1>2, <1>9 DEF EntriesInPlace
<1>14. SizeExact'
  BY <1>2, <1>8 DEF SizeExact
<1>15. Current'
  BY <1>2, <1>10 DEF Current
<1> QED
  BY <1>12, <1>13, <1>14, <1>15 DEF IInv

LEMMA EmptyTable == \A S : [i \in {} |-> 0] \in [{} -> S] /\ DOMAIN [i \in {} |-> 0] = {}
BY ONLY Zenon

-----------------------------------------------------------------------------
(* A table without entries satisfies the invariant at any capacity.        *)
Cleared ==
  /\ slots = [i \in {} |-> 0] /\ size = 0 /\ capacity \in Capacities \cup {0}
  /\ latest \in [DOMAIN latest -> Results] /\ DOMAIN latest \subseteq Keys

LEMMA EmptyInv == Cleared => IInv
<1> SUFFICES ASSUME Cleared PROVE IInv
  OBVIOUS
<1> USE DEF Cleared
<1>1. DOMAIN slots = {} /\ slots \in [DOMAIN slots -> Entry]
  BY EmptyTable
<1>2. TypeOK
  BY <1>1 DEF TypeOK, Entry
<1>3. EntriesInPlace /\ Current
  BY <1>1 DEF EntriesInPlace, Current
<1>4. SizeExact
  BY <1>1, FS_EmptySet DEF SizeExact
<1> QED
  BY <1>2, <1>3, <1>4 DEF IInv

LEMMA InitInv == Init => IInv
<1> SUFFICES ASSUME Init PROVE IInv
  OBVIOUS
<1>1. latest \in [DOMAIN latest -> Results] /\ DOMAIN latest \subseteq Keys
  BY EmptyTable DEF Init
<1> QED
  BY <1>1, EmptyInv DEF Init, Cleared

LEMMA NextInv == IInv /\ [Next]_vars => IInv'
<1> SUFFICES ASSUME IInv, [Next]_vars PROVE IInv'
  OBVIOUS
<1>0. TypeOK
  BY DEF IInv
<1>1. WellPlaced(slots, capacity) /\ size = Cardinality(DOMAIN slots)
  BY DEF IInv, TypeOK, EntriesInPlace, SizeExact, Current, WellPlaced, Entry
<1>2. ASSUME NEW key \in Keys, NEW result \in Results, Emplace(key, result)
      PROVE  IInv'
  <2>1. capacity \in Capacities
    BY <1>0, <1>2 DEF Emplace, Usable, TypeOK
  <2> QED
    BY <1>0, <1>1, <1>2, <2>1, PutInto DEF Emplace
<1>3. ASSUME NEW key \in Keys, NEW result \in Results, EmplaceGrowing(key, result)
      PROVE  IInv'
  <2> DEFINE buckets == PrimeAtLeast(2 * capacity)
  <2>1. /\ buckets \in Capacities
        /\ Put(Rehashed(buckets), buckets, Cardinality(DOMAIN Rehashed(buckets)), key, result)
        /\ Remember(key, result)
    BY <1>3 DEF EmplaceGrowing
  <2> HIDE DEF buckets
  <2> QED
    BY <1>0, <2>1, RehashedTable, PutInto
<1>4. ASSUME NEW n \in 1..MaxRequest, Reserve(n)
      PROVE  IInv'
  <2> DEFINE buckets == PrimeAtLeast((4 * n) \div 3 + 1)
  <2>1. /\ buckets \in Capacities
        /\ slots' = Rehashed(buckets)
        /\ size' = Cardinality(DOMAIN Rehashed(buckets))
        /\ capacity' = buckets
        /\ latest' = latest
    BY <1>4 DEF Reserve
  <2> HIDE DEF buckets
  <2>2. WellPlaced(slots', capacity')
    BY <2>1, RehashedTable DEF WellPlaced
  <2>3. size' \in Nat
    BY <2>1, <2>2, FiniteTable DEF WellPlaced
  <2>4. latest' \in [DOMAIN latest' -> Results] /\ DOMAIN latest' \subseteq Keys
    BY <1>0, <2>1 DEF TypeOK
  <2>5. TypeOK'
    BY <2>1, <2>2, <2>3, <2>4 DEF TypeOK, WellPlaced, Entry
  <2>6. EntriesInPlace' /\ SizeExact' /\ Current'
    BY <2>1, <2>2 DEF EntriesInPlace, SizeExact, Current, WellPlaced
  <2> QED
    BY <2>5, <2>6 DEF IInv
<1>5. ASSUME Free PROVE IInv'
  <2>1. /\ slots' = [i \in {} |-> 0] /\ size' = 0 /\ capacity' \in Capacities \cup {0}
        /\ latest' \in [DOMAIN latest' -> Results] /\ DOMAIN latest' \subseteq Keys
    BY <1>0, <1>5 DEF Free, TypeOK
  <2>2. Cleared'
    BY <2>1 DEF Cleared
  <2> QED
    BY <2>2, EmptyInv, PTL
<1>6. ASSUME Clear PROVE IInv'
  <2>1. /\ slots' = [i \in {} |-> 0] /\ size' = 0 /\ capacity' \in Capacities \cup {0}
        /\ latest' \in [DOMAIN latest' -> Results] /\ DOMAIN latest' \subseteq Keys
    BY <1>0, <1>6, EmptyTable DEF Clear, TypeOK
  <2>2. Cleared'
    BY <2>1 DEF Cleared
  <2> QED
    BY <2>2, EmptyInv, PTL
<1>7. ASSUME UNCHANGED vars PROVE IInv'
  BY <1>7 DEF vars, IInv, TypeOK, EntriesInPlace, SizeExact, Current
<1> QED
  BY <1>2, <1>3, <1>4, <1>5, <1>6, <1>7 DEF Next

(* The table keeps its shape and its memory of results for ever.           *)
THEOREM Invariant == Spec => []IInv
BY InitInv, NextInv, PTL DEF Spec

(* bdd.h:623: a hit is the result last stored under that key since clear.  *)
THEOREM NeverConfuses == Spec => []HitsAreCurrent
<1>1. IInv => HitsAreCurrent
  BY DEF IInv, Current, HitsAreCurrent, Hits
<1> QED
  BY <1>1, Invariant, PTL

(* bdd.h:649-675: the size is the number of occupied slots.                *)
THEOREM CountsItsEntries == Spec => []SizeExact
<1>1. IInv => SizeExact
  BY DEF IInv
<1> QED
  BY <1>1, Invariant, PTL
(* What LatestSurvives says of one step.                                   *)
Survives ==
  \A key \in Keys :
    (key \in DOMAIN latest' /\ (key \notin DOMAIN latest \/ latest'[key] /= latest[key]))
      => \E i \in DOMAIN slots' : slots'[i] = [key |-> key, result |-> latest'[key]]

(* The tail of emplace, whatever the table was before: the new result is   *)
(* in its slot and no other one is remembered anew.                        *)
LEMMA PutSurvives ==
  ASSUME NEW t, NEW buckets, NEW count, NEW key \in Keys, NEW result \in Results,
         Put(t, buckets, count, key, result), Remember(key, result)
  PROVE  Survives
<1> DEFINE i == SlotOf(key, buckets)
<1>1. i \in DOMAIN slots' /\ slots'[i] = [key |-> key, result |-> result]
  BY DEF Put
<1>2. /\ latest'[key] = result
      /\ \A k \in DOMAIN latest' : k /= key => k \in DOMAIN latest /\ latest'[k] = latest[k]
  BY DEF Remember
<1> QED
  BY <1>1, <1>2 DEF Survives

(* bdd.h:642: every result that is remembered anew is found at once, in    *)
(* all histories of growth and of forgetting.                              *)
THEOREM NewestIsKept == Spec => LatestSurvives
<1>1. [Next]_vars => [Survives]_vars
  <2> SUFFICES ASSUME Next PROVE Survives
    OBVIOUS
  <2>1. CASE \E key \in Keys, result \in Results : Emplace(key, result)
    BY <2>1, PutSurvives DEF Emplace
  <2>2. CASE \E key \in Keys, result \in Results : EmplaceGrowing(key, result)
    BY <2>2, PutSurvives DEF EmplaceGrowing
  <2>3. CASE (\E n \in 1..MaxRequest : Reserve(n)) \/ Free
    <3>1. latest' = latest
      BY <2>3 DEF Reserve, Free
    <3> QED
      BY <3>1 DEF Survives
  <2>4. CASE Clear
    BY <2>4, EmptyTable DEF Clear, Survives
  <2> QED
    BY <2>1, <2>2, <2>3, <2>4 DEF Next
<1> QED
  BY <1>1, PTL DEF Spec, LatestSurvives, Survives
=============================================================================
