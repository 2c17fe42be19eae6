------------------------------ MODULE CacheTable ------------------------------
(***************************************************************************)
(* The memo of Apply (src/src/bdd.h): a hash table without collision       *)
(* resolution.  An entry goes where its key hashes and pushes out whatever *)
(* was there, so the table forgets, but it may never mix the key of one    *)
(* computation with the result of another.                                 *)
(***************************************************************************)
EXTENDS Integers, FiniteSets

CONSTANTS
  Keys, Results,
  Capacities, InitCapacity,
  PrimeAtLeast(_),   \* the capacity made for a wish (GetPrimeNumber)
  Hash(_),           \* the hash value of a key
  MaxRequest         \* bound: the entries asked of reserve

Slots(capacity) == 0..capacity - 1

ASSUME CapacitiesAssumption ==
  /\ Capacities \subseteq Nat \ {0}
  /\ InitCapacity \in Capacities
  /\ MaxRequest \in Nat
ASSUME HashAssumption == \A key \in Keys : Hash(key) \in Nat

VARIABLES
  slots,      \* the occupied slots: slot -> [key, result]
  capacity,   \* slots in all; 0 once the memory is freed
  size,
  latest      \* key -> the result last stored for it since clear (history)

vars == <<slots, capacity, size, latest>>

-----------------------------------------------------------------------------
SlotOf(key, buckets) == Hash(key) % buckets

Overloaded == 4 * size >= 3 * capacity

(* Seeded defect: a key moves into a slot that keeps its first result.     *)
Mixed(buckets) ==
  LET Meeting(j) == {i \in DOMAIN slots : SlotOf(slots[i].key, buckets) = j}
      Last(j) == CHOOSE i \in Meeting(j) : \A k \in Meeting(j) : k <= i
      First(j) == CHOOSE i \in Meeting(j) : \A k \in Meeting(j) : i <= k
  IN [j \in {SlotOf(slots[i].key, buckets) : i \in DOMAIN slots} |->
        [key |-> slots[Last(j)].key, result |-> slots[First(j)].result]]

(* Rehash scans the old table upwards: of the entries that meet in a new   *)
(* slot the last one stays.                                                *)
Rehashed(buckets) ==
  LET Meeting(j) == {i \in DOMAIN slots : SlotOf(slots[i].key, buckets) = j}
      Last(j) == CHOOSE i \in Meeting(j) : \A k \in Meeting(j) : k <= i
  IN [j \in {SlotOf(slots[i].key, buckets) : i \in DOMAIN slots} |-> slots[Last(j)]]

Init ==
  /\ slots = [i \in {} |-> 0]
  /\ capacity = InitCapacity
  /\ size = 0
  /\ latest = [key \in {} |-> 0]

Usable == capacity > 0

(* What find returns for a key: the slot, or none.                         *)
Hits(key) == {i \in DOMAIN slots : i = SlotOf(key, capacity) /\ slots[i].key = key}

(* Seeded defect: a purged entry is counted with the new one.              *)
PutAndCount(before, buckets, count, key, result) ==
  LET i == SlotOf(key, buckets)
  IN
  /\ slots' = [j \in DOMAIN before \cup {i} |->
                 IF j = i THEN [key |-> key, result |-> result] ELSE before[j]]
  /\ size' = count + 1
  /\ capacity' = buckets

(* The tail of emplace: the slot of the key is overwritten.                *)
Put(before, buckets, count, key, result) ==
  LET i == SlotOf(key, buckets)
  IN
  /\ slots' = [j \in DOMAIN before \cup {i} |->
                 IF j = i THEN [key |-> key, result |-> result] ELSE before[j]]
  /\ size' = IF i \in DOMAIN before THEN count ELSE count + 1
  /\ capacity' = buckets

Remember(key, result) ==
  latest' = [k \in DOMAIN latest \cup {key} |-> IF k = key THEN result ELSE latest[k]]

(* emplace while the table is under its load.                              *)
Emplace(key, result) ==
  /\ Usable /\ ~Overloaded
  /\ Put(slots, capacity, size, key, result)
  /\ Remember(key, result)

(* Seeded defect: the result is lost when the table grows.                 *)
GrowOnly(key, result) ==
  LET buckets == PrimeAtLeast(2 * capacity)
  IN
  /\ Usable /\ Overloaded
  /\ buckets \in Capacities
  /\ slots' = Rehashed(buckets)
  /\ size' = Cardinality(DOMAIN Rehashed(buckets))
  /\ capacity' = buckets
  /\ Remember(key, result)

(* emplace that doubles the table first.                                   *)
EmplaceGrowing(key, result) ==
  LET buckets == PrimeAtLeast(2 * capacity)
  IN
  /\ Usable /\ Overloaded
  /\ buckets \in Capacities
  /\ Put(Rehashed(buckets), buckets, Cardinality(DOMAIN Rehashed(buckets)), key, result)
  /\ Remember(key, result)

(* reserve(n) for more entries than there are: n / 0.75 + 1, truncated.    *)
Reserve(n) ==
  LET buckets == PrimeAtLeast((4 * n) \div 3 + 1)
  IN
  /\ Usable
  /\ n > size
  /\ buckets \in Capacities
  /\ slots' = Rehashed(buckets)
  /\ size' = Cardinality(DOMAIN Rehashed(buckets))
  /\ capacity' = buckets
  /\ UNCHANGED latest

(* reserve(0) frees the memory of an empty table; of another it does       *)
(* nothing.                                                                *)
Free ==
  /\ Usable
  /\ size = 0
  /\ capacity' = 0
  /\ slots' = [i \in {} |-> 0]
  /\ UNCHANGED <<size, latest>>

(* clear is harmless on a freed table too.                                *)
Clear ==
  /\ slots' = [i \in {} |-> 0]
  /\ size' = 0
  /\ latest' = [key \in {} |-> 0]
  /\ UNCHANGED capacity

Next ==
  \/ \E key \in Keys, result \in Results : Emplace(key, result) \/ EmplaceGrowing(key, result)
  \/ \E n \in 1..MaxRequest : Reserve(n)
  \/ Free
  \/ Clear

Spec == Init /\ [][Next]_vars

-----------------------------------------------------------------------------
(* The table's entries lie inside its memory and the sizes are numbers.    *)
TypeOK ==
  /\ capacity \in Capacities \cup {0}
  /\ DOMAIN slots \subseteq Slots(capacity)
  /\ slots \in [DOMAIN slots -> [key : Keys, result : Results]]
  /\ size \in Nat
  /\ latest \in [DOMAIN latest -> Results]
  /\ DOMAIN latest \subseteq Keys

(* bdd.h:623: whatever was purged, moved or met in a rehash, a hit on a    *)
(* key is the result that was last stored under that very key and not      *)
(* cleared since.                                                          *)
HitsAreCurrent ==
  \A key \in Keys : \A i \in Hits(key) :
    key \in DOMAIN latest /\ slots[i].result = latest[key]

(* bdd.h:675: an entry lies where its key hashes in the current capacity,  *)
(* so a key has at most one entry and find looks at the only slot.         *)
EntriesInPlace == \A i \in DOMAIN slots : i = SlotOf(slots[i].key, capacity)

(* bdd.h:649 and bdd.h:671: size_ counts the occupied slots, through purges*)
(* and through the collisions of a rehash: the load is never overestimated.*)
SizeExact == size = Cardinality(DOMAIN slots)

(* bdd.h:642: what was just computed is found at once, whether the table   *)
(* was grown for it, a slot was free or another result was pushed out.     *)
LatestSurvives ==
  [][\A key \in Keys :
       (key \in DOMAIN latest' /\ (key \notin DOMAIN latest \/ latest'[key] /= latest[key]))
         => \E i \in DOMAIN slots' : slots'[i] = [key |-> key, result |-> latest'[key]]]_vars
=============================================================================
