----------------------------- MODULE UniqueTable -----------------------------
(***************************************************************************)
(* The store of decision-diagram vertices (src/src/bdd.h): vertices that   *)
(* count the intrusive pointers to them, and the hash table of weak        *)
(* pointers through which a diagram finds the vertex of a signature.  A    *)
(* vertex and its table entry point at each other; whichever dies first    *)
(* must clear the pointer of the other.                                    *)
(*                                                                         *)
(* The entry of a vertex is named by the id of that vertex: an entry is    *)
(* made for one vertex, in the call that makes the vertex, and ids are not *)
(* reused.  The order of the entries inside a chain is left out.           *)
(***************************************************************************)
EXTENDS Integers, FiniteSets

CONSTANTS
  Indices,          \* indices of variables, gates and modules
  Terminals,        \* ids of the terminals: {1} for a BDD, {0, 1} for a ZBDD
  Capacities,       \* the numbers of buckets a table can have
  InitCapacity,     \* the one it starts with
  NextCapacity(_),  \* the one it grows to
  Hash(_),          \* the hash value of a signature
  MaxId,            \* bound: the largest id given to a vertex
  MaxHeld           \* bound: the pointers to a vertex from outside the diagram

Signatures == [index : Indices, high : 0..MaxId, low : -MaxId..MaxId]

ASSUME TerminalsAssumption == Terminals \subseteq {0, 1}
ASSUME BoundsAssumption == MaxId \in Nat \ {0, 1} /\ MaxHeld \in Nat \ {0}
ASSUME CapacitiesAssumption ==
  /\ Capacities \subseteq Nat \ {0}
  /\ InitCapacity \in Capacities
  /\ \A buckets \in Capacities : NextCapacity(buckets) \in Capacities
ASSUME HashAssumption == \A sig \in Signatures : Hash(sig) \in Nat

VARIABLES
  live,        \* ids of the vertices that exist
  shape,       \* id -> signature: index, id of high, id of low (negative: complement edge)
  use_count,   \* id -> intrusive pointers to the vertex
  held,        \* id -> those of them that are outside the diagram
  table_ptr,   \* ids of the vertices whose table_ptr_ is set
  entries,     \* ids whose entry is in the table
  expired,     \* those of them whose weak pointer is null
  bucket,      \* id -> the bucket its entry was put in
  capacity, size,
  next_id,     \* function_id_ of a BDD, set_id_ of a ZBDD
  cleared_at,  \* next_id when the table was last cleared (history)
  released     \* the table's memory has been given up

heap == <<live, shape, use_count, held>>
table == <<entries, expired, bucket, capacity, size>>
vars == <<heap, table_ptr, table, next_id, cleared_at, released>>

-----------------------------------------------------------------------------
Vertices == live \cup Terminals

Magnitude(id) == IF id < 0 THEN -id ELSE id

(* The vertices that point at an id: one that has it as its high and as    *)
(* its low holds two pointers to it.                                       *)
HighParents(id) == {v \in live : shape[v].high = id}
LowParents(id) == {v \in live : Magnitude(shape[v].low) = id}

(* No destructor is running: every call below starts in such a state.      *)
Quiet == \A v \in live : use_count[v] > 0

(* The table holds three entries for every four buckets at most.           *)
Overloaded == 4 * size >= 3 * capacity

PlaceIn(sig, buckets) == Hash(sig) % buckets

(* Seeded defect: the entries stay in the buckets of the old capacity.     *)
RehashedInPlace(buckets) ==
  [entries |-> entries \ expired,
   bucket |-> [v \in entries \ expired |-> bucket[v]],
   size |-> Cardinality(entries \ expired),
   capacity |-> buckets,
   expired |-> {}]

(* The entries after Rehash: the expired ones are not moved.               *)
Rehashed(buckets) ==
  [entries |-> entries \ expired,
   bucket |-> [v \in entries \ expired |-> PlaceIn(shape[v], buckets)],
   size |-> Cardinality(entries \ expired),
   capacity |-> buckets,
   expired |-> {}]

Prepared ==
  IF Overloaded
  THEN Rehashed(NextCapacity(capacity))
  ELSE [entries |-> entries, bucket |-> bucket, size |-> size,
        capacity |-> capacity, expired |-> expired]

Chain(t, sig) == {v \in t.entries : t.bucket[v] = PlaceIn(sig, t.capacity)}

Matches(t, sig) == {v \in Chain(t, sig) \ t.expired : shape[v] = sig}

(* Counting pointers up and down.                                          *)
Plus(count, id) == [count EXCEPT ![id] = @ + 1]

(* Seeded defect: equal children are counted once.                         *)
WithChildrenOnce(sig, count) ==
  [v \in DOMAIN count |->
     count[v] + (IF sig.high = v \/ Magnitude(sig.low) = v THEN 1 ELSE 0)]

WithChildren(sig, count) ==
  [v \in DOMAIN count |->
     count[v] + (IF sig.high = v THEN 1 ELSE 0)
              + (IF Magnitude(sig.low) = v THEN 1 ELSE 0)]

WithoutChildren(sig, count) ==
  [v \in DOMAIN count |->
     count[v] - (IF sig.high = v THEN 1 ELSE 0)
              - (IF Magnitude(sig.low) = v THEN 1 ELSE 0)]

Drop(f, id) == [v \in DOMAIN f \ {id} |-> f[v]]

-----------------------------------------------------------------------------
Init ==
  /\ live = {}
  /\ shape = [v \in {} |-> 0]
  /\ use_count = [v \in {} |-> 0]
  /\ held = [v \in {} |-> 0]
  /\ table_ptr = {}
  /\ entries = {}
  /\ expired = {}
  /\ bucket = [v \in {} |-> 0]
  /\ capacity = InitCapacity
  /\ size = 0
  /\ next_id = 2
  /\ cleared_at = 2
  /\ released = FALSE

(* The caller of FindOrAddVertex holds pointers to both children.          *)
Holds(id) == id \in Terminals \/ (id \in live /\ held[id] > 0)

(* Seeded defect: the search does not take back what it erased.            *)
InstallsUncounted(t, gone) ==
  /\ entries' = t.entries \ gone
  /\ expired' = t.expired \ gone
  /\ bucket' = [v \in t.entries \ gone |-> t.bucket[v]]
  /\ size' = t.size
  /\ capacity' = t.capacity

Installs(t, gone) ==
  /\ entries' = t.entries \ gone
  /\ expired' = t.expired \ gone
  /\ bucket' = [v \in t.entries \ gone |-> t.bucket[v]]
  /\ size' = t.size - Cardinality(gone)
  /\ capacity' = t.capacity

(* FindOrAddVertex on a signature that is in the table: the search erases  *)
(* the expired entries it passes before the match, and the weak pointer is *)
(* locked.                                                                 *)
Find(sig) ==
  /\ ~released /\ Quiet
  /\ Holds(sig.high) /\ Holds(Magnitude(sig.low))
  /\ \E v \in Matches(Prepared, sig), gone \in SUBSET (Chain(Prepared, sig) \cap Prepared.expired) :
       /\ held[v] < MaxHeld
       /\ Installs(Prepared, gone)
       /\ use_count' = Plus(use_count, v)
       /\ held' = Plus(held, v)
  /\ UNCHANGED <<live, shape, table_ptr, next_id, cleared_at, released>>

(* FindOrAddVertex on a new signature: the whole chain is searched, an     *)
(* entry is added, the vertex made and the two are linked.                 *)
Add(sig) ==
  LET gone == Chain(Prepared, sig) \cap Prepared.expired
      kept == Prepared.entries \ gone
  IN
  /\ ~released /\ Quiet
  /\ next_id <= MaxId
  /\ Holds(sig.high) /\ Holds(Magnitude(sig.low))
  /\ Matches(Prepared, sig) = {}
  /\ live' = live \cup {next_id}
  /\ shape' = [v \in live' |-> IF v = next_id THEN sig ELSE shape[v]]
  /\ use_count' = [v \in live' |-> IF v = next_id THEN 1 ELSE WithChildren(sig, use_count)[v]]
  /\ held' = [v \in live' |-> IF v = next_id THEN 1 ELSE held[v]]
  /\ table_ptr' = table_ptr \cup {next_id}
  /\ entries' = kept \cup {next_id}
  /\ expired' = Prepared.expired \ gone
  /\ bucket' = [v \in kept \cup {next_id} |->
                  IF v = next_id THEN PlaceIn(sig, Prepared.capacity) ELSE Prepared.bucket[v]]
  /\ size' = Prepared.size - Cardinality(gone) + 1
  /\ capacity' = Prepared.capacity
  /\ next_id' = next_id + 1
  /\ UNCHANGED <<cleared_at, released>>

(* Copying an intrusive pointer to a vertex that is reachable.             *)
Copy(v) ==
  /\ Quiet
  /\ held[v] < MaxHeld
  /\ use_count' = Plus(use_count, v)
  /\ held' = Plus(held, v)
  /\ UNCHANGED <<live, shape, table_ptr, table, next_id, cleared_at, released>>

(* Dropping one: the last of them starts the destructor.                   *)
Release(v) ==
  /\ Quiet
  /\ held[v] > 0
  /\ held' = [held EXCEPT ![v] = @ - 1]
  /\ use_count' = [use_count EXCEPT ![v] = @ - 1]
  /\ UNCHANGED <<live, shape, table_ptr, table, next_id, cleared_at, released>>

(* Seeded defect: the vertex dies without a word to its table entry.       *)
DestroySilently(v) ==
  /\ use_count[v] = 0
  /\ live' = live \ {v}
  /\ shape' = Drop(shape, v)
  /\ use_count' = Drop(WithoutChildren(shape[v], use_count), v)
  /\ held' = Drop(held, v)
  /\ table_ptr' = table_ptr \ {v}
  /\ UNCHANGED expired
  /\ UNCHANGED <<entries, bucket, capacity, size, next_id, cleared_at, released>>

(* The destructor of a vertex without pointers: its children lose one      *)
(* pointer each and the entry, if there is one, becomes null.              *)
Destroy(v) ==
  /\ use_count[v] = 0
  /\ live' = live \ {v}
  /\ shape' = Drop(shape, v)
  /\ use_count' = Drop(WithoutChildren(shape[v], use_count), v)
  /\ held' = Drop(held, v)
  /\ table_ptr' = table_ptr \ {v}
  /\ expired' = IF v \in table_ptr THEN expired \cup {v} ELSE expired
  /\ UNCHANGED <<entries, bucket, capacity, size, next_id, cleared_at, released>>

(* clear and Release destroy every weak pointer, and each of them tells    *)
(* its vertex.  Only clear resets the size.                                *)
DestroyEntries ==
  /\ table_ptr' = table_ptr \ (entries \ expired)
  /\ entries' = {}
  /\ expired' = {}
  /\ bucket' = [v \in {} |-> 0]
  /\ UNCHANGED <<heap, capacity, next_id>>

Clear ==
  /\ ~released /\ Quiet
  /\ DestroyEntries
  /\ size' = 0
  /\ cleared_at' = next_id
  /\ UNCHANGED released

ReleaseTable ==
  /\ ~released /\ Quiet
  /\ DestroyEntries
  /\ UNCHANGED size
  /\ cleared_at' = next_id
  /\ released' = TRUE

Next ==
  \/ \E index \in Indices, high \in Vertices, low \in Vertices, complement \in BOOLEAN :
       LET sig == [index |-> index, high |-> high, low |-> IF complement THEN -low ELSE low]
       IN Find(sig) \/ Add(sig)
  \/ \E v \in live : Copy(v) \/ Release(v) \/ Destroy(v)
  \/ Clear
  \/ ReleaseTable

Spec == Init /\ [][Next]_vars

-----------------------------------------------------------------------------
(* The store's variables keep to their ranges and the per-vertex maps are  *)
(* defined exactly on the live vertices.                                   *)
TypeOK ==
  /\ live \subseteq 2..MaxId
  /\ shape \in [live -> Signatures]
  /\ use_count \in [live -> Nat]
  /\ held \in [live -> 0..MaxHeld]
  /\ table_ptr \subseteq live
  /\ expired \subseteq entries
  /\ bucket \in [entries -> Nat]
  /\ capacity \in Capacities
  /\ size \in Nat
  /\ next_id \in 2..MaxId + 1
  /\ cleared_at \in 2..next_id
  /\ released \in BOOLEAN

(* bdd.h:97 and bdd.h:197: a weak pointer is null exactly when its vertex  *)
(* is gone, and a vertex points at the table exactly while its entry is    *)
(* there: neither side dangles.                                            *)
PointersAgree ==
  /\ expired = entries \ live
  /\ table_ptr = entries \cap live

(* bdd.h:338: the table keeps the diagram reduced.  Two vertices made      *)
(* since the table was last cleared are never the same function, whatever  *)
(* was destroyed, rehashed or looked up in between.                        *)
Reduced ==
  \A v, w \in live :
    v >= cleared_at /\ w >= cleared_at /\ shape[v] = shape[w] => v = w

(* A child of a live vertex is alive, and every vertex counts exactly its  *)
(* pointers (bdd.h:150-169): nothing is destroyed early, nothing leaks.    *)
CountsExact ==
  \A v \in live :
    /\ shape[v].high \in Vertices /\ Magnitude(shape[v].low) \in Vertices
    /\ use_count[v] = held[v] + Cardinality(HighParents(v)) + Cardinality(LowParents(v))

(* size_ is the number of entries, the expired ones included, so that the  *)
(* load that triggers rehashing is the true one (bdd.h:401-424).           *)
SizeExact == released \/ size = Cardinality(entries)

(* The table is a hash-consing store: a signature it knows is found, never *)
(* added again, and it is forgotten only with its vertex or with the table.*)
Known == {shape[v] : v \in table_ptr}

Store == INSTANCE HashConsing WITH
  Signature <- Signatures,
  node <- [sig \in Known |-> CHOOSE v \in table_ptr : shape[v] = sig],
  fresh <- next_id

ConsesSignatures == Store!Spec
=============================================================================
