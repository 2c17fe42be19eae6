------------------------ MODULE CycleDetectionProofs ------------------------
(***************************************************************************)
(* The check for cycles accepts no graph with a cycle and refuses none     *)
(* without, for every set of nodes and every graph over them.              *)
(***************************************************************************)
EXTENDS CycleDetection, SequenceTheorems, TLAPS

(* The types of a search, in whatever graph.                               *)
SearchTyped ==
  /\ args \in [Nodes -> Seq(Nodes)]
  /\ mark \in [Nodes -> {"clear", "temporary", "permanent"}]
  /\ stack \in Seq(Calls)
  /\ \A i \in DOMAIN stack : stack[i].next <= Len(args[stack[i].node]) + 1
  /\ untried \subseteq Nodes
  /\ cycle \in Seq(Nodes)
  /\ phase \in {"search", "report", "cycle", "acyclic"}

(* A call waits at the argument whose call is on top of it.                *)
Linked ==
  \A i \in 1..(Len(stack) - 1) :
    /\ stack[i].next <= Len(args[stack[i].node])
    /\ args[stack[i].node][stack[i].next] = stack[i + 1].node

Distinct ==
  \A i, j \in 1..Len(stack) : stack[i].node = stack[j].node => i = j

(* The arguments a call has behind it are done with.                       *)
Visited ==
  phase = "search" =>
    \A i \in 1..Len(stack) : \A j \in 1..(stack[i].next - 1) :
      args[stack[i].node][j] \in Permanent

Closed == \A n \in Permanent : Arguments(n) \subseteq Permanent

Tried(container) ==
  phase = "search" => \A n \in container \ untried : mark[n] /= "clear"

(* A report on its way out: the node that is to close it is still to come, *)
(* and the top call goes on with it.                                       *)
IsOpen ==
  /\ Len(cycle) >= 1
  /\ \E k \in 1..Len(stack) : stack[k].node = cycle[1]
  /\ stack /= <<>> => cycle[Len(cycle)] \in Arguments(Top.node)
  /\ \A i \in 1..(Len(cycle) - 1) : cycle[i] \in Arguments(cycle[i + 1])
  /\ \A i, j \in 1..Len(cycle) : cycle[i] = cycle[j] => i = j
  /\ \A i \in 2..Len(cycle) : \A k \in 1..Len(stack) : cycle[i] /= stack[k].node

(* What a search keeps true, for the nodes of whatever container.          *)
SearchInv(container) ==
  /\ SearchTyped
  /\ MarksOnStack
  /\ Linked
  /\ Distinct
  /\ Visited
  /\ Closed
  /\ Acyclic(Permanent)
  /\ Tried(container)
  /\ phase = "acyclic" => container \subseteq Permanent
  /\ phase = "report" => IsOpen \/ IsCycle(cycle)
  /\ ReportsACycle

-----------------------------------------------------------------------------
(* The stack without its top.                                              *)
LEMMA PoppedFacts ==
  ASSUME stack \in Seq(Calls), stack /= <<>>
  PROVE  /\ Len(stack) \in Nat /\ Len(stack) >= 1
         /\ Popped \in Seq(Calls)
         /\ Len(Popped) = Len(stack) - 1
         /\ \A i \in 1..(Len(stack) - 1) : Popped[i] = stack[i]
<1>1. PICK n \in Nat \ {0} : n = Len(stack)
  BY EmptySeq
<1>2. \A i \in 1..(n - 1) : stack[i] \in Calls
  BY <1>1, ElementOfSeq
<1>3. /\ SubSeq(stack, 1, n - 1) \in Seq(Calls)
      /\ Len(SubSeq(stack, 1, n - 1)) = IF 1 <= n - 1 THEN n - 1 - 1 + 1 ELSE 0
      /\ \A i \in 1..(n - 1 - 1 + 1) : SubSeq(stack, 1, n - 1)[i] = stack[1 + i - 1]
  BY <1>2, SubSeqProperties
<1>4. Popped = SubSeq(stack, 1, n - 1)
  BY <1>1 DEF Popped
<1>5. (IF 1 <= n - 1 THEN n - 1 - 1 + 1 ELSE 0) = n - 1
  OBVIOUS
<1>6. ASSUME NEW i \in 1..(n - 1) PROVE Popped[i] = stack[i]
  <2>1. i \in 1..(n - 1 - 1 + 1) /\ 1 + i - 1 = i
    OBVIOUS
  <2> QED
    BY <1>3, <1>4, <2>1, Zenon
<1>7. Popped \in Seq(Calls) /\ Len(Popped) = n - 1
  BY <1>3, <1>4, <1>5, Zenon
<1> QED
  BY <1>1, <1>6, <1>7

(* A stack whose top call goes on: only its next argument changes.         *)
LEMMA AdvancedFacts ==
  ASSUME NEW calls \in Seq(Calls)
  PROVE  /\ Len(calls) \in Nat
         /\ Advanced(calls) \in Seq(Calls)
         /\ Len(Advanced(calls)) = Len(calls)
         /\ \A i \in 1..Len(calls) :
              /\ Advanced(calls)[i].node = calls[i].node
              /\ Advanced(calls)[i].next =
                   IF i = Len(calls) THEN calls[i].next + 1 ELSE calls[i].next
<1>1. CASE calls = <<>>
  BY <1>1, EmptySeq DEF Advanced
<1>2. CASE calls /= <<>>
  <2> DEFINE last == Len(calls)
             call == [calls[last] EXCEPT !.next = @ + 1]
  <2>1. last \in Nat \ {0}
    BY <1>2, EmptySeq
  <2>2. \A i \in 1..last : calls[i] \in Calls
    BY <2>1, ElementOfSeq
  <2>3. /\ call \in Calls
        /\ call.node = calls[last].node
        /\ call.next = calls[last].next + 1
    <3>1. PICK c \in Calls : c = calls[last]
      BY <2>1, <2>2
    <3>2. c.next + 1 \in Nat \ {0}
      BY DEF Calls
    <3>3. call = [c EXCEPT !.next = c.next + 1]
      BY <3>1
    <3> QED
      BY <3>1, <3>2, <3>3 DEF Calls
  <2>4. Advanced(calls) = [calls EXCEPT ![last] = call]
    BY <1>2 DEF Advanced
  <2>5. /\ Advanced(calls) \in Seq(Calls)
        /\ Len(Advanced(calls)) = last
        /\ \A j \in 1..last : Advanced(calls)[j] = IF j = last THEN call ELSE calls[j]
    BY <2>1, <2>3, <2>4, ExceptSeq
  <2> QED
    BY <2>1, <2>3, <2>5
<1> QED
  BY <1>1, <1>2

(* The places of a sequence that loses its last element.                   *)
LEMMA Places ==
  ASSUME NEW n \in Nat, n >= 1
  PROVE  /\ \A i \in 1..n : i = n \/ i \in 1..(n - 1)
         /\ \A i \in 1..(n - 1) : i \in 1..n /\ i /= n /\ i + 1 \in 1..n
         /\ \A i \in 1..(n - 1 - 1) :
              i \in 1..(n - 1) /\ i /= n - 1 /\ i + 1 \in 1..(n - 1)
         /\ \A i \in 1..(n - 1) : i = n - 1 => i + 1 = n
  OBVIOUS

(* A call on the stack and the arguments of its node.                      *)
LEMMA CallFacts ==
  ASSUME SearchTyped, NEW i \in 1..Len(stack)
  PROVE  /\ stack[i].node \in Nodes
         /\ stack[i].next \in Nat \ {0}
         /\ stack[i].next <= Len(args[stack[i].node]) + 1
         /\ Len(args[stack[i].node]) \in Nat
         /\ \A j \in 1..Len(args[stack[i].node]) :
              /\ args[stack[i].node][j] \in Nodes
              /\ args[stack[i].node][j] \in Arguments(stack[i].node)
<1>1. stack[i] \in Calls
  BY ElementOfSeq DEF SearchTyped
<1>2. stack[i].node \in Nodes /\ stack[i].next \in Nat \ {0}
  BY <1>1 DEF Calls
<1>3. args \in [Nodes -> Seq(Nodes)]
  BY DEF SearchTyped
<1>4. args[stack[i].node] \in Seq(Nodes)
  BY <1>2, <1>3
<1>5. DOMAIN stack = 1..Len(stack)
  BY LenProperties DEF SearchTyped
<1>6. DOMAIN args[stack[i].node] = 1..Len(args[stack[i].node])
  BY <1>4, LenProperties
<1>7. \A j \in 1..Len(args[stack[i].node]) : args[stack[i].node][j] \in Nodes
  BY <1>4, ElementOfSeq
<1> QED
  BY <1>2, <1>4, <1>5, <1>6, <1>7, LenProperties DEF SearchTyped, Arguments

(* A node whose arguments are in a set without cycles, closed, that the    *)
(* node is not in, may join the set.                                       *)
LEMMA JoinAcyclic ==
  ASSUME NEW set \in SUBSET Nodes, NEW n \in Nodes \ set,
         Acyclic(set), \A m \in set : Arguments(m) \subseteq set,
         Arguments(n) \subseteq set
  PROVE  Acyclic(set \cup {n})
<1> SUFFICES ASSUME NEW part \in SUBSET (set \cup {n}), part /= {}
             PROVE  \E m \in part : Arguments(m) \cap part = {}
  BY DEF Acyclic
<1>1. CASE part \ {n} = {}
  <2>1. part = {n}
    BY <1>1
  <2> QED
    BY <2>1
<1>2. CASE part \ {n} /= {}
  <2>1. part \ {n} \in (SUBSET set) \ {{}}
    BY <1>2
  <2>2. PICK m \in part \ {n} : Arguments(m) \cap (part \ {n}) = {}
    BY <2>1 DEF Acyclic
  <2>3. n \notin Arguments(m)
    BY <2>1, <2>2
  <2> QED
    BY <2>2, <2>3
<1> QED
  BY <1>1, <1>2

-----------------------------------------------------------------------------
(* A search starts with no call and no mark.                               *)
Idle ==
  /\ args \in [Nodes -> Seq(Nodes)]
  /\ mark = [n \in Nodes |-> "clear"]
  /\ stack = <<>> /\ cycle = <<>> /\ phase = "search"

LEMMA IdleSearch ==
  ASSUME NEW container \in SUBSET Nodes, Idle, untried \in SUBSET Nodes, container \subseteq untried
  PROVE  SearchInv(container)
<1>1. stack \in Seq(Calls) /\ Len(stack) = 0 /\ cycle \in Seq(Nodes)
  BY EmptySeq DEF Idle
<1>2. DOMAIN stack = 1..Len(stack)
  BY <1>1, LenProperties
<1>3. SearchTyped
  BY <1>1, <1>2 DEF Idle, SearchTyped
<1>4. Permanent = {}
  BY DEF Idle, Permanent
<1>5. Acyclic(Permanent) /\ Closed
  BY <1>4 DEF Acyclic, Closed
<1>6. Linked /\ Distinct /\ Visited /\ Tried(container)
  BY <1>1 DEF Linked, Distinct, Visited, Tried
<1>7. MarksOnStack
  BY <1>1, <1>2 DEF Idle, MarksOnStack
<1> QED
  BY <1>3, <1>4, <1>5, <1>6, <1>7 DEF SearchInv, Idle, ReportsACycle

(* What the top of a search relies on.                                     *)
LEMMA TopFacts ==
  ASSUME NEW container \in SUBSET Nodes, SearchInv(container), stack /= <<>>
  PROVE  /\ Len(stack) \in Nat /\ Len(stack) >= 1
         /\ DOMAIN stack = 1..Len(stack)
         /\ Top.node \in Nodes
         /\ Top.next \in Nat \ {0}
         /\ Top.next <= Len(args[Top.node]) + 1
<1>1. stack \in Seq(Calls) /\ SearchTyped
  BY DEF SearchInv, SearchTyped
<1>2. Len(stack) \in Nat /\ Len(stack) >= 1 /\ DOMAIN stack = 1..Len(stack)
  BY <1>1, PoppedFacts, LenProperties
<1>3. Len(stack) \in 1..Len(stack)
  BY <1>2
<1> QED
  BY <1>1, <1>2, <1>3, CallFacts DEF Top

(* Marks that do not become permanent leave the accepted part as it is.    *)
LEMMA SamePart ==
  ASSUME NEW container \in SUBSET Nodes, SearchInv(container), args' = args, Permanent' = Permanent
  PROVE  /\ Closed'
         /\ Acyclic(Permanent)'
         /\ \A n : Arguments(n)' = Arguments(n)
<1>1. \A n : Arguments(n)' = Arguments(n)
  BY DEF Arguments
<1>2. Closed /\ Acyclic(Permanent)
  BY DEF SearchInv
<1>3. Closed'
  BY <1>1, <1>2 DEF Closed
<1>4. Acyclic(Permanent)'
  BY <1>1, <1>2 DEF Acyclic
<1> QED
  BY <1>1, <1>3, <1>4

(* The first call on a node without a mark (cycle.h:217-218, 132-134).     *)
LEMMA CheckCycleStep ==
  ASSUME NEW container \in SUBSET Nodes, SearchInv(container), CheckCycle
  PROVE  SearchInv(container)'
<1>1. PICK n \in untried :
        /\ untried' = untried \ {n}
        /\ \/ /\ mark[n] = "clear"
              /\ mark' = [mark EXCEPT ![n] = "temporary"]
              /\ stack' = <<Call(n)>>
           \/ /\ mark[n] = "permanent"
              /\ UNCHANGED <<mark, stack>>
  BY DEF CheckCycle
<1>2. /\ phase = "search" /\ phase' = "search" /\ stack = <<>>
      /\ args' = args /\ cycle' = cycle
      /\ SearchTyped /\ n \in Nodes
  BY <1>1 DEF CheckCycle, SearchInv, SearchTyped
<1>3. Len(stack) = 0 /\ DOMAIN stack = {}
  BY <1>2, EmptySeq
<1>4. \A m \in Nodes : mark[m] /= "temporary"
  BY <1>2, <1>3 DEF SearchInv, MarksOnStack
<1>5. CASE mark[n] = "permanent"
  <2>1. mark' = mark /\ stack' = stack
    BY <1>1, <1>5
  <2> QED
    <3>1. Permanent' = Permanent
      BY <2>1 DEF Permanent
    <3>2. Closed' /\ Acyclic(Permanent)'
      BY <1>2, <3>1, SamePart
    <3>3. SearchTyped' /\ MarksOnStack'
      BY <1>1, <1>2, <2>1 DEF SearchInv, SearchTyped, MarksOnStack
    <3>4. Linked' /\ Distinct' /\ Visited'
      BY <1>2, <1>3, <2>1 DEF Linked, Distinct, Visited
    <3>5. Tried(container)'
      BY <1>1, <1>2, <1>5, <2>1 DEF SearchInv, Tried
    <3> QED
      BY <1>2, <3>2, <3>3, <3>4, <3>5 DEF SearchInv, ReportsACycle
<1>6. CASE mark[n] = "clear"
  <2>1. /\ mark' = [mark EXCEPT ![n] = "temporary"]
        /\ stack' = <<Call(n)>>
    BY <1>1, <1>6
  <2>2. Call(n) \in Calls /\ Call(n).node = n /\ Call(n).next = 1
    BY <1>2 DEF Call, Calls
  <2>3. /\ stack' \in Seq(Calls) /\ Len(stack') = 1
        /\ DOMAIN stack' = {1} /\ stack'[1] = Call(n)
    BY <2>1, <2>2
  <2>4. SearchTyped'
    BY <1>1, <1>2, <2>1, <2>2, <2>3 DEF SearchTyped
  <2>5. Permanent' = Permanent
    BY <1>2, <1>6, <2>1 DEF Permanent, SearchTyped
  <2>6. Closed' /\ Acyclic(Permanent)'
    BY <1>2, <2>5, SamePart
  <2>7. MarksOnStack'
    BY <1>2, <1>4, <2>1, <2>2, <2>3 DEF MarksOnStack, SearchTyped
  <2>8. Linked' /\ Distinct' /\ Visited'
    BY <2>2, <2>3 DEF Linked, Distinct, Visited
  <2>9. Tried(container)'
    BY <1>1, <1>2, <2>1 DEF SearchInv, Tried, SearchTyped
  <2> QED
    BY <1>2, <2>4, <2>5, <2>6, <2>7, <2>8, <2>9 DEF SearchInv, ReportsACycle
<1> QED
  BY <1>1, <1>5, <1>6

(* The next argument of the top call (cycle.h:151-154): it is called, has  *)
(* been seen through, or closes a cycle with the calls above its own.      *)
LEMMA ContinueStep ==
  ASSUME NEW container \in SUBSET Nodes, SearchInv(container), ContinueConnector
  PROVE  SearchInv(container)'
<1> DEFINE last == Len(stack)
           n == args[Top.node][Top.next]
<1>1. /\ phase = "search" /\ stack /= <<>>
      /\ Top.next <= Len(args[Top.node])
      /\ args' = args /\ untried' = untried
  BY DEF ContinueConnector
<1>2. /\ last \in Nat /\ last >= 1 /\ last \in 1..last
      /\ DOMAIN stack = 1..last /\ stack[last] = Top
      /\ Top.node \in Nodes /\ Top.next \in Nat \ {0}
      /\ SearchTyped /\ stack \in Seq(Calls)
  <2>1. /\ last \in Nat /\ last >= 1 /\ DOMAIN stack = 1..last
        /\ Top.node \in Nodes /\ Top.next \in Nat \ {0}
    BY <1>1, TopFacts
  <2>2. SearchTyped /\ stack \in Seq(Calls)
    BY DEF SearchInv, SearchTyped
  <2> QED
    BY <2>1, <2>2 DEF Top
<1>3. n \in Nodes /\ n \in Arguments(Top.node)
  BY <1>1, <1>2, CallFacts
<1>4. \A i \in 1..last : stack[i].node \in Nodes
  BY <1>2, CallFacts
<1>5. /\ \A m \in Nodes : mark[m] = "temporary" <=> \E i \in 1..last : stack[i].node = m
      /\ \A i, j \in 1..last : stack[i].node = stack[j].node => i = j
      /\ Linked /\ Visited /\ Tried(container)
  BY <1>1, <1>2 DEF SearchInv, MarksOnStack
<1>6. CASE mark[n] = "clear"
  <2>1. /\ mark' = [mark EXCEPT ![n] = "temporary"]
        /\ stack' = Append(stack, Call(n))
        /\ cycle' = cycle /\ phase' = phase
    BY <1>6 DEF ContinueConnector
  <2>2. Call(n) \in Calls /\ Call(n).node = n /\ Call(n).next = 1
    BY <1>3 DEF Call, Calls
  <2>3. /\ stack' \in Seq(Calls) /\ Len(stack') = last + 1
        /\ \A i \in 1..last : stack'[i] = stack[i]
        /\ stack'[last + 1] = Call(n)
    BY <1>2, <2>1, <2>2, AppendProperties
  <2>4. DOMAIN stack' = 1..(last + 1)
    BY <2>3, LenProperties
  <2>5. SearchTyped'
    <3>1. \A i \in 1..(last + 1) : stack'[i].next <= Len(args[stack'[i].node]) + 1
      <4>1. ASSUME NEW i \in 1..last PROVE stack'[i].next <= Len(args[stack'[i].node]) + 1
        BY <1>2, <2>3, CallFacts
      <4>2. stack'[last + 1].next <= Len(args[stack'[last + 1].node]) + 1
        <5>1. args[n] \in Seq(Nodes)
          BY <1>2, <1>3 DEF SearchTyped
        <5>2. Len(args[n]) \in Nat
          BY <5>1, LenProperties
        <5> QED
          BY <2>2, <2>3, <5>2
      <4> QED
        BY <1>2, <4>1, <4>2
    <3>2. mark' \in [Nodes -> {"clear", "temporary", "permanent"}]
      BY <1>2, <2>1 DEF SearchTyped
    <3> QED
      BY <1>1, <1>2, <2>1, <2>3, <2>4, <3>1, <3>2 DEF SearchTyped
  <2>6. Permanent' = Permanent
    BY <1>2, <1>3, <1>6, <2>1 DEF Permanent, SearchTyped
  <2>7. Closed' /\ Acyclic(Permanent)'
    BY <1>1, <2>6, SamePart
  <2>8. \A i \in 1..last : stack[i].node /= n
    BY <1>3, <1>5, <1>6
  <2>9. /\ \A m \in Nodes : mark'[m] = "temporary" <=> \E i \in 1..(last + 1) : stack'[i].node = m
        /\ \A i, j \in 1..(last + 1) : stack'[i].node = stack'[j].node => i = j
    <3>1. \A i \in 1..(last + 1) : i \in 1..last \/ i = last + 1
      BY <1>2
    <3>2. \A i \in 1..last : i \in 1..(last + 1) /\ stack'[i].node = stack[i].node
      BY <1>2, <2>3
    <3>3. stack'[last + 1].node = n /\ last + 1 \in 1..(last + 1)
      BY <1>2, <2>2, <2>3
    <3>4. \A m \in Nodes : mark'[m] = "temporary" <=> m = n \/ mark[m] = "temporary"
      BY <1>2, <1>3, <2>1 DEF SearchTyped
    <3> QED
      BY <1>5, <2>8, <3>1, <3>2, <3>3, <3>4
  <2>10. MarksOnStack' /\ Distinct'
    BY <2>3, <2>4, <2>9 DEF MarksOnStack, Distinct
  <2>11. Linked'
    <3> SUFFICES ASSUME NEW i \in 1..(Len(stack') - 1)
                 PROVE  /\ stack'[i].next <= Len(args'[stack'[i].node])
                        /\ args'[stack'[i].node][stack'[i].next] = stack'[i + 1].node
      BY DEF Linked
    <3>0. i = last \/ i < last
      <4> HIDE DEF last
      <4>1. last \in Nat /\ i \in 1..(last + 1 - 1)
        BY <1>2, <2>3
      <4> QED
        BY <4>1
    <3>1. CASE i = last
      BY <1>1, <1>2, <2>2, <2>3, <3>1
    <3>2. CASE i < last
      <4>1. i \in 1..(last - 1) /\ i + 1 \in 1..last /\ i \in 1..last
        BY <1>2, <2>3, <3>2
      <4> QED
        BY <1>1, <1>5, <2>3, <4>1 DEF Linked
    <3> QED
      BY <3>0, <3>1, <3>2
  <2>12. Visited'
    <3> SUFFICES ASSUME NEW i \in 1..(last + 1), NEW j \in 1..(stack'[i].next - 1)
                 PROVE  args[stack'[i].node][j] \in Permanent
      BY <1>1, <2>3, <2>6 DEF Visited
    <3>1. i \in 1..last
      BY <1>2, <2>2, <2>3
    <3> QED
      BY <1>1, <1>5, <2>3, <3>1 DEF Visited
  <2>13. Tried(container)'
    BY <1>1, <1>2, <1>3, <1>5, <2>1 DEF Tried, SearchTyped
  <2> QED
    BY <1>1, <2>1, <2>5, <2>7, <2>10, <2>11, <2>12, <2>13 DEF SearchInv, ReportsACycle
<1>7. CASE mark[n] = "temporary"
  <2>1. /\ cycle' = <<n>> /\ phase' = "report"
        /\ mark' = mark /\ stack' = stack
    BY <1>7 DEF ContinueConnector
  <2>2. cycle' \in Seq(Nodes) /\ Len(cycle') = 1 /\ cycle'[1] = n
    BY <1>3, <2>1
  <2>3. Permanent' = Permanent
    BY <2>1 DEF Permanent
  <2>4. Closed' /\ Acyclic(Permanent)'
    BY <1>1, <2>3, SamePart
  <2>5. IsOpen'
    <3>1. \E k \in 1..last : stack[k].node = n
      BY <1>3, <1>5, <1>7
    <3>2. (Arguments(Top.node))' = Arguments(Top.node)
      BY <1>1, <2>1 DEF Arguments, Top
    <3> QED
      BY <1>1, <1>3, <2>1, <2>2, <3>1, <3>2 DEF IsOpen
  <2>6. SearchTyped' /\ MarksOnStack'
    BY <1>1, <1>2, <2>1, <2>2 DEF SearchTyped, MarksOnStack
  <2>7. Linked' /\ Distinct' /\ Visited' /\ Tried(container)'
    BY <1>1, <1>5, <2>1 DEF Linked, Distinct, Visited, Tried
  <2> QED
    BY <2>1, <2>4, <2>5, <2>6, <2>7 DEF SearchInv, ReportsACycle
<1>8. CASE mark[n] = "permanent"
  <2>1. /\ stack' = Advanced(stack)
        /\ mark' = mark /\ cycle' = cycle /\ phase' = phase
    BY <1>8 DEF ContinueConnector
  <2>2. /\ stack' \in Seq(Calls) /\ Len(stack') = last
        /\ \A i \in 1..last :
             /\ stack'[i].node = stack[i].node
             /\ stack'[i].next = IF i = last THEN stack[i].next + 1 ELSE stack[i].next
    BY <1>2, <2>1, AdvancedFacts
  <2>3. DOMAIN stack' = 1..last
    BY <2>2, LenProperties
  <2>4. Permanent' = Permanent
    BY <2>1 DEF Permanent
  <2>5. Closed' /\ Acyclic(Permanent)'
    BY <1>1, <2>4, SamePart
  <2>6. SearchTyped'
    <3>1. ASSUME NEW i \in 1..last PROVE stack'[i].next <= Len(args[stack'[i].node]) + 1
      <4>1. /\ stack[i].next <= Len(args[stack[i].node]) + 1
            /\ Len(args[stack[i].node]) \in Nat /\ stack[i].next \in Nat
        BY <1>2, CallFacts
      <4>2. CASE i = last
        <5>1. stack[i].next <= Len(args[stack[i].node])
          BY <1>1, <1>2, <4>2
        <5>2. stack'[i].next = stack[i].next + 1 /\ stack'[i].node = stack[i].node
          BY <2>2, <4>2
        <5> QED
          BY <4>1, <5>1, <5>2
      <4>3. CASE i /= last
        <5>1. stack'[i].next = stack[i].next /\ stack'[i].node = stack[i].node
          BY <2>2, <4>3
        <5> QED
          BY <4>1, <5>1
      <4> QED
        BY <4>2, <4>3
    <3> QED
      BY <1>1, <1>2, <2>1, <2>2, <2>3, <3>1 DEF SearchTyped
  <2>7. MarksOnStack' /\ Distinct'
    <3>1. \A i \in 1..last : stack'[i].node = stack[i].node
      BY <2>2
    <3>2. /\ \A m \in Nodes : mark'[m] = "temporary" <=> \E i \in 1..last : stack'[i].node = m
          /\ \A i, j \in 1..last : stack'[i].node = stack'[j].node => i = j
      BY <1>5, <2>1, <3>1
    <3> QED
      BY <2>2, <2>3, <3>2 DEF MarksOnStack, Distinct
  <2>8. Linked'
    <3>1. ASSUME NEW i \in 1..(last - 1)
          PROVE  /\ stack'[i].next <= Len(args[stack'[i].node])
                 /\ args[stack'[i].node][stack'[i].next] = stack'[i + 1].node
      <4>1. i \in 1..last /\ i /= last /\ i + 1 \in 1..last
        BY <1>2, Places
      <4>2. /\ stack'[i].next = stack[i].next /\ stack'[i].node = stack[i].node
            /\ stack'[i + 1].node = stack[i + 1].node
        BY <2>2, <4>1
      <4> QED
        BY <1>5, <4>2 DEF Linked
    <3>2. args' = args /\ Len(stack') = last
      BY <1>1, <2>2
    <3> QED
      BY <3>1, <3>2 DEF Linked
  <2>9. Visited'
    <3> SUFFICES ASSUME NEW i \in 1..last, NEW j \in 1..(stack'[i].next - 1)
                 PROVE  args[stack[i].node][j] \in Permanent
      BY <1>1, <2>2, <2>4 DEF Visited
    <3>1. CASE j \in 1..(stack[i].next - 1)
      BY <1>1, <1>5, <3>1 DEF Visited
    <3>2. CASE i = last /\ j = stack[i].next
      BY <1>2, <1>3, <1>8, <3>2 DEF Permanent
    <3>3. stack[i].next \in Nat
      BY <1>2, CallFacts
    <3> QED
      BY <2>2, <3>1, <3>2, <3>3
  <2>10. Tried(container)'
    BY <1>1, <1>5, <2>1 DEF Tried
  <2> QED
    BY <1>1, <2>1, <2>5, <2>6, <2>7, <2>8, <2>9, <2>10 DEF SearchInv, ReportsACycle
<1> QED
  BY <1>2, <1>3, <1>6, <1>7, <1>8 DEF SearchTyped

(* The top call returns FALSE (cycle.h:139, 159): it has all its arguments *)
(* behind it, so that its node joins the part without cycles.              *)
LEMMA ReturnStep ==
  ASSUME NEW container \in SUBSET Nodes, SearchInv(container), Return
  PROVE  SearchInv(container)'
<1> DEFINE last == Len(stack)
<1>1. /\ phase = "search" /\ phase' = "search" /\ stack /= <<>>
      /\ Top.next > Len(args[Top.node])
      /\ args' = args /\ untried' = untried /\ cycle' = cycle
      /\ mark' = [mark EXCEPT ![Top.node] = "permanent"]
      /\ stack' = Advanced(Popped)
  BY DEF Return
<1>2. /\ last \in Nat /\ last >= 1 /\ last \in 1..last
      /\ DOMAIN stack = 1..last /\ stack[last] = Top
      /\ Top.node \in Nodes /\ Top.next \in Nat \ {0}
      /\ SearchTyped /\ stack \in Seq(Calls)
  <2>1. /\ last \in Nat /\ last >= 1 /\ DOMAIN stack = 1..last
        /\ Top.node \in Nodes /\ Top.next \in Nat \ {0}
    BY <1>1, TopFacts
  <2>2. SearchTyped /\ stack \in Seq(Calls)
    BY DEF SearchInv, SearchTyped
  <2> QED
    BY <2>1, <2>2 DEF Top
<1>3. /\ \A m \in Nodes : mark[m] = "temporary" <=> \E i \in 1..last : stack[i].node = m
      /\ \A i, j \in 1..last : stack[i].node = stack[j].node => i = j
      /\ Linked /\ Visited /\ Tried(container) /\ Closed /\ Acyclic(Permanent)
  BY <1>1, <1>2 DEF SearchInv, MarksOnStack
<1>4. /\ stack' \in Seq(Calls) /\ Len(stack') = last - 1
      /\ \A i \in 1..(last - 1) :
           /\ stack'[i].node = stack[i].node
           /\ stack'[i].next = IF i = last - 1 THEN stack[i].next + 1 ELSE stack[i].next
  <2>1. /\ Popped \in Seq(Calls) /\ Len(Popped) = last - 1
        /\ \A i \in 1..(last - 1) : Popped[i] = stack[i]
    BY <1>1, <1>2, PoppedFacts
  <2>2. /\ Advanced(Popped) \in Seq(Calls) /\ Len(Advanced(Popped)) = last - 1
        /\ \A i \in 1..(last - 1) :
             /\ Advanced(Popped)[i].node = Popped[i].node
             /\ Advanced(Popped)[i].next =
                  IF i = last - 1 THEN Popped[i].next + 1 ELSE Popped[i].next
    BY <2>1, AdvancedFacts
  <2> QED
    BY <1>1, <2>1, <2>2
<1>5. DOMAIN stack' = 1..(last - 1)
  BY <1>4, LenProperties
<1>6. /\ Top.node \in Nodes \ Permanent
      /\ Permanent' = Permanent \cup {Top.node}
  <2>1. mark[Top.node] = "temporary"
    BY <1>2, <1>3
  <2>2. mark \in [Nodes -> {"clear", "temporary", "permanent"}]
    BY <1>2 DEF SearchTyped
  <2> QED
    BY <1>1, <1>2, <2>1, <2>2 DEF Permanent
<1>7. Arguments(Top.node) \subseteq Permanent
  <2>1. args[Top.node] \in Seq(Nodes)
    BY <1>2 DEF SearchTyped
  <2>2. Len(args[Top.node]) \in Nat /\ DOMAIN args[Top.node] = 1..Len(args[Top.node])
    BY <2>1, LenProperties
  <2>3. ASSUME NEW j \in 1..Len(args[Top.node]) PROVE args[Top.node][j] \in Permanent
    <3>1. j \in 1..(stack[last].next - 1)
      BY <1>1, <1>2, <2>2
    <3> QED
      BY <1>1, <1>2, <1>3, <3>1 DEF Visited
  <2> QED
    BY <2>2, <2>3 DEF Arguments
<1>8. \A m : Arguments(m)' = Arguments(m)
  BY <1>1 DEF Arguments
<1>9. Closed'
  BY <1>3, <1>6, <1>7, <1>8 DEF Closed
<1>10. Acyclic(Permanent)'
  <2>1. Permanent \in SUBSET Nodes
    BY DEF Permanent
  <2>2. Acyclic(Permanent \cup {Top.node})
    BY <1>3, <1>6, <1>7, <2>1, JoinAcyclic DEF Closed
  <2> QED
    BY <1>6, <1>8, <2>2 DEF Acyclic
<1>11. \A i \in 1..(last - 1) :
         /\ i \in 1..last /\ i /= last /\ i + 1 \in 1..last
         /\ stack[i].next <= Len(args[stack[i].node])
         /\ args[stack[i].node][stack[i].next] = stack[i + 1].node
  BY <1>2, <1>3, Places DEF Linked
<1>12. SearchTyped'
  <2>1. ASSUME NEW i \in 1..(last - 1)
        PROVE  stack'[i].next <= Len(args[stack'[i].node]) + 1
    <3>1. Len(args[stack[i].node]) \in Nat /\ stack[i].next \in Nat
      BY <1>2, <1>11, CallFacts
    <3>2. /\ stack'[i].node = stack[i].node
          /\ stack'[i].next = stack[i].next + 1 \/ stack'[i].next = stack[i].next
      BY <1>4
    <3>3. stack[i].next <= Len(args[stack[i].node])
      BY <1>11
    <3> QED
      BY <3>1, <3>2, <3>3
  <2>2. mark' \in [Nodes -> {"clear", "temporary", "permanent"}]
    BY <1>1, <1>2 DEF SearchTyped
  <2> QED
    BY <1>1, <1>2, <1>4, <1>5, <2>1, <2>2 DEF SearchTyped
<1>13. MarksOnStack' /\ Distinct'
  <2>1. \A i \in 1..(last - 1) : stack'[i].node = stack[i].node /\ stack[i].node /= Top.node
    BY <1>2, <1>3, <1>4, <1>11
  <2>2. \A m \in Nodes : mark'[m] = "temporary" <=> mark[m] = "temporary" /\ m /= Top.node
    BY <1>1, <1>2 DEF SearchTyped
  <2>3. \A i \in 1..last : i = last \/ i \in 1..(last - 1)
    BY <1>2, Places
  <2>4. \A m \in Nodes : mark'[m] = "temporary" <=> \E i \in 1..(last - 1) : stack'[i].node = m
    <3> SUFFICES ASSUME NEW m \in Nodes
                 PROVE  mark'[m] = "temporary" <=> \E i \in 1..(last - 1) : stack[i].node = m
      BY <2>1
    <3>1. mark'[m] = "temporary" <=> m /= Top.node /\ \E i \in 1..last : stack[i].node = m
      BY <1>3, <2>2
    <3> QED
      BY <1>2, <1>11, <2>1, <2>3, <3>1
  <2>5. ASSUME NEW i \in 1..(last - 1), NEW j \in 1..(last - 1),
               stack'[i].node = stack'[j].node
        PROVE  i = j
    <3>1. i \in 1..last /\ j \in 1..last
      BY <1>11
    <3>2. stack[i].node = stack[j].node
      BY <2>1, <2>5
    <3> QED
      BY <1>3, <3>1, <3>2
  <2> QED
    BY <1>4, <1>5, <2>4, <2>5 DEF MarksOnStack, Distinct
<1>14. Linked'
  <2> SUFFICES ASSUME NEW i \in 1..(last - 1 - 1)
               PROVE  /\ stack'[i].next <= Len(args[stack'[i].node])
                      /\ args[stack'[i].node][stack'[i].next] = stack'[i + 1].node
    BY <1>1, <1>4 DEF Linked
  <2>1. i \in 1..(last - 1) /\ i /= last - 1 /\ i + 1 \in 1..(last - 1)
    BY <1>2, Places
  <2>2. /\ stack'[i].next = stack[i].next /\ stack'[i].node = stack[i].node
        /\ stack'[i + 1].node = stack[i + 1].node
    BY <1>4, <2>1
  <2> QED
    BY <1>11, <2>1, <2>2
<1>15. Visited'
  <2> SUFFICES ASSUME NEW i \in 1..(last - 1), NEW j \in 1..(stack'[i].next - 1)
               PROVE  args[stack[i].node][j] \in Permanent'
    BY <1>1, <1>4 DEF Visited
  <2>1. stack[i].next \in Nat
    BY <1>2, <1>11, CallFacts
  <2>2. CASE j \in 1..(stack[i].next - 1)
    BY <1>1, <1>3, <1>6, <1>11, <2>2 DEF Visited
  <2>3. CASE i = last - 1 /\ j = stack[i].next
    <3>1. args[stack[i].node][j] = stack[i + 1].node
      BY <1>11, <2>3
    <3>2. i + 1 = last
      BY <1>2, <2>3, Places
    <3> QED
      BY <1>2, <1>6, <3>1, <3>2
  <2> QED
    BY <1>4, <2>1, <2>2, <2>3
<1>16. Tried(container)'
  BY <1>1, <1>2, <1>3 DEF Tried, SearchTyped
<1> QED
  BY <1>1, <1>9, <1>10, <1>12, <1>13, <1>14, <1>15, <1>16 DEF SearchInv, ReportsACycle

(* A call that returns TRUE adds its node to an open report, which the     *)
(* node met twice closes (cycle.h:135-137).                                *)
LEMMA ReportCycle ==
  ASSUME NEW container \in SUBSET Nodes, SearchInv(container), Report
  PROVE  /\ cycle' \in Seq(Nodes)
         /\ IsOpen' \/ IsCycle(cycle)'
<1> DEFINE last == Len(stack)
           length == Len(cycle)
<1>1. /\ phase = "report" /\ stack /= <<>> /\ args' = args /\ stack' = Popped
      /\ cycle' = IF length = 1 \/ cycle[length] /= cycle[1]
                  THEN Append(cycle, Top.node) ELSE cycle
  BY DEF Report
<1>2. /\ last \in Nat /\ last >= 1 /\ stack[last] = Top /\ last \in 1..last
      /\ Top.node \in Nodes /\ SearchTyped /\ cycle \in Seq(Nodes)
      /\ stack \in Seq(Calls)
  <2>1. SearchTyped /\ cycle \in Seq(Nodes) /\ stack \in Seq(Calls)
    BY DEF SearchInv, SearchTyped
  <2>2. /\ last \in Nat /\ last >= 1 /\ last \in 1..last /\ Top.node \in Nodes
    BY <1>1, <2>1, TopFacts
  <2> QED
    BY <2>1, <2>2 DEF Top
<1>3. /\ stack' \in Seq(Calls) /\ Len(stack') = last - 1
      /\ \A i \in 1..(last - 1) : stack'[i] = stack[i]
  BY <1>1, <1>2, PoppedFacts
<1>4. length \in Nat
  BY <1>2, LenProperties
<1>5. \A m : Arguments(m)' = Arguments(m)
  BY <1>1 DEF Arguments
<1>6. CASE IsCycle(cycle)
  <2>1. cycle' = cycle
    BY <1>1, <1>4, <1>6 DEF IsCycle
  <2>2. \A i \in 1..(length - 1) : cycle[i] \in (Arguments(cycle[i + 1]))'
    BY <1>5, <1>6, <2>1 DEF IsCycle
  <2>3. IsCycle(cycle)'
    BY <1>6, <2>1, <2>2 DEF IsCycle
  <2> QED
    BY <1>2, <2>1, <2>3
<1>7. CASE IsOpen
  <2>1. /\ length >= 1
        /\ cycle[length] \in Arguments(Top.node)
        /\ \A i \in 1..(length - 1) : cycle[i] \in Arguments(cycle[i + 1])
        /\ \A i, j \in 1..length : cycle[i] = cycle[j] => i = j
        /\ \A i \in 2..length : \A k \in 1..last : cycle[i] /= stack[k].node
    BY <1>1, <1>7 DEF IsOpen
  <2>2. PICK k \in 1..last : stack[k].node = cycle[1]
    BY <1>7 DEF IsOpen
  <2>3. cycle' = Append(cycle, Top.node)
    <3>1. 1 \in 1..length /\ length \in 1..length
      BY <1>4, <2>1
    <3>2. length = 1 \/ cycle[length] /= cycle[1]
      BY <2>1, <3>1
    <3> QED
      BY <1>1, <3>2
  <2>4. /\ cycle' \in Seq(Nodes) /\ Len(cycle') = length + 1
        /\ \A i \in 1..length : cycle'[i] = cycle[i]
        /\ cycle'[length + 1] = Top.node
    BY <1>2, <2>3, AppendProperties
  <2>5. \A i \in 1..(length + 1) : i \in 1..length \/ i = length + 1
    BY <1>4
  <2>6. 1 \in 1..length /\ cycle'[1] = cycle[1]
    BY <1>4, <2>1, <2>4
  <2>7. ASSUME NEW i \in 1..length PROVE cycle'[i] \in Arguments(cycle'[i + 1])
    <3>1. CASE i = length
      BY <2>1, <2>4, <3>1
    <3>2. CASE i /= length
      <4>1. i \in 1..(length - 1) /\ i + 1 \in 1..length
        BY <1>4, <3>2
      <4> QED
        BY <2>1, <2>4, <4>1
    <3> QED
      BY <3>1, <3>2
  <2>8. CASE Top.node = cycle[1]
    <3>1. Len(cycle') > 1 /\ cycle'[1] = cycle'[Len(cycle')]
      BY <1>4, <2>1, <2>4, <2>6, <2>8
    <3>2. \A i \in 1..length : cycle'[i] \in (Arguments(cycle[i + 1]))'
      BY <1>5, <2>7
    <3>3. \A i, j \in 1..length : cycle'[i] = cycle'[j] => i = j
      BY <2>1, <2>4
    <3>4. Len(cycle') - 1 = length
      BY <1>4, <2>4
    <3>5. IsCycle(cycle)'
      BY <3>1, <3>2, <3>3, <3>4 DEF IsCycle
    <3> QED
      BY <2>4, <3>5
  <2>9. CASE Top.node /= cycle[1]
    <3>1. Len(cycle') >= 1
      BY <1>4, <2>4
    <3>2. k \in 1..(last - 1)
      BY <1>2, <2>2, <2>9
    <3>3. \E l \in 1..Len(stack') : stack'[l].node = cycle'[1]
      BY <1>3, <2>2, <2>6, <3>2
    <3>4. last - 1 \in 1..(last - 1) /\ last - 1 \in 1..last
      BY <1>2, <3>2
    <3>5. Top.node \in Arguments(stack[last - 1].node)
      <4>1. /\ stack[last - 1].next <= Len(args[stack[last - 1].node])
            /\ args[stack[last - 1].node][stack[last - 1].next] = stack[last - 1 + 1].node
        BY <3>4 DEF SearchInv, Linked
      <4>2. last - 1 + 1 = last
        BY <1>2
      <4>3. /\ stack[last - 1].next \in Nat \ {0}
            /\ Len(args[stack[last - 1].node]) \in Nat
            /\ \A j \in 1..Len(args[stack[last - 1].node]) :
                 args[stack[last - 1].node][j] \in Arguments(stack[last - 1].node)
        BY <1>2, <3>4, CallFacts
      <4> QED
        BY <1>2, <4>1, <4>2, <4>3
    <3>6. cycle'[Len(cycle')] \in (Arguments(Top.node))'
      BY <1>3, <1>5, <2>4, <3>4, <3>5 DEF Top
    <3>7. \A i \in 1..(Len(cycle') - 1) : cycle'[i] \in (Arguments(cycle[i + 1]))'
      BY <1>4, <1>5, <2>4, <2>7
    <3>8. \A i \in 1..length : cycle[i] /= Top.node
      <4>1. \A i \in 1..length : i = 1 \/ i \in 2..length
        BY <1>4
      <4> QED
        BY <1>2, <2>1, <2>9, <4>1
    <3>9. \A i, j \in 1..(length + 1) : cycle'[i] = cycle'[j] => i = j
      BY <2>1, <2>4, <2>5, <3>8
    <3>10. \A i \in 2..(length + 1) : \A l \in 1..(last - 1) : cycle'[i] /= stack'[l].node
      <4> SUFFICES ASSUME NEW i \in 2..(length + 1), NEW l \in 1..(last - 1)
                   PROVE  cycle'[i] /= stack[l].node
        BY <1>3
      <4>1. l \in 1..last /\ l /= last
        BY <1>2, Places
      <4>2. CASE i \in 2..length
        <5>1. i \in 1..length
          BY <4>2
        <5> QED
          BY <2>1, <2>4, <4>1, <4>2, <5>1
      <4>3. CASE i = length + 1
        BY <1>2, <2>4, <4>1, <4>3 DEF SearchInv, Distinct
      <4> QED
        BY <1>4, <4>2, <4>3
    <3>11. IsOpen'
      BY <1>3, <2>4, <3>1, <3>3, <3>6, <3>7, <3>9, <3>10 DEF IsOpen
    <3> QED
      BY <2>4, <3>11
  <2> QED
    BY <2>8, <2>9
<1> QED
  BY <1>1, <1>6, <1>7 DEF SearchInv

LEMMA ReportStep ==
  ASSUME NEW container \in SUBSET Nodes, SearchInv(container), Report
  PROVE  SearchInv(container)'
<1> DEFINE last == Len(stack)
<1>1. /\ phase = "report" /\ phase' = phase /\ stack /= <<>>
      /\ args' = args /\ mark' = mark /\ untried' = untried /\ stack' = Popped
  BY DEF Report
<1>2. /\ last \in Nat /\ last >= 1 /\ SearchTyped /\ stack \in Seq(Calls)
  BY <1>1, TopFacts DEF SearchInv, SearchTyped
<1>3. /\ stack' \in Seq(Calls) /\ Len(stack') = last - 1
      /\ \A i \in 1..(last - 1) : stack'[i] = stack[i]
  BY <1>1, <1>2, PoppedFacts
<1>4. DOMAIN stack' = 1..(last - 1)
  BY <1>3, LenProperties
<1>5. \A i \in 1..(last - 1) : i \in 1..last /\ i /= last /\ i + 1 \in 1..last
  BY <1>2, Places
<1>6. \A i \in 1..(last - 1 - 1) : i \in 1..(last - 1) /\ i + 1 \in 1..(last - 1)
  BY <1>2, Places
<1>7. Permanent' = Permanent
  BY <1>1 DEF Permanent
<1>8. Closed' /\ Acyclic(Permanent)'
  BY <1>1, <1>7, SamePart
<1>9. SearchTyped'
  <2>1. \A i \in 1..(last - 1) : stack'[i].next <= Len(args[stack'[i].node]) + 1
    BY <1>2, <1>3, <1>5, CallFacts
  <2> QED
    BY <1>1, <1>2, <1>3, <1>4, <2>1, ReportCycle DEF SearchTyped
<1>10. Linked'
  BY <1>1, <1>3, <1>6 DEF SearchInv, Linked
<1>11. Distinct'
  BY <1>1, <1>3, <1>5 DEF SearchInv, Distinct
<1>12. MarksOnStack' /\ Visited' /\ Tried(container)' /\ ReportsACycle'
  BY <1>1 DEF MarksOnStack, Visited, Tried, ReportsACycle
<1> QED
  BY <1>1, <1>8, <1>9, <1>10, <1>11, <1>12, ReportCycle DEF SearchInv

(* An exception (cycle.h:218-220): no call is left to close the report.    *)
LEMMA ThrowStep ==
  ASSUME NEW container \in SUBSET Nodes, SearchInv(container), Throw
  PROVE  SearchInv(container)'
<1>1. /\ phase = "report" /\ phase' = "cycle" /\ stack = <<>>
      /\ UNCHANGED <<args, mark, stack, untried, cycle>>
  BY DEF Throw
<1>2. ~IsOpen
  BY <1>1, EmptySeq DEF IsOpen
<1>3. IsCycle(cycle)
  BY <1>1, <1>2 DEF SearchInv
<1>4. IsCycle(cycle)'
  <2>1. \A n : Arguments(n)' = Arguments(n)
    BY <1>1 DEF Arguments
  <2> QED
    BY <1>1, <1>3, <2>1 DEF IsCycle
<1>5. Permanent' = Permanent
  BY <1>1 DEF Permanent
<1>6. Closed' /\ Acyclic(Permanent)'
  BY <1>1, <1>5, SamePart
<1>7. SearchTyped' /\ Linked' /\ Distinct'
  BY <1>1 DEF SearchInv, SearchTyped, Linked, Distinct
<1>8. MarksOnStack' /\ Visited' /\ Tried(container)'
  BY <1>1 DEF MarksOnStack, Visited, Tried
<1> QED
  BY <1>1, <1>4, <1>6, <1>7, <1>8 DEF SearchInv, ReportsACycle

(* The end of the loop of CheckCycle: every node has its permanent mark.   *)
LEMMA AcceptStep ==
  ASSUME NEW container \in SUBSET Nodes, SearchInv(container), Accept
  PROVE  SearchInv(container)'
<1>1. /\ phase = "search" /\ phase' = "acyclic" /\ stack = <<>> /\ untried = {}
      /\ UNCHANGED <<args, mark, stack, untried, cycle>>
  BY DEF Accept
<1>2. Permanent' = Permanent
  BY <1>1 DEF Permanent
<1>3. Closed' /\ Acyclic(Permanent)'
  BY <1>1, <1>2, SamePart
<1>4. container \subseteq Permanent
  <2>1. stack \in Seq(Calls) /\ Len(stack) = 0
    BY <1>1, EmptySeq DEF SearchInv, SearchTyped
  <2>2. DOMAIN stack = {}
    BY <2>1, LenProperties
  <2>3. \A n \in container : mark[n] /= "temporary" /\ mark[n] /= "clear"
    BY <1>1, <2>2 DEF SearchInv, MarksOnStack, Tried
  <2>4. \A n \in Nodes : mark[n] \in {"clear", "temporary", "permanent"}
    BY DEF SearchInv, SearchTyped
  <2> QED
    BY <2>3, <2>4 DEF Permanent
<1>5. SearchTyped' /\ Linked' /\ Distinct'
  BY <1>1 DEF SearchInv, SearchTyped, Linked, Distinct
<1>6. MarksOnStack' /\ Visited' /\ Tried(container)' /\ ReportsACycle'
  BY <1>1 DEF MarksOnStack, Visited, Tried, ReportsACycle
<1> QED
  BY <1>1, <1>2, <1>3, <1>4, <1>5, <1>6 DEF SearchInv

LEMMA StutterStep ==
  ASSUME NEW container \in SUBSET Nodes, SearchInv(container), UNCHANGED vars
  PROVE  SearchInv(container)'
<1>1. UNCHANGED <<args, mark, stack, untried, cycle, phase>>
  BY DEF vars
<1>2. \A m : Arguments(m)' = Arguments(m)
  BY <1>1 DEF Arguments
<1>3. Permanent' = Permanent /\ Top' = Top
  BY <1>1 DEF Permanent, Top
<1>4. Closed' /\ Acyclic(Permanent)'
  BY <1>1, <1>3, SamePart
<1>5. SearchTyped' /\ MarksOnStack' /\ Linked' /\ Distinct' /\ Visited' /\ Tried(container)'
  BY <1>1, <1>3 DEF SearchInv, SearchTyped, MarksOnStack, Linked, Distinct, Visited, Tried
<1>6. IsCycle(cycle)' <=> IsCycle(cycle)
  BY <1>1, <1>2 DEF IsCycle
<1>7. IsOpen' <=> IsOpen
  BY <1>1, <1>2, <1>3 DEF IsOpen
<1>8. phase = "report" => IsOpen \/ IsCycle(cycle)
  BY DEF SearchInv
<1>9. ReportsACycle'
  BY <1>1, <1>6 DEF SearchInv, ReportsACycle
<1>10. phase' = "acyclic" => container \subseteq Permanent'
  BY <1>1, <1>3 DEF SearchInv
<1> QED
  BY <1>1, <1>4, <1>5, <1>6, <1>7, <1>8, <1>9, <1>10 DEF SearchInv

-----------------------------------------------------------------------------
(* A container after another: its nodes are all to be tried.               *)
LEMMA EnterStep ==
  ASSUME NEW container \in SUBSET Nodes, NEW other \in SUBSET Nodes, SearchInv(other),
         phase = "search", untried' = container, UNCHANGED <<args, mark, stack, cycle, phase>>
  PROVE  SearchInv(container)'
<1>1. \A m : Arguments(m)' = Arguments(m)
  BY DEF Arguments
<1>2. Permanent' = Permanent
  BY DEF Permanent
<1>3. SearchTyped'
  BY DEF SearchInv, SearchTyped
<1>4. Closed' /\ Acyclic(Permanent)'
  BY <1>2, SamePart
<1>5. MarksOnStack' /\ Linked' /\ Distinct'
  BY DEF SearchInv, MarksOnStack, Linked, Distinct
<1>6. Visited'
  BY <1>2 DEF SearchInv, Visited
<1>7. Tried(container)'
  BY DEF Tried
<1> QED
  BY <1>3, <1>4, <1>5, <1>6, <1>7 DEF SearchInv, ReportsACycle

(* A mark that is permanent stays, until a search is over.                 *)
LEMMA PermanentStays ==
  ASSUME NEW container \in SUBSET Nodes, SearchInv(container),
         CheckCycle \/ ContinueConnector \/ Return \/ Report
  PROVE  /\ Permanent \subseteq Permanent' /\ args' = args
         /\ phase \in {"search", "report"} /\ phase' \in {"search", "report"}
<1>1. mark \in [Nodes -> {"clear", "temporary", "permanent"}]
  BY DEF SearchInv, SearchTyped
<1>2. CASE CheckCycle
  <2>1. PICK n \in untried : mark' = mark \/ (mark[n] = "clear" /\ mark' = [mark EXCEPT ![n] = "temporary"])
    BY <1>2 DEF CheckCycle
  <2> QED
    BY <1>1, <1>2, <2>1 DEF CheckCycle, Permanent
<1>3. CASE ContinueConnector
  <2>1. \E n : mark' = mark \/ (mark[n] = "clear" /\ mark' = [mark EXCEPT ![n] = "temporary"])
    BY <1>3 DEF ContinueConnector
  <2> QED
    BY <1>1, <1>3, <2>1 DEF ContinueConnector, Permanent
<1>4. CASE Return
  BY <1>1, <1>4 DEF Return, Permanent
<1>5. CASE Report
  BY <1>5 DEF Report, Permanent
<1> QED
  BY <1>2, <1>3, <1>4, <1>5

(* What the check for cycles keeps true: its container are all nodes.      *)
IInv == TypeOK /\ SearchInv(Nodes)

LEMMA Invariance == Spec => []IInv
<1>1. Init => IInv
  <2> SUFFICES ASSUME Init PROVE IInv
    OBVIOUS
  <2>1. Idle /\ untried = Nodes
    BY GraphsAssumption DEF Init, Idle
  <2>2. SearchInv(Nodes)
    BY <2>1, IdleSearch
  <2> QED
    BY <2>2 DEF Init, IInv, TypeOK, SearchInv, SearchTyped
<1>2. IInv /\ [Next]_vars => IInv'
  <2> SUFFICES ASSUME IInv, [Next]_vars PROVE IInv'
    OBVIOUS
  <2>1. SearchInv(Nodes) /\ args \in Graphs
    BY DEF IInv, TypeOK
  <2>2. SearchInv(Nodes)'
    <3>1. CASE CheckCycle
      BY <2>1, <3>1, CheckCycleStep
    <3>2. CASE ContinueConnector
      BY <2>1, <3>2, ContinueStep
    <3>3. CASE Return
      BY <2>1, <3>3, ReturnStep
    <3>4. CASE Report
      BY <2>1, <3>4, ReportStep
    <3>5. CASE Throw
      BY <2>1, <3>5, ThrowStep
    <3>6. CASE Accept
      BY <2>1, <3>6, AcceptStep
    <3>7. CASE UNCHANGED vars
      BY <2>1, <3>7, StutterStep
    <3> QED
      BY <3>1, <3>2, <3>3, <3>4, <3>5, <3>6, <3>7 DEF Next, Ended
  <2>3. args' = args
    BY DEF Next, Ended, vars, CheckCycle, ContinueConnector, Return, Report, Throw, Accept
  <2> QED
    BY <2>1, <2>2, <2>3 DEF IInv, TypeOK, SearchInv, SearchTyped
<1> QED
  BY <1>1, <1>2, PTL DEF Spec

(* The state of a check keeps its types: no call goes past the end of its  *)
(* arguments (cycle.h:151-154).                                            *)
THEOREM Typed == Spec => []TypeOK
<1>1. IInv => TypeOK
  BY DEF IInv
<1> QED
  BY Invariance, <1>1, PTL

(* The temporary marks are those of the calls under way (cycle.h:131-147). *)
THEOREM MarkedOnStack == Spec => []MarksOnStack
<1>1. IInv => MarksOnStack
  BY DEF IInv, SearchInv
<1> QED
  BY Invariance, <1>1, PTL

(* A container that CheckCycle lets pass has no cycle (cycle.h:215-224).   *)
THEOREM Soundness == Spec => []AcceptsOnlyAcyclic
<1>1. IInv => AcceptsOnlyAcyclic
  <2> SUFFICES ASSUME IInv, phase = "acyclic" PROVE Acyclic(Nodes)
    BY DEF AcceptsOnlyAcyclic
  <2>1. Nodes \subseteq Permanent /\ Acyclic(Permanent)
    BY DEF IInv, SearchInv
  <2>2. Permanent = Nodes
    BY <2>1 DEF Permanent
  <2> QED
    BY <2>1, <2>2
<1> QED
  BY Invariance, <1>1, PTL

(* The report that is thrown is a cycle of the container (cycle.h:135-137, *)
(* 198).                                                                   *)
THEOREM Completeness == Spec => []ReportsACycle
<1>1. IInv => ReportsACycle
  BY DEF IInv, SearchInv
<1> QED
  BY Invariance, <1>1, PTL
=============================================================================
