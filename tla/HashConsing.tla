----------------------------- MODULE HashConsing -----------------------------
(***************************************************************************)
(* What the vertex store promises to a diagram: a one-to-one table of      *)
(* signatures and ids.  A signature is interned only while the table does  *)
(* not know it, under an id that was never used; entries disappear one by  *)
(* one, when their vertex dies, or all at once.                            *)
(***************************************************************************)
EXTENDS Naturals, FiniteSets

CONSTANT Signature

VARIABLES
  node,   \* the known signatures and their ids
  fresh   \* the next id

Init == node = [sig \in {} |-> 0] /\ fresh = 2

Intern(sig) ==
  /\ sig \notin DOMAIN node
  /\ node' = [s \in DOMAIN node \cup {sig} |-> IF s = sig THEN fresh ELSE node[s]]
  /\ fresh' = fresh + 1

Forget(sig) ==
  /\ node' = [s \in DOMAIN node \ {sig} |-> node[s]]
  /\ UNCHANGED fresh

Reset ==
  /\ node' = [s \in {} |-> 0]
  /\ UNCHANGED fresh

Next == (\E sig \in Signature : Intern(sig) \/ Forget(sig)) \/ Reset

Spec == Init /\ [][Next]_<<node, fresh>>
=============================================================================
