---------------------------- MODULE MCUniqueTable ----------------------------
(* The vertex store of a BDD with two variables and a tiny table that has  *)
(* to grow.                                                                *)
EXTENDS UniqueTable

MCHash(sig) == sig.index + 2 * sig.high + 3 * Magnitude(sig.low) + (IF sig.low < 0 THEN 1 ELSE 0)
MCNextCapacity(buckets) == IF buckets = 2 THEN 5 ELSE 11
=============================================================================
