------------------------------ MODULE MCRwLock -----------------------------
(***************************************************************************)
(* An instance of the reader-writer lock for TLC: four threads, three of   *)
(* which share a slot that counts to 2, so that the third reader may find  *)
(* the count at its limit.                                                 *)
(***************************************************************************)
EXTENDS RwLockRefinement, TLC

CONSTANTS t1, t2, t3, t4

MCSymmetry == Permutations({t1, t2, t3})

MCSlot == [t \in Thread |-> IF t = t4 THEN 1 ELSE 0]
=============================================================================
