--------------------------- MODULE MCUnboundedLog ---------------------------
(***************************************************************************)
(* An instance of the unbounded log for TLC.                               *)
(***************************************************************************)
EXTENDS UnboundedLogRefinement, TLC

CONSTANTS u1, u2

MCReqId == {u1, u2}

MCWriteOp(rid) == rid

(* Requests are interchangeable. *)
Symmetry == Permutations(MCReqId)

(* What the source computes update by update is the closed form that the   *)
(* modules use.                                                            *)
ASSUME ReplayIsClosedForm ==
  \A n \in 0 .. 3 : \A l \in [1 .. n -> [op : MCReqId]] : \A v \in 0 .. n :
     compute_nrstate_at_version(l, v) = replay(l, v)
=============================================================================
