------------------------- MODULE MCNodeReplication -------------------------
(***************************************************************************)
(* Progress of node replication, and instances for TLC.                    *)
(***************************************************************************)
EXTENDS NodeReplicationRefinement

MCOp == [r \in Replica |-> {<<r, t>> : t \in Thread}]

(* A replica waits for room in the log, or for the others to execute it.   *)
LogIsFull ==
  \E r \in Replica : pc[r] \in AdvancePCs \/ (pc[r] = "load_head" /\ ap[r].tail > head + GcThreshold)

(* Unless the log is full again and again, every request is answered: also *)
(* one that was enqueued behind the combiner's back, after the combiner    *)
(* had looked at its context, one whose thread never got the lock, and a   *)
(* read on a replica that nobody else brings up to date.                   *)
RequestsAnswered ==
  \/ []<>LogIsFull
  \/ \A r \in Replica, t \in Thread : Calling(r, t) ~> client[r][t] = "idle" \/ pc[r] = "panic"
=============================================================================
