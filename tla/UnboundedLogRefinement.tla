----------------------- MODULE UnboundedLogRefinement -----------------------
(***************************************************************************)
(* The invariants of the unbounded log, and that it implements the simple  *)
(* log under the interpretation of                                         *)
(* verified-node-replication/src/spec/unbounded_log_refines_simplelog.rs.  *)
(***************************************************************************)
EXTENDS UnboundedLog

Ops == {WriteOp(rid) : rid \in ReqId}

State == Seq(Ops)

ReadonlyState ==
  {ReadInit(n) : n \in NodeId}
    \cup [state : {"VersionUpperBound", "ReadyToRead"}, node_id : NodeId, version_upper_bound : LogIdx]
    \cup [state : {"Done"}, node_id : NodeId, version_upper_bound : LogIdx, ret : State]

UpdateState ==
  [state : {"Init"}, op : Ops]
    \cup [state : {"Placed"}, op : Ops, idx : LogIdx]
    \cup [state : {"Applied", "Done"}, ret : State, idx : LogIdx]

CombinerState ==
  {Ready}
    \cup [state : {"Placed"}, queued_ops : Seq(ReqId)]
    \cup [state : {"LoadedLocalVersion"}, queued_ops : Seq(ReqId), lversion : LogIdx]
    \cup [state : {"Loop"}, queued_ops : Seq(ReqId), lversion : LogIdx, idx : Nat, tail : LogIdx]
    \cup [state : {"UpdatedVersion"}, queued_ops : Seq(ReqId), tail : LogIdx]

(* Types; the log has an entry at every index below the tail and none      *)
(* from there on.                                                          *)
UnboundedLogTypeOK ==
  /\ tail \in LogIdx
  /\ log \in [0 .. tail - 1 -> [op : Ops, node_id : NodeId]]
  /\ replicas \in [NodeId -> State]
  /\ local_versions \in [NodeId -> LogIdx]
  /\ version_upper_bound \in LogIdx
  /\ DOMAIN local_reads \subseteq ReqId
  /\ \A rid \in DOMAIN local_reads : local_reads[rid] \in ReadonlyState
  /\ DOMAIN local_updates \subseteq ReqId
  /\ \A rid \in DOMAIN local_updates : local_updates[rid] \in UpdateState
  /\ combiner \in [NodeId -> CombinerState]

-----------------------------------------------------------------------------

current_local_version(n) ==
  CASE combiner[n].state = "Loop" -> combiner[n].lversion
    [] combiner[n].state = "UpdatedVersion" -> combiner[n].tail
    [] OTHER -> local_versions[n]

nrstate_at_version(v) == [i \in 1 .. v |-> log[i - 1].op]

(* The versions are in order: no replica is ahead of the upper bound       *)
(* (unless it is being worked on), the bound is not ahead of the tail, no  *)
(* read waits for more than the bound, and a read that may look at its     *)
(* replica finds everything it waited for there, however often a combiner  *)
(* has worked on the replica since.                                        *)
versions_ordered ==
  /\ version_upper_bound <= tail
  /\ \A n \in NodeId : local_versions[n] <= version_upper_bound
  /\ \A n \in NodeId : current_local_version(n) <= tail
  /\ \A rid \in DOMAIN local_reads :
       LET read == local_reads[rid]
       IN  /\ read.state # "Init" => read.version_upper_bound <= version_upper_bound
           /\ read.state \in {"ReadyToRead", "Done"} =>
                read.version_upper_bound <= current_local_version(read.node_id)

-----------------------------------------------------------------------------
(* The queue of a combiner and the log *)

LogRangeNoNodeId(start, end, n) == \A i \in start .. end - 1 : log[i].node_id # n

IsPlaced(rid) == rid \in DOMAIN local_updates /\ local_updates[rid].state = "Placed"

(* The queue, from its element `from' on, are the updates of n in the log  *)
(* from start to end, in order.                                            *)
LogRangeMatchesQueue(queue, from, start, end, n) ==
  LET rest == from + 1 .. Len(queue)
      idx(i) == local_updates[queue[i]].idx
  IN  /\ \A i \in rest : IsPlaced(queue[i]) /\ idx(i) \in start .. end - 1 /\ log[idx(i)].node_id = n
      /\ \A i, j \in rest : i < j => idx(i) < idx(j)
      /\ \A l \in start .. end - 1 : log[l].node_id = n => \E i \in rest : idx(i) = l

(* Updates that have been applied may have returned.                       *)
QueueRidsUpdateDone(queue, bound) ==
  \A i \in 1 .. bound : queue[i] \in DOMAIN local_updates =>
     local_updates[queue[i]].state \in {"Applied", "Done"}

seq_unique(queue) == \A i, j \in DOMAIN queue : i # j => queue[i] # queue[j]

wf_combiner_for_node_id(n) ==
  LET c == combiner[n]
  IN  /\ seq_unique(c.queued_ops)
      /\ c.state = "Ready" => LogRangeNoNodeId(local_versions[n], tail, n)
      /\ c.state = "Placed" => LogRangeMatchesQueue(c.queued_ops, 0, local_versions[n], tail, n)
      /\ c.state = "LoadedLocalVersion" =>
           /\ c.lversion = local_versions[n]
           /\ LogRangeMatchesQueue(c.queued_ops, 0, c.lversion, tail, n)
      /\ c.state = "Loop" =>
           /\ c.tail <= tail
           /\ c.lversion \in local_versions[n] .. c.tail
           /\ c.idx <= Len(c.queued_ops)
           /\ LogRangeMatchesQueue(c.queued_ops, c.idx, c.lversion, c.tail, n)
           /\ LogRangeNoNodeId(c.tail, tail, n)
           /\ QueueRidsUpdateDone(c.queued_ops, c.idx)
      /\ c.state = "UpdatedVersion" =>
           /\ c.tail \in local_versions[n] .. version_upper_bound
           /\ LogRangeNoNodeId(c.tail, tail, n)
           /\ QueueRidsUpdateDone(c.queued_ops, Len(c.queued_ops))

Queued(n) == {combiner[n].queued_ops[i] : i \in DOMAIN combiner[n].queued_ops}

(* A combiner answers the right requests: its queue is the updates of its  *)
(* node in the log, in the order of the log, which it has yet to apply;    *)
(* so the next local entry it meets is of the next request in the queue,   *)
(* it is never out of requests (pre_exec_dispatch_local), none is left     *)
(* when it is through, and there is none when it gives up. No request is   *)
(* in two queues.                                                          *)
combiner_states_wf ==
  /\ \A n \in NodeId : wf_combiner_for_node_id(n)
  /\ \A n, m \in NodeId : n # m => Queued(n) \cap Queued(m) = {}

-----------------------------------------------------------------------------

(* A replica is the state after some prefix of the log: the prefix its     *)
(* combiner has come to.                                                   *)
replica_state == \A n \in NodeId : replicas[n] = nrstate_at_version(current_local_version(n))

update_results_match(update) ==
  update.state \in {"Applied", "Done"} =>
    /\ update.idx < tail
    /\ update.ret = dispatch_mut_spec(nrstate_at_version(update.idx), log[update.idx].op).ret
    /\ update.state = "Done" => update.idx < version_upper_bound

read_results_match(read) ==
  read.state = "Done" =>
    \E v \in read.version_upper_bound .. version_upper_bound :
       /\ v <= current_local_version(read.node_id)
       /\ read.ret = dispatch_spec(nrstate_at_version(v))

(* Answers are right, and stay right while they wait to be taken: of an    *)
(* update, the one of the state right before its place in the log; of a    *)
(* read, one of a state that is no older than the bound it waited for and  *)
(* not newer than the bound is now.                                        *)
results_match ==
  /\ \A rid \in DOMAIN local_updates : update_results_match(local_updates[rid])
  /\ \A rid \in DOMAIN local_reads : read_results_match(local_reads[rid])

-----------------------------------------------------------------------------

(* What the invariants of the source come to, types included. Versions are *)
(* in order, combiners answer the right requests, replicas are prefixes of *)
(* the log and answers stay right, each because of the others.             *)
UnboundedLogInv ==
  UnboundedLogTypeOK /\ versions_ordered /\ combiner_states_wf /\ replica_state /\ results_match

-----------------------------------------------------------------------------
(* The simple log *)

interp_readonly_reqs ==
  [rid \in DOMAIN local_reads |->
     LET read == local_reads[rid]
     IN  IF read.state = "Init" THEN [state |-> "Init", node_id |-> read.node_id]
         ELSE [state |-> "Req", version |-> read.version_upper_bound, node_id |-> read.node_id]]

Unplaced == {rid \in DOMAIN local_updates : local_updates[rid].state = "Init"}

interp_update_reqs == [rid \in Unplaced |-> local_updates[rid].op]

interp_update_resps == [rid \in DOMAIN local_updates \ Unplaced |-> local_updates[rid].idx]

interp_log == [i \in 1 .. tail |-> [op |-> log[i - 1].op]]

interp_replica_versions == [n \in NodeId |-> current_local_version(n)]

Simple == INSTANCE SimpleLog WITH
  log              <- interp_log,
  replica_versions <- interp_replica_versions,
  version          <- version_upper_bound,
  readonly_reqs    <- interp_readonly_reqs,
  update_reqs      <- interp_update_reqs,
  update_resps     <- interp_update_resps

(* The unbounded log with its replicas and combiners does what the simple  *)
(* log promises (refinement_next, refinement_add_ticket and                *)
(* refinement_consume_stub of the source).                                 *)
RefinesSimpleLog == Simple!Spec
=============================================================================
