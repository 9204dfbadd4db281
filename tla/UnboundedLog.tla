---------------------------- MODULE UnboundedLog ---------------------------
(***************************************************************************)
(* The token machine between the shared log and the simple log             *)
(* (verified-node-replication/src/spec/unbounded_log.rs). The log has no   *)
(* end and is never collected, but there are replicas, and combiners that  *)
(* place the updates of their node in the log and apply the log, entry by  *)
(* entry, to the node's replica. label is what a client sees of the last   *)
(* step: requests come in and go out by add_ticket and consume_stub of     *)
(* lib.rs.                                                                 *)
(***************************************************************************)
EXTENDS Dispatch, FiniteSets

CONSTANTS
  num_replicas,
  ReqId,          \* request ids
  WriteOp(_),     \* the update that a request id stands for while it is in use
  MAX_LOG         \* bound of the log

ASSUME UnboundedLogAssumption ==
  /\ num_replicas \in Nat \ {0}
  /\ MAX_LOG \in Nat

NodeId == 0 .. num_replicas - 1

VARIABLES
  log,                  \* entries by index, from 0 to tail - 1
  tail,
  replicas,             \* per node, its copy of the data structure
  local_versions,       \* per node, up to where it had applied the log
  version_upper_bound,
  local_reads,          \* reads in flight
  local_updates,        \* updates in flight
  combiner,             \* per node, what its combiner is doing
  label

vars == <<log, tail, replicas, local_versions, version_upper_bound,
          local_reads, local_updates, combiner, label>>

LogIdx == 0 .. MAX_LOG

insert(f, key, value) == [k \in DOMAIN f \cup {key} |-> IF k = key THEN value ELSE f[k]]

remove(f, key) == [k \in DOMAIN f \ {key} |-> f[k]]

(* ReadonlyState *)

ReadInit(node_id) == [state |-> "Init", node_id |-> node_id]

VersionUpperBound(node_id, version) ==
  [state |-> "VersionUpperBound", node_id |-> node_id, version_upper_bound |-> version]

ReadyToRead(node_id, version) ==
  [state |-> "ReadyToRead", node_id |-> node_id, version_upper_bound |-> version]

ReadDone(node_id, version, ret) ==
  [state |-> "Done", node_id |-> node_id, version_upper_bound |-> version, ret |-> ret]

(* UpdateState *)

UpdateInit(op) == [state |-> "Init", op |-> op]

UpdatePlaced(op, idx) == [state |-> "Placed", op |-> op, idx |-> idx]

UpdateApplied(ret, idx) == [state |-> "Applied", ret |-> ret, idx |-> idx]

UpdateDone(ret, idx) == [state |-> "Done", ret |-> ret, idx |-> idx]

(* CombinerState *)

Ready == [state |-> "Ready", queued_ops |-> << >>]

Placed(queued_ops) == [state |-> "Placed", queued_ops |-> queued_ops]

LoadedLocalVersion(queued_ops, lversion) ==
  [state |-> "LoadedLocalVersion", queued_ops |-> queued_ops, lversion |-> lversion]

Loop(queued_ops, lversion, idx, t) ==
  [state |-> "Loop", queued_ops |-> queued_ops, lversion |-> lversion, idx |-> idx, tail |-> t]

UpdatedVersion(queued_ops, t) ==
  [state |-> "UpdatedVersion", queued_ops |-> queued_ops, tail |-> t]

Combining(n, state) == combiner[n].state = state

Become(n, c) == combiner' = [combiner EXCEPT ![n] = c]

Internal == [kind |-> "Internal"]

Start(rid) == [kind |-> "Start", rid |-> rid]

End(rid, ret) == [kind |-> "End", rid |-> rid, ret |-> ret]

Empty == [rid \in {} |-> 0]

Init ==
  /\ log = Empty
  /\ tail = 0
  /\ replicas = [n \in NodeId |-> init_spec]
  /\ local_versions = [n \in NodeId |-> 0]
  /\ version_upper_bound = 0
  /\ local_reads = Empty
  /\ local_updates = Empty
  /\ combiner = [n \in NodeId |-> Ready]
  /\ label = Internal

-----------------------------------------------------------------------------
(* Requests come in and go out *)

(* get_fresh_nat: an id that no request and no combiner knows. *)
Fresh(rid) ==
  /\ rid \notin DOMAIN local_reads \cup DOMAIN local_updates
  /\ \A n \in NodeId : \A i \in DOMAIN combiner[n].queued_ops : combiner[n].queued_ops[i] # rid

add_ticket_read(rid, n) ==
  /\ Fresh(rid)
  /\ local_reads' = insert(local_reads, rid, ReadInit(n))
  /\ label' = Start(rid)
  /\ UNCHANGED <<log, tail, replicas, local_versions, version_upper_bound, local_updates, combiner>>

add_ticket_write(rid) ==
  /\ Fresh(rid)
  /\ local_updates' = insert(local_updates, rid, UpdateInit(WriteOp(rid)))
  /\ label' = Start(rid)
  /\ UNCHANGED <<log, tail, replicas, local_versions, version_upper_bound, local_reads, combiner>>

consume_stub_read(rid) ==
  /\ rid \in DOMAIN local_reads
  /\ local_reads[rid].state = "Done"
  /\ local_reads' = remove(local_reads, rid)
  /\ label' = End(rid, local_reads[rid].ret)
  /\ UNCHANGED <<log, tail, replicas, local_versions, version_upper_bound, local_updates, combiner>>

consume_stub_write(rid) ==
  /\ rid \in DOMAIN local_updates
  /\ local_updates[rid].state = "Done"
  /\ local_updates' = remove(local_updates, rid)
  /\ label' = End(rid, local_updates[rid].ret)
  /\ UNCHANGED <<log, tail, replicas, local_versions, version_upper_bound, local_reads, combiner>>

-----------------------------------------------------------------------------
(* Reads *)

readonly_version_upper_bound(rid) ==
  /\ rid \in DOMAIN local_reads
  /\ local_reads[rid].state = "Init"
  /\ local_reads' = [local_reads EXCEPT
       ![rid] = VersionUpperBound(@.node_id, version_upper_bound)]
  /\ label' = Internal
  /\ UNCHANGED <<log, tail, replicas, local_versions, version_upper_bound, local_updates, combiner>>

readonly_ready_to_read(rid) ==
  LET read == local_reads[rid]
  IN  /\ rid \in DOMAIN local_reads
      /\ read.state = "VersionUpperBound"
      /\ local_versions[read.node_id] >= read.version_upper_bound
      /\ local_reads' = [local_reads EXCEPT ![rid] = ReadyToRead(read.node_id, read.version_upper_bound)]
      /\ label' = Internal
      /\ UNCHANGED <<log, tail, replicas, local_versions, version_upper_bound, local_updates, combiner>>

readonly_apply(rid) ==
  LET read == local_reads[rid]
  IN  /\ rid \in DOMAIN local_reads
      /\ read.state = "ReadyToRead"
      /\ Combining(read.node_id, "Ready")
      /\ local_reads' = [local_reads EXCEPT
           ![rid] = ReadDone(read.node_id, read.version_upper_bound, dispatch_spec(replicas[read.node_id]))]
      /\ label' = Internal
      /\ UNCHANGED <<log, tail, replicas, local_versions, version_upper_bound, local_updates, combiner>>

(* A read past the protocol, as a page table walk would do it: no token    *)
(* changes. What it sees is the replica as it is.                          *)
readonly_view_oob ==
  /\ label' = Internal
  /\ UNCHANGED <<log, tail, replicas, local_versions, version_upper_bound, local_reads,
                 local_updates, combiner>>

-----------------------------------------------------------------------------
(* Updates *)

update_place_ops_in_log_one(n, rid) ==
  /\ Combining(n, "Placed")
  /\ rid \in DOMAIN local_updates
  /\ local_updates[rid].state = "Init"
  /\ tail < MAX_LOG
  /\ tail' = tail + 1
  /\ log' = insert(log, tail, [op |-> local_updates[rid].op, node_id |-> n])
  /\ local_updates' = [local_updates EXCEPT ![rid] = UpdatePlaced(@.op, tail)]
  /\ Become(n, Placed(Append(combiner[n].queued_ops, rid)))
  /\ label' = Internal
  /\ UNCHANGED <<replicas, local_versions, version_upper_bound, local_reads>>

(* Fault: an update counts as done as soon as it is applied. *)
update_done_Early(rid) ==
  /\ rid \in DOMAIN local_updates
  /\ local_updates[rid].state = "Applied"
  /\ local_updates' = [local_updates EXCEPT ![rid] = UpdateDone(@.ret, @.idx)]
  /\ label' = Internal
  /\ UNCHANGED <<log, tail, replicas, local_versions, version_upper_bound, local_reads, combiner>>

update_done(rid) ==
  /\ rid \in DOMAIN local_updates
  /\ local_updates[rid].state = "Applied"
  /\ version_upper_bound > local_updates[rid].idx
  /\ local_updates' = [local_updates EXCEPT ![rid] = UpdateDone(@.ret, @.idx)]
  /\ label' = Internal
  /\ UNCHANGED <<log, tail, replicas, local_versions, version_upper_bound, local_reads, combiner>>

-----------------------------------------------------------------------------
(* Combiners *)

exec_trivial_start(n) ==
  /\ Combining(n, "Ready")
  /\ Become(n, Placed(<< >>))
  /\ label' = Internal
  /\ UNCHANGED <<log, tail, replicas, local_versions, version_upper_bound, local_reads, local_updates>>

exec_load_local_version(n) ==
  /\ Combining(n, "Placed")
  /\ Become(n, LoadedLocalVersion(combiner[n].queued_ops, local_versions[n]))
  /\ label' = Internal
  /\ UNCHANGED <<log, tail, replicas, local_versions, version_upper_bound, local_reads, local_updates>>

exec_load_global_head(n) ==
  /\ Combining(n, "LoadedLocalVersion")
  /\ Become(n, Loop(combiner[n].queued_ops, combiner[n].lversion, 0, tail))
  /\ label' = Internal
  /\ UNCHANGED <<log, tail, replicas, local_versions, version_upper_bound, local_reads, local_updates>>

exec_dispatch_local(n) ==
  LET c   == combiner[n]
      rid == c.queued_ops[c.idx + 1]
      out == dispatch_mut_spec(replicas[n], log[c.lversion].op)
  IN  /\ Combining(n, "Loop")
      /\ c.lversion < c.tail
      /\ log[c.lversion].node_id = n
      /\ rid \in DOMAIN local_updates
      /\ local_updates' = [local_updates EXCEPT ![rid] = UpdateApplied(out.ret, c.lversion)]
      /\ replicas' = [replicas EXCEPT ![n] = out.view]
      /\ Become(n, Loop(c.queued_ops, c.lversion + 1, c.idx + 1, c.tail))
      /\ label' = Internal
      /\ UNCHANGED <<log, tail, local_versions, version_upper_bound, local_reads>>

exec_dispatch_remote(n) ==
  LET c   == combiner[n]
      out == dispatch_mut_spec(replicas[n], log[c.lversion].op)
  IN  /\ Combining(n, "Loop")
      /\ c.lversion < c.tail
      /\ log[c.lversion].node_id # n
      /\ replicas' = [replicas EXCEPT ![n] = out.view]
      /\ Become(n, Loop(c.queued_ops, c.lversion + 1, c.idx, c.tail))
      /\ label' = Internal
      /\ UNCHANGED <<log, tail, local_versions, version_upper_bound, local_reads, local_updates>>

exec_update_version_upper_bound(n) ==
  LET c == combiner[n]
  IN  /\ Combining(n, "Loop")
      /\ c.lversion = c.tail
      /\ version_upper_bound' = IF version_upper_bound >= c.tail THEN version_upper_bound ELSE c.tail
      /\ Become(n, UpdatedVersion(c.queued_ops, c.tail))
      /\ label' = Internal
      /\ UNCHANGED <<log, tail, replicas, local_versions, local_reads, local_updates>>

exec_finish(n) ==
  /\ Combining(n, "UpdatedVersion")
  /\ local_versions' = [local_versions EXCEPT ![n] = combiner[n].tail]
  /\ Become(n, Ready)
  /\ label' = Internal
  /\ UNCHANGED <<log, tail, replicas, version_upper_bound, local_reads, local_updates>>

(* Fault: gives up although there is something to apply. *)
exec_finish_no_change_Always(n) ==
  /\ Combining(n, "LoadedLocalVersion")
  /\ Become(n, Ready)
  /\ label' = Internal
  /\ UNCHANGED <<log, tail, replicas, local_versions, version_upper_bound, local_reads, local_updates>>

exec_finish_no_change(n) ==
  /\ Combining(n, "LoadedLocalVersion")
  /\ combiner[n].lversion = tail
  /\ Become(n, Ready)
  /\ label' = Internal
  /\ UNCHANGED <<log, tail, replicas, local_versions, version_upper_bound, local_reads, local_updates>>

-----------------------------------------------------------------------------

RequestStep(rid) ==
  \/ \E n \in NodeId : add_ticket_read(rid, n)
  \/ add_ticket_write(rid)
  \/ consume_stub_read(rid) \/ consume_stub_write(rid)
  \/ readonly_version_upper_bound(rid) \/ readonly_ready_to_read(rid) \/ readonly_apply(rid)
  \/ update_done(rid)

CombinerStep(n) ==
  \/ exec_trivial_start(n)
  \/ \E rid \in ReqId : update_place_ops_in_log_one(n, rid)
  \/ exec_load_local_version(n) \/ exec_load_global_head(n)
  \/ exec_dispatch_local(n) \/ exec_dispatch_remote(n)
  \/ exec_update_version_upper_bound(n) \/ exec_finish(n) \/ exec_finish_no_change(n)

Next ==
  \/ \E rid \in ReqId : RequestStep(rid)
  \/ \E n \in NodeId : CombinerStep(n)
  \/ readonly_view_oob

Spec == Init /\ [][Next]_vars

-----------------------------------------------------------------------------
(* Steps of the implementation that are several transitions here.          *)

(* exec_trivial_start, and update_place_ops_in_log_one for one request     *)
(* after the other: a combiner reserves the entries of its whole batch     *)
(* with one compare-and-exchange (unbounded_log_append_entries in          *)
(* exec/log.rs).                                                           *)
append_entries(n, rids) ==
  LET added == {rids[i] : i \in DOMAIN rids}
      place(rid) == CHOOSE i \in DOMAIN rids : rids[i] = rid
      entry(rid) == tail + place(rid) - 1
      reserved == tail .. tail + Len(rids) - 1
  IN  /\ Combining(n, "Ready")
      /\ Cardinality(added) = Len(rids)
      /\ \A rid \in added : rid \in DOMAIN local_updates /\ local_updates[rid].state = "Init"
      /\ tail + Len(rids) <= MAX_LOG
      /\ tail' = tail + Len(rids)
      /\ log' = [i \in DOMAIN log \cup reserved |->
           IF i \in reserved THEN [op |-> local_updates[rids[i - tail + 1]].op, node_id |-> n] ELSE log[i]]
      /\ local_updates' = [rid \in DOMAIN local_updates |->
           IF rid \in added THEN UpdatePlaced(local_updates[rid].op, entry(rid)) ELSE local_updates[rid]]
      /\ Become(n, Placed(rids))
      /\ label' = Internal
      /\ UNCHANGED <<replicas, local_versions, version_upper_bound, local_reads>>

(* readonly_apply and consume_stub: the read and its return.               *)
read_and_return(rid) ==
  LET read == local_reads[rid]
  IN  /\ rid \in DOMAIN local_reads
      /\ read.state = "ReadyToRead"
      /\ Combining(read.node_id, "Ready")
      /\ local_reads' = remove(local_reads, rid)
      /\ label' = End(rid, dispatch_spec(replicas[read.node_id]))
      /\ UNCHANGED <<log, tail, replicas, local_versions, version_upper_bound, local_updates, combiner>>

Batches ==
  LET waiting == {rid \in DOMAIN local_updates : local_updates[rid].state = "Init"}
  IN  UNION {[1 .. k -> waiting] : k \in 1 .. Cardinality(waiting)}

BatchNext ==
  \/ Next
  \/ \E n \in NodeId, rids \in Batches : append_entries(n, rids)
  \/ \E rid \in ReqId : read_and_return(rid)

BatchSpec == Init /\ [][BatchNext]_vars
=============================================================================
