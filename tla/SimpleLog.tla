----------------------------- MODULE SimpleLog -----------------------------
(***************************************************************************)
(* What node replication promises to its clients                           *)
(* (verified-node-replication/src/spec/simple_log.rs): one log of updates; *)
(* an update answers from the state right before it in the log, a read     *)
(* from some state that is no older than every update completed when the   *)
(* read began. label is the label of the last transition: what a client    *)
(* has seen of it.                                                         *)
(***************************************************************************)
EXTENDS Dispatch, FiniteSets

CONSTANTS
  num_replicas,
  ReqId,          \* request ids
  WriteOp(_)      \* the update that a request id stands for while it is in use

Replica == 0 .. num_replicas - 1

VARIABLES
  log,                \* the updates, in the order in which they take effect
  replica_versions,   \* per replica, how many of them it has applied
  version,            \* how many of them are known to be applied by some replica
  readonly_reqs,      \* reads in flight
  update_reqs,        \* updates that are not in the log
  update_resps,       \* updates in the log that have not returned, and where
  label

vars == <<log, replica_versions, version, readonly_reqs, update_reqs, update_resps, label>>

Internal == [kind |-> "Internal"]

Start(rid) == [kind |-> "Start", rid |-> rid]

End(rid, ret) == [kind |-> "End", rid |-> rid, ret |-> ret]

insert(f, key, value) == [k \in DOMAIN f \cup {key} |-> IF k = key THEN value ELSE f[k]]

remove(f, key) == [k \in DOMAIN f \ {key} |-> f[k]]

Unused(rid) == rid \notin DOMAIN readonly_reqs \cup DOMAIN update_reqs \cup DOMAIN update_resps

nrstate_at_version(v) == compute_nrstate_at_version(log, v)

Empty == [rid \in {} |-> 0]

Init ==
  /\ log = << >>
  /\ replica_versions = [r \in Replica |-> 0]
  /\ version = 0
  /\ readonly_reqs = Empty
  /\ update_reqs = Empty
  /\ update_resps = Empty
  /\ label = Internal

readonly_start(rid, node_id) ==
  /\ Unused(rid)
  /\ readonly_reqs' = insert(readonly_reqs, rid, [state |-> "Init", node_id |-> node_id])
  /\ label' = Start(rid)
  /\ UNCHANGED <<log, replica_versions, version, update_reqs, update_resps>>

readonly_read_version(rid) ==
  /\ rid \in DOMAIN readonly_reqs
  /\ readonly_reqs[rid].state = "Init"
  /\ readonly_reqs' = [readonly_reqs EXCEPT
       ![rid] = [state |-> "Req", version |-> version, node_id |-> @.node_id]]
  /\ label' = Internal
  /\ UNCHANGED <<log, replica_versions, version, update_reqs, update_resps>>

readonly_finish(rid, v) ==
  /\ rid \in DOMAIN readonly_reqs
  /\ readonly_reqs[rid].state = "Req"
  /\ v <= replica_versions[readonly_reqs[rid].node_id]
  /\ readonly_reqs[rid].version <= v
  /\ v <= Len(log)
  /\ v <= version
  /\ readonly_reqs' = remove(readonly_reqs, rid)
  /\ label' = End(rid, dispatch_spec(nrstate_at_version(v)))
  /\ UNCHANGED <<log, replica_versions, version, update_reqs, update_resps>>

update_start(rid) ==
  /\ Unused(rid)
  /\ update_reqs' = insert(update_reqs, rid, WriteOp(rid))
  /\ label' = Start(rid)
  /\ UNCHANGED <<log, replica_versions, version, readonly_reqs, update_resps>>

update_add_op_to_log(rid) ==
  /\ rid \in DOMAIN update_reqs
  /\ log' = Append(log, [op |-> update_reqs[rid]])
  /\ update_reqs' = remove(update_reqs, rid)
  /\ update_resps' = insert(update_resps, rid, Len(log))
  /\ label' = Internal
  /\ UNCHANGED <<replica_versions, version, readonly_reqs>>

(* update_add_op_to_log for one request after the other, in one step: a    *)
(* combiner reserves the entries of its whole batch with one               *)
(* compare-and-exchange (unbounded_log_append_entries in exec/log.rs).     *)
update_add_ops_to_log(rids) ==
  LET added == {rids[i] : i \in DOMAIN rids}
      place(rid) == CHOOSE i \in DOMAIN rids : rids[i] = rid
  IN  /\ added \subseteq DOMAIN update_reqs
      /\ Cardinality(added) = Len(rids)
      /\ log' = log \o [i \in DOMAIN rids |-> [op |-> update_reqs[rids[i]]]]
      /\ update_reqs' = [rid \in DOMAIN update_reqs \ added |-> update_reqs[rid]]
      /\ update_resps' = [rid \in DOMAIN update_resps \cup added |->
           IF rid \in added THEN Len(log) + place(rid) - 1 ELSE update_resps[rid]]
      /\ label' = Internal
      /\ UNCHANGED <<replica_versions, version, readonly_reqs>>

update_incr_version(new_version) ==
  /\ version <= new_version
  /\ new_version <= Len(log)
  /\ version' = new_version
  /\ label' = Internal
  /\ UNCHANGED <<log, replica_versions, readonly_reqs, update_reqs, update_resps>>

update_finish(rid) ==
  /\ rid \in DOMAIN update_resps
  /\ update_resps[rid] < version
  /\ version <= Len(log)
  /\ update_resps' = remove(update_resps, rid)
  /\ LET uidx == update_resps[rid]
     IN  label' = End(rid, dispatch_mut_spec(nrstate_at_version(uidx), log[uidx + 1].op).ret)
  /\ UNCHANGED <<log, replica_versions, version, readonly_reqs, update_reqs>>

update_replica_update(node_id, new_version) ==
  /\ replica_versions[node_id] < new_version
  /\ new_version <= Len(log)
  /\ replica_versions' = [replica_versions EXCEPT ![node_id] = new_version]
  /\ label' = Internal
  /\ UNCHANGED <<log, version, readonly_reqs, update_reqs, update_resps>>

no_op ==
  /\ label' = Internal
  /\ UNCHANGED <<log, replica_versions, version, readonly_reqs, update_reqs, update_resps>>

Version == 0 .. Len(log)

Next ==
  \/ \E rid \in ReqId :
       \/ \E n \in Replica : readonly_start(rid, n)
       \/ readonly_read_version(rid)
       \/ \E v \in Version : readonly_finish(rid, v)
       \/ update_start(rid) \/ update_add_op_to_log(rid) \/ update_finish(rid)
  \/ \E v \in Version : update_incr_version(v)
  \/ \E n \in Replica, v \in Version : update_replica_update(n, v)
  \/ no_op

Spec == Init /\ [][Next]_vars

(* The same with batches. *)
Batches == UNION {[1 .. n -> DOMAIN update_reqs] : n \in 2 .. Cardinality(DOMAIN update_reqs)}

BatchSpec == Init /\ [][Next \/ \E rids \in Batches : update_add_ops_to_log(rids)]_vars
=============================================================================
