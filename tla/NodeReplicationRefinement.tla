--------------------- MODULE NodeReplicationRefinement ---------------------
(***************************************************************************)
(* Node replication implements the simple log, the unbounded log, and for  *)
(* each replica the flat combiner: what the tokens of                      *)
(* verified-node-replication/src/exec are, as a function of its state.     *)
(***************************************************************************)
EXTENDS NodeReplication, NrLogProperties

Request == Replica \X Thread

Updating == {rid \in Request : client[rid[1]][rid[2]] \in {"try_update", "dequeue"}}

Reading ==
  {rid \in Request :
     client[rid[1]][rid[2]] \in {"load_bound", "check_synced", "try_read", "acquire_read"}}

(* The batch of r is in the log. *)
Placed(r) ==
  /\ pc[r] \notin {"ready", "load_tail", "load_head", "cas_tail", "panic"}
  /\ ex[r].caller # "load_tail"

(* The update of thread t is in the current batch of r, unanswered. *)
InBatch(r, t) == thread_idx[r] <= t /\ t < Len(num_ops[r]) /\ num_ops[r][t + 1] = 1

InLog(rid) == LET r == rid[1]
                  t == rid[2]
              IN  atomic[r][t] = 0 \/ (InBatch(r, t) /\ Placed(r))

(* The last place of rid's update in the log l, if there is one. *)
LastPlace(l, rid) == {i \in DOMAIN l : l[i].op = rid /\ \A j \in i + 1 .. Len(l) : l[j].op # rid}

Position(rid) == CHOOSE i \in LastPlace(log, rid) : TRUE

RequestIsOp(rid) == rid

-----------------------------------------------------------------------------
(* The simple log *)

simple_read(rid) ==
  LET c == client[rid[1]][rid[2]]
  IN  IF c = "load_bound" THEN [state |-> "Init", node_id |-> rid[1]]
      ELSE [state |-> "Req", version |-> bound[rid[1]][rid[2]], node_id |-> rid[1]]

simple_log == [i \in DOMAIN log |-> [op |-> log[i].op]]

simple_replica_versions == [r \in Replica |-> current_local_version(r)]

simple_readonly_reqs == [rid \in Reading |-> simple_read(rid)]

simple_update_reqs == [rid \in {u \in Updating : ~InLog(u)} |-> rid]

simple_update_resps == [rid \in {u \in Updating : InLog(u)} |-> Position(rid) - 1]

Simple == INSTANCE SimpleLog WITH
  ReqId            <- Request,
  WriteOp          <- RequestIsOp,
  log              <- simple_log,
  replica_versions <- simple_replica_versions,
  version          <- version_upper_bound,
  readonly_reqs    <- simple_readonly_reqs,
  update_reqs      <- simple_update_reqs,
  update_resps     <- simple_update_resps

(* Node replication is linearizable: every update answers from the state   *)
(* right before its place in the one log, and every read from a state that *)
(* contains all updates that had returned when it began.                   *)
RefinesSimpleLog == Simple!BatchSpec

-----------------------------------------------------------------------------
(* The unbounded log *)

(* The replica has not yet recorded that it has applied its batch. *)
BatchPending(r) == \E i \in local_versions[r] + 1 .. Len(log) : log[i].node_id = r

(* The part of the batch of r that the unbounded log's combiner still has  *)
(* to answer for.                                                          *)
queued_ops(r) == IF BatchPending(r) THEN operations[r] ELSE << >>

(* A combiner of the unbounded log, given the next access p, its queue and *)
(* how much of it is answered, and the locals e of execute.                *)
CombinerToken(p, queue, answered, e) ==
  CASE p = "load_version" -> [state |-> "Placed", queued_ops |-> queue]
    [] p = "load_exec_tail" ->
         [state |-> "LoadedLocalVersion", queued_ops |-> queue, lversion |-> e.local_version]
    [] p \in {"wait_alive", "dispatch", "bump_version"} ->
         [state |-> "Loop", queued_ops |-> queue, lversion |-> e.local_version,
          idx |-> IF queue = << >> THEN 0 ELSE answered, tail |-> e.global_tail]
    [] p = "store_version" ->
         [state |-> "UpdatedVersion", queued_ops |-> queue, tail |-> e.global_tail]
    [] OTHER -> [state |-> IF queue = << >> THEN "Ready" ELSE "Placed", queued_ops |-> queue]

unbounded_combiner(r) == CombinerToken(pc[r], queued_ops(r), Len(responses[r]), ex[r])

unbounded_read(rid) ==
  LET r == rid[1]
      c == client[r][rid[2]]
  IN  IF c = "load_bound" THEN [state |-> "Init", node_id |-> r]
      ELSE [state |-> IF c = "acquire_read" THEN "ReadyToRead" ELSE "VersionUpperBound",
            node_id |-> r, version_upper_bound |-> bound[r][rid[2]]]

(* An update rid, given whether it is in the log and at what place, what   *)
(* its context says, and the version of its replica with the answers to    *)
(* the batch ops.                                                          *)
UpdateToken(rid, in_log, place, waiting, ret, version, ops, answers) ==
  CASE ~in_log -> [state |-> "Init", op |-> rid]
    [] in_log /\ waiting = 0 -> [state |-> "Done", ret |-> ret, idx |-> place]
    [] in_log /\ waiting # 0 /\ place < version ->
         [state |-> "Applied", ret |-> answers[CHOOSE k \in DOMAIN ops : ops[k] = rid], idx |-> place]
    [] OTHER -> [state |-> "Placed", op |-> rid, idx |-> place]

unbounded_update(rid) ==
  LET r == rid[1]
      t == rid[2]
  IN  UpdateToken(rid, InLog(rid), Position(rid) - 1, atomic[r][t], resp[r][t],
                  current_local_version(r), operations[r], responses[r])

unbounded_log == [i \in 0 .. Len(log) - 1 |-> log[i + 1]]

unbounded_reads == [rid \in Reading |-> unbounded_read(rid)]

unbounded_updates == [rid \in Updating |-> unbounded_update(rid)]

unbounded_combiners == [r \in Replica |-> unbounded_combiner(r)]

Unbounded == INSTANCE UnboundedLog WITH
  ReqId         <- Request,
  WriteOp       <- RequestIsOp,
  MAX_LOG       <- MAX_IDX,
  log           <- unbounded_log,
  local_reads   <- unbounded_reads,
  local_updates <- unbounded_updates,
  combiner      <- unbounded_combiners

(* Every access of the implementation to what the threads share is a       *)
(* transition of the token machine that the code carries along with it, or *)
(* none: the batch enters the log in one piece, each combiner's queue is   *)
(* what it finds of its own in the log, and each response it hands out is  *)
(* that of the update it belongs to.                                       *)
RefinesUnboundedLog == Unbounded!BatchSpec

-----------------------------------------------------------------------------
(* Flat combining *)

flat_client(r, t) ==
  IF <<r, t>> \in Updating THEN [state |-> "Waiting", rid |-> <<r, t>>] ELSE [state |-> "Idle"]

flat_slot(r, t) ==
  IF <<r, t>> \in Updating
  THEN [state |-> IF atomic[r][t] = 0 THEN "Response"
                  ELSE IF InBatch(r, t) THEN "InProgress" ELSE "Request",
        rid |-> <<r, t>>]
  ELSE [state |-> "Empty"]

flat_clients(r) == [t \in Thread |-> flat_client(r, t)]

flat_slots(r) == [t \in Thread |-> flat_slot(r, t)]

flat_reqs(r) == [i \in DOMAIN num_ops[r] |-> IF num_ops[r][i] = 1 THEN <<r, i - 1>> ELSE NoResp]

flat_combiner(r) ==
  IF phase[r] \in {"none", "collect"} THEN [state |-> "Collecting", reqs |-> flat_reqs(r)]
  ELSE [state |-> "Responding", reqs |-> flat_reqs(r), tid |-> thread_idx[r]]

Flat(r) == INSTANCE FlatCombiner WITH
  ReqId    <- Request,
  NoReq    <- NoResp,
  clients  <- flat_clients(r),
  slots    <- flat_slots(r),
  combiner <- flat_combiner(r)

(* The contexts of each replica follow the flat combining protocol: a      *)
(* context is collected at most once, answered only if it was collected,   *)
(* and its answer is there until its thread has taken it, also while that  *)
(* thread enqueues its next update behind the combiner's back.             *)
RefinesFlatCombiner ==
  /\ \A r \in Replica : Flat(r)!Init
  /\ [][\A r \in Replica : [Flat(r)!Next]_(Flat(r)!vars)]_allvars
=============================================================================
