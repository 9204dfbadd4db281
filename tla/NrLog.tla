------------------------------- MODULE NrLog -------------------------------
(***************************************************************************)
(* The shared operation log of node replication                            *)
(* (verified-node-replication/src/exec/log.rs): a circular buffer of       *)
(* LOG_SIZE entries to which the combiner of every replica appends, and    *)
(* from which every combiner applies all entries, its own and the others', *)
(* to its copy of the data structure. There is one action per atomic       *)
(* access and one per access of an entry's cell; the local computation     *)
(* that follows an access belongs to its action.                           *)
(*                                                                         *)
(* A replica has one combiner at a time (the combiner lock), so that its   *)
(* control state and its locals are kept per replica. Whoever calls append *)
(* and execute is modelled by append_start and finish: here any batch at   *)
(* any time, in NodeReplication the flat combiner.                         *)
(***************************************************************************)
EXTENDS Dispatch, FiniteSets

CONSTANTS
  num_replicas,   \* number of replicas
  LOG_SIZE,       \* entries of the buffer
  GC_FROM_HEAD,   \* entries that are kept free for the largest append
  MAX_REQUESTS,   \* largest batch of one append
  MAX_IDX,        \* logical indices from here on are never handed out
  Op,             \* Op[r]: the update operations that clients of replica r issue
  NoEntry         \* content of a cell that was never written

ASSUME NrLogAssumption ==
  /\ num_replicas \in Nat \ {0}
  /\ LOG_SIZE \in Nat \ {0}
  /\ GC_FROM_HEAD \in 1 .. LOG_SIZE
  /\ MAX_REQUESTS \in 0 .. GC_FROM_HEAD
  /\ MAX_IDX \in Nat \ {0}

Replica == 0 .. num_replicas - 1

VARIABLES
  slog,                 \* the buffer: per slot the entry's cell and its alive bit
  head,                 \* no replica needs an entry below it
  tail,                 \* the next logical index to hand out
  local_versions,       \* per replica, up to where it has applied the log
  version_upper_bound,  \* the largest tail that a replica has applied
  log,                  \* every entry ever reserved (ghost)
  replicas,             \* each replica's copy of the data structure
  pc,                   \* the next access of each replica's combiner
  operations,           \* the batch being appended
  responses,            \* answers to operations of the batch
  ap,                   \* locals of append
  ah,                   \* locals of advance_head and find_min_local_version
  ex                    \* locals of execute, and where it returns to

shared == <<slog, head, tail, local_versions, version_upper_bound, log>>

vars == <<shared, replicas, pc, operations, responses, ap, ah, ex>>

index(logical) == logical % LOG_SIZE

is_alive_value(logical) == (logical \div LOG_SIZE) % 2 = 0

(* Appends stop, and the head is advanced, when the tail is this far ahead. *)
GcThreshold == LOG_SIZE - GC_FROM_HEAD

NoAppend == [tail |-> 0, head |-> 0, idx |-> 0]

NoAdvance == [global_head |-> 0, global_tail |-> 0, min |-> 0, idx |-> 0]

NoExecute == [caller |-> "none", local_version |-> 0, global_tail |-> 0]

AppendPCs == {"load_tail", "load_head", "cas_tail", "write_entry", "set_alive", "append_return"}

AdvancePCs == {"load_global_head", "load_global_tail", "find_min", "store_head"}

LoopPCs == {"wait_alive", "dispatch", "bump_version", "store_version"}

ExecutePCs == {"load_version", "load_exec_tail"} \cup LoopPCs

PCs == {"ready", "done", "panic"} \cup AppendPCs \cup AdvancePCs \cup ExecutePCs

EmptyBuffer == [s \in 0 .. LOG_SIZE - 1 |-> [log_entry |-> NoEntry, alive |-> FALSE]]

Init ==
  /\ slog = EmptyBuffer
  /\ head = 0
  /\ tail = 0
  /\ local_versions = [r \in Replica |-> 0]
  /\ version_upper_bound = 0
  /\ log = << >>
  /\ replicas = [r \in Replica |-> init_spec]
  /\ pc = [r \in Replica |-> "ready"]
  /\ operations = [r \in Replica |-> << >>]
  /\ responses = [r \in Replica |-> << >>]
  /\ ap = [r \in Replica |-> NoAppend]
  /\ ah = [r \in Replica |-> NoAdvance]
  /\ ex = [r \in Replica |-> NoExecute]

At(r, access) == pc[r] = access

Goto(r, access) == pc' = [pc EXCEPT ![r] = access]

(* Call execute, to continue with caller. *)
CallExecute(r, caller) ==
  /\ ex' = [ex EXCEPT ![r] = [NoExecute EXCEPT !.caller = caller]]
  /\ Goto(r, "load_version")

ReturnFromExecute(r) ==
  /\ ex' = [ex EXCEPT ![r] = NoExecute]
  /\ Goto(r, ex[r].caller)

NumOps(r) == Len(operations[r])

new_tail(r) == ap[r].tail + NumOps(r)

-----------------------------------------------------------------------------
(* append *)

append_start(r, ops) ==
  /\ At(r, "ready")
  /\ operations' = [operations EXCEPT ![r] = ops]
  /\ Goto(r, "load_tail")
  /\ UNCHANGED <<shared, replicas, responses, ap, ah, ex>>

LoadTail(r) ==
  /\ At(r, "load_tail")
  /\ ap' = [ap EXCEPT ![r].tail = tail]
  /\ Goto(r, "load_head")
  /\ UNCHANGED <<shared, replicas, operations, responses, ah, ex>>

(* Too little room: apply the log, then look again. Somebody else is       *)
(* expected to advance the head.                                           *)
LoadHead_Wait(r) ==
  /\ At(r, "load_head")
  /\ ap[r].tail > head + GcThreshold
  /\ ap' = [ap EXCEPT ![r] = NoAppend]
  /\ CallExecute(r, "load_tail")
  /\ UNCHANGED <<shared, replicas, operations, responses, ah>>

(* Fault: the reservation does not look at the head. *)
LoadHead_Room_NoCheck(r) ==
  /\ At(r, "load_head")
  /\ ap' = [ap EXCEPT ![r].head = head]
  /\ Goto(r, IF new_tail(r) >= MAX_IDX THEN "panic" ELSE "cas_tail")
  /\ UNCHANGED <<shared, replicas, operations, responses, ah, ex>>


LoadHead_Room(r) ==
  /\ At(r, "load_head")
  /\ ap[r].tail <= head + GcThreshold
  /\ ap' = [ap EXCEPT ![r].head = head]
  /\ Goto(r, IF new_tail(r) >= MAX_IDX THEN "panic" ELSE "cas_tail")
  /\ UNCHANGED <<shared, replicas, operations, responses, ah, ex>>

(* The code hangs in an endless loop on purpose. *)
WarnTailTooBig(r) ==
  /\ At(r, "panic")
  /\ UNCHANGED vars

(* Reserve the entries. This is where the batch enters the unbounded log. *)
CasTail(r) ==
  /\ At(r, "cas_tail")
  /\ tail = ap[r].tail
  /\ tail' = new_tail(r)
  /\ log' = log \o [i \in 1 .. NumOps(r) |-> [op |-> operations[r][i], node_id |-> r]]
  /\ Goto(r, IF NumOps(r) = 0 THEN "append_return" ELSE "write_entry")
  /\ UNCHANGED <<slog, head, local_versions, version_upper_bound, replicas, operations, responses,
                 ap, ah, ex>>

(* The tail has moved, or compare_exchange_weak has failed without reason. *)
CasTailFails(r) ==
  /\ At(r, "cas_tail")
  /\ ap' = [ap EXCEPT ![r] = NoAppend]
  /\ Goto(r, "load_tail")
  /\ UNCHANGED <<shared, replicas, operations, responses, ah, ex>>

cur_idx(r) == ap[r].tail + ap[r].idx

WriteEntry(r) ==
  /\ At(r, "write_entry")
  /\ slog' = [slog EXCEPT ![index(cur_idx(r))].log_entry =
                [op |-> operations[r][ap[r].idx + 1], node_id |-> r]]
  /\ Goto(r, "set_alive")
  /\ UNCHANGED <<head, tail, local_versions, version_upper_bound, log, replicas, operations,
                 responses, ap, ah, ex>>

(* Fault: the alive bit means the same in every round. *)
SetAlive_NoParity(r) ==
  /\ At(r, "set_alive")
  /\ slog' = [slog EXCEPT ![index(cur_idx(r))].alive = TRUE]
  /\ ap' = [ap EXCEPT ![r].idx = @ + 1]
  /\ Goto(r, IF ap[r].idx + 1 < NumOps(r) THEN "write_entry" ELSE "append_return")
  /\ UNCHANGED <<head, tail, local_versions, version_upper_bound, log, replicas, operations,
                 responses, ah, ex>>


SetAlive(r) ==
  /\ At(r, "set_alive")
  /\ slog' = [slog EXCEPT ![index(cur_idx(r))].alive = is_alive_value(cur_idx(r))]
  /\ ap' = [ap EXCEPT ![r].idx = @ + 1]
  /\ Goto(r, IF ap[r].idx + 1 < NumOps(r) THEN "write_entry" ELSE "append_return")
  /\ UNCHANGED <<head, tail, local_versions, version_upper_bound, log, replicas, operations,
                 responses, ah, ex>>

(* Decided on the head that was loaded before the reservation. *)
must_advance(r) == new_tail(r) > ap[r].head + GcThreshold

AppendReturn_Advance(r) ==
  /\ At(r, "append_return")
  /\ must_advance(r)
  /\ ap' = [ap EXCEPT ![r] = NoAppend]
  /\ Goto(r, "load_global_head")
  /\ UNCHANGED <<shared, replicas, operations, responses, ah, ex>>

(* Fault: nothing appended, nothing executed. *)
AppendReturn_Execute_Skip(r) ==
  /\ At(r, "append_return")
  /\ ~must_advance(r)
  /\ ap' = [ap EXCEPT ![r] = NoAppend]
  /\ IF NumOps(r) = 0 THEN Goto(r, "done") /\ UNCHANGED ex ELSE CallExecute(r, "done")
  /\ UNCHANGED <<shared, replicas, operations, responses, ah>>

AppendReturn_Execute(r) ==
  /\ At(r, "append_return")
  /\ ~must_advance(r)
  /\ ap' = [ap EXCEPT ![r] = NoAppend]
  /\ CallExecute(r, "done")
  /\ UNCHANGED <<shared, replicas, operations, responses, ah>>

-----------------------------------------------------------------------------
(* advance_head *)

LoadGlobalHead(r) ==
  /\ At(r, "load_global_head")
  /\ ah' = [ah EXCEPT ![r].global_head = head]
  /\ Goto(r, "load_global_tail")
  /\ UNCHANGED <<shared, replicas, operations, responses, ap, ex>>

LoadGlobalTail(r) ==
  /\ At(r, "load_global_tail")
  /\ ah' = [ah EXCEPT ![r].global_tail = tail]
  /\ Goto(r, "find_min")
  /\ UNCHANGED <<shared, replicas, operations, responses, ap, ex>>

(* One iteration of find_min_local_version. *)
FindMin(r) ==
  LET i == ah[r].idx
      v == local_versions[i]
  IN  /\ At(r, "find_min")
      /\ ah' = [ah EXCEPT ![r].idx = i + 1,
                          ![r].min = IF i = 0 \/ v < @ THEN v ELSE @]
      /\ Goto(r, IF i + 1 < num_replicas THEN "find_min" ELSE "store_head")
      /\ UNCHANGED <<shared, replicas, operations, responses, ap, ex>>

(* Nothing to free: apply the log, then look again. *)
NothingToFree(r) ==
  /\ At(r, "store_head")
  /\ ah[r].min = ah[r].global_head
  /\ ah' = [ah EXCEPT ![r] = NoAdvance]
  /\ CallExecute(r, "load_global_head")
  /\ UNCHANGED <<shared, replicas, operations, responses, ap>>

(* A plain store: the head may meanwhile be beyond this minimum. *)
StoreHead(r) ==
  /\ At(r, "store_head")
  /\ ah[r].min # ah[r].global_head
  /\ head' = ah[r].min
  /\ ah' = [ah EXCEPT ![r] = NoAdvance]
  /\ CallExecute(r, IF ah[r].global_tail < ah[r].min + GcThreshold THEN "done" ELSE "load_global_head")
  /\ UNCHANGED <<slog, tail, local_versions, version_upper_bound, log, replicas, operations,
                 responses, ap>>

-----------------------------------------------------------------------------
(* execute *)

LoadLocalVersion(r) ==
  /\ At(r, "load_version")
  /\ ex' = [ex EXCEPT ![r].local_version = local_versions[r]]
  /\ Goto(r, "load_exec_tail")
  /\ UNCHANGED <<shared, replicas, operations, responses, ap, ah>>

LoadExecTail_NoWork(r) ==
  /\ At(r, "load_exec_tail")
  /\ ex[r].local_version = tail
  /\ ReturnFromExecute(r)
  /\ UNCHANGED <<shared, replicas, operations, responses, ap, ah>>

LoadExecTail_Work(r) ==
  /\ At(r, "load_exec_tail")
  /\ ex[r].local_version # tail
  /\ ex' = [ex EXCEPT ![r].global_tail = tail]
  /\ Goto(r, "wait_alive")
  /\ UNCHANGED <<shared, replicas, operations, responses, ap, ah>>

alive(i) == slog[index(i)].alive = is_alive_value(i)

(* Fault: an entry below the tail is taken to be filled. *)
WaitAlive_Skip(r) ==
  /\ At(r, "wait_alive")
  /\ Goto(r, "dispatch")
  /\ UNCHANGED <<shared, replicas, operations, responses, ap, ah, ex>>

(* The combiner spins until the entry is filled. *)
WaitAlive(r) ==
  /\ At(r, "wait_alive")
  /\ alive(ex[r].local_version)
  /\ Goto(r, "dispatch")
  /\ UNCHANGED <<shared, replicas, operations, responses, ap, ah, ex>>

DispatchEntry(r) ==
  LET entry == slog[index(ex[r].local_version)].log_entry
      out   == dispatch_mut_spec(replicas[r], entry.op)
  IN  /\ At(r, "dispatch")
      /\ replicas' = [replicas EXCEPT ![r] = out.view]
      /\ responses' = IF entry.node_id = r THEN [responses EXCEPT ![r] = Append(@, out.ret)]
                      ELSE responses
      /\ ex' = [ex EXCEPT ![r].local_version = @ + 1]
      /\ Goto(r, IF ex[r].local_version + 1 < ex[r].global_tail THEN "wait_alive" ELSE "bump_version")
      /\ UNCHANGED <<shared, operations, ap, ah>>

(* fetch_max *)
BumpVersionUpperBound(r) ==
  /\ At(r, "bump_version")
  /\ version_upper_bound' =
       IF ex[r].global_tail > version_upper_bound THEN ex[r].global_tail ELSE version_upper_bound
  /\ Goto(r, "store_version")
  /\ UNCHANGED <<slog, head, tail, local_versions, log, replicas, operations, responses, ap, ah, ex>>


StoreLocalVersion(r) ==
  /\ At(r, "store_version")
  /\ local_versions' = [local_versions EXCEPT ![r] = ex[r].global_tail]
  /\ ReturnFromExecute(r)
  /\ UNCHANGED <<slog, head, tail, version_upper_bound, log, replicas, operations, responses, ap, ah>>

-----------------------------------------------------------------------------

(* Fault: the response buffer is not cleared. *)
finish_KeepResponses(r) ==
  /\ At(r, "done")
  /\ operations' = [operations EXCEPT ![r] = << >>]
  /\ Goto(r, "ready")
  /\ UNCHANGED <<shared, replicas, responses, ap, ah, ex>>

(* The caller takes the responses and clears its buffers. *)
finish(r) ==
  /\ At(r, "done")
  /\ operations' = [operations EXCEPT ![r] = << >>]
  /\ responses' = [responses EXCEPT ![r] = << >>]
  /\ Goto(r, "ready")
  /\ UNCHANGED <<shared, replicas, ap, ah, ex>>

append(r) ==
  \/ LoadTail(r) \/ LoadHead_Wait(r) \/ LoadHead_Room(r) \/ WarnTailTooBig(r)
  \/ CasTail(r) \/ CasTailFails(r) \/ WriteEntry(r) \/ SetAlive(r)
  \/ AppendReturn_Advance(r) \/ AppendReturn_Execute(r)

advance_head(r) ==
  \/ LoadGlobalHead(r) \/ LoadGlobalTail(r) \/ FindMin(r) \/ NothingToFree(r) \/ StoreHead(r)

execute(r) ==
  \/ LoadLocalVersion(r) \/ LoadExecTail_NoWork(r) \/ LoadExecTail_Work(r)
  \/ WaitAlive(r) \/ DispatchEntry(r) \/ BumpVersionUpperBound(r) \/ StoreLocalVersion(r)

LogStep(r) == append(r) \/ advance_head(r) \/ execute(r)

Batch(r) == UNION {[1 .. n -> Op[r]] : n \in 0 .. MAX_REQUESTS}

Next ==
  \E r \in Replica :
     \/ \E ops \in Batch(r) : append_start(r, ops)
     \/ LogStep(r)
     \/ finish(r)

Spec == Init /\ [][Next]_vars

(* A combiner that has started keeps running; starting one is the clients' *)
(* choice.                                                                 *)
FairSpec == Spec /\ \A r \in Replica : WF_vars(LogStep(r))
=============================================================================
