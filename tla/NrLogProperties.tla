-------------------------- MODULE NrLogProperties --------------------------
(***************************************************************************)
(* What the shared log promises, and the circular buffer it implements.    *)
(***************************************************************************)
EXTENDS NrLog

(* Where a replica's copy of the data structure has got to.                *)
current_local_version(r) == IF pc[r] \in LoopPCs THEN ex[r].local_version ELSE local_versions[r]

(* Entries that r has reserved and not yet set alive. *)
Filling(r) ==
  IF pc[r] \in {"write_entry", "set_alive"} THEN cur_idx(r) .. new_tail(r) - 1 ELSE {}

Entry == UNION {[op : Op[r], node_id : {r}] : r \in Replica}

AllOps == UNION {Op[r] : r \in Replica}

(* Types. *)
TypeOK ==
  /\ slog \in [0 .. LOG_SIZE - 1 -> [log_entry : Entry \cup {NoEntry}, alive : BOOLEAN]]
  /\ head \in 0 .. MAX_IDX
  /\ tail \in 0 .. MAX_IDX - 1
  /\ local_versions \in [Replica -> 0 .. MAX_IDX]
  /\ version_upper_bound \in 0 .. MAX_IDX
  /\ log \in Seq(Entry)
  /\ replicas \in [Replica -> Seq(AllOps)]
  /\ pc \in [Replica -> PCs]
  /\ \A r \in Replica : operations[r] \in Batch(r)
  /\ responses \in [Replica -> Seq(Seq(AllOps))]
  /\ ap \in [Replica -> [tail : 0 .. MAX_IDX, head : 0 .. MAX_IDX, idx : 0 .. MAX_REQUESTS]]
  /\ ah \in [Replica -> [global_head : 0 .. MAX_IDX, global_tail : 0 .. MAX_IDX,
                         min : 0 .. MAX_IDX, idx : 0 .. num_replicas]]
  /\ ex \in [Replica -> [caller : {"none", "load_tail", "load_global_head", "done"},
                         local_version : 0 .. MAX_IDX, global_tail : 0 .. MAX_IDX]]

(* No combiner writes a cell that another one writes or reads, although    *)
(* cells are accessed without synchronisation.                             *)
NoCellRace ==
  LET writing(r) == IF At(r, "write_entry") THEN {index(cur_idx(r))} ELSE {}
      reading(r) == IF At(r, "dispatch") THEN {index(ex[r].local_version)} ELSE {}
  IN  \A r, s \in Replica : r # s => writing(r) \cap (writing(s) \cup reading(s)) = {}

(* An entry that is alive for a round of the buffer is the entry of that   *)
(* round, whole, and it stays so until every replica has applied it.       *)
AliveEntriesAreTheLog ==
  \A i \in 0 .. tail - 1 :
     (\E r \in Replica : local_versions[r] <= i) =>
        /\ alive(i) <=> \A r \in Replica : i \notin Filling(r)
        /\ alive(i) => slog[index(i)].log_entry = log[i + 1]

(* A copy of the data structure is always the result of applying a prefix  *)
(* of the log, whatever was overwritten while it was being applied.        *)
replica_state ==
  \A r \in Replica : replicas[r] = compute_nrstate_at_version(log, current_local_version(r))

(* When the combiner is done, every operation of its batch has exactly one *)
(* answer, in order, and the answer is that of the log: whichever of the   *)
(* executes of append, advance_head and combine came across the entry.     *)
ResponsesMatchLog ==
  \A r \in Replica : At(r, "done") =>
     /\ Len(responses[r]) = NumOps(r)
     /\ NumOps(r) > 0 =>
          \E i \in 0 .. tail - NumOps(r) :
             \A k \in 1 .. NumOps(r) :
                /\ log[i + k] = [op |-> operations[r][k], node_id |-> r]
                /\ responses[r][k] = compute_nrstate_at_version(log, i + k - 1)

(* Replicas are prefixes of the log and hand out its answers, one for each *)
(* operation and in order, with every index inside its bounds (the code    *)
(* stops a combiner before the tail reaches MAX_IDX).                      *)
NrLogInv == TypeOK /\ replica_state /\ ResponsesMatchLog

(* The executes of append's and advance_head's waiting loops never wait    *)
(* for ever: whoever has reserved entries fills them.                      *)
ExecuteTerminates ==
  \A r \in Replica : pc[r] \in ExecutePCs ~> pc[r] \notin ExecutePCs

(* "The replica that reserved entry (h + self.slog.len() - GC_FROM_HEAD)   *)
(* is currently trying to advance the head of the log" (log.rs, append):   *)
(* whenever the log is too full for an append, somebody is in advance_head *)
(* or about to call it.                                                    *)
HeadBeingAdvanced ==
  tail > head + GcThreshold =>
     \E r \in Replica :
        \/ pc[r] \in AdvancePCs \/ ex[r].caller = "load_global_head"
        \/ pc[r] \in {"write_entry", "set_alive", "append_return"} /\ must_advance(r)

-----------------------------------------------------------------------------
(* The circular buffer *)

(* The permissions that no combiner has withdrawn. *)
interp_contents ==
  {i \in tail - LOG_SIZE .. tail - 1 : \A r \in Replica : i \notin Filling(r)}

interp_alive_bits == [s \in 0 .. LOG_SIZE - 1 |-> slog[s].alive]

(* What a combiner is doing with the buffer: its token. *)
interp_combiner ==
  [r \in Replica |->
    LET start == local_versions[r]
        end   == ex[r].global_tail
        cur   == ex[r].local_version
    IN  CASE pc[r] = "cas_tail" -> [state |-> "AdvancingTail", observed_head |-> ap[r].head]
          [] pc[r] \in {"write_entry", "set_alive", "append_return"} ->
               [state |-> "Appending", cur_idx |-> cur_idx(r), tail |-> new_tail(r)]
          [] pc[r] \in {"find_min", "store_head"} /\ ah[r].idx > 0 ->
               [state |-> "AdvancingHead", idx |-> ah[r].idx, min_local_version |-> ah[r].min]
          [] pc[r] = "load_exec_tail" -> [state |-> "Starting", start |-> cur]
          [] pc[r] \in {"wait_alive", "bump_version", "store_version"} ->
               [state |-> "Range", start |-> start, end |-> end, cur |-> cur]
          [] pc[r] = "dispatch" -> [state |-> "Guard", start |-> start, end |-> end, cur |-> cur]
          [] OTHER -> [state |-> "Idle"]]

CB == INSTANCE CyclicBuffer WITH
  contents   <- interp_contents,
  alive_bits <- interp_alive_bits,
  combiner   <- interp_combiner

(* Every access of the log is a transition of the circular buffer or       *)
(* changes none of its tokens, as the ghost code of log.rs claims.         *)
RefinesCyclicBuffer == CB!Spec
=============================================================================
