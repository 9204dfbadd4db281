---------------------------- MODULE CyclicBuffer ---------------------------
(***************************************************************************)
(* The token machine of the circular buffer                                *)
(* (verified-node-replication/src/spec/cyclicbuffer.rs): what the log may  *)
(* do with its pointers, its alive bits and the permissions to its cells,  *)
(* whatever the combiners do with the entries.                             *)
(*                                                                         *)
(* The permission to a cell is known by the logical index it was deposited *)
(* under, from -LOG_SIZE for the cells nobody has written. contents is the *)
(* set of the permissions the buffer holds; a combiner that appends has    *)
(* withdrawn those of the entries it overwrites.                           *)
(***************************************************************************)
EXTENDS Integers

CONSTANTS
  num_replicas,
  LOG_SIZE,
  MAX_IDX     \* bound of the tail

ASSUME CyclicBufferAssumption ==
  /\ num_replicas \in Nat \ {0}
  /\ LOG_SIZE \in Nat \ {0}
  /\ MAX_IDX \in Nat

Replica == 0 .. num_replicas - 1

VARIABLES
  head, tail,
  local_versions,
  contents,       \* logical indices of the permissions the buffer holds
  alive_bits,     \* per slot
  combiner        \* what each replica's combiner is doing

vars == <<head, tail, local_versions, contents, alive_bits, combiner>>

log_entry_idx(i) == i % LOG_SIZE

log_entry_alive_value(i) == (i \div LOG_SIZE) % 2 = 0

log_entry_is_alive(i) == alive_bits[log_entry_idx(i)] = log_entry_alive_value(i)

Idle == [state |-> "Idle"]

Starting(start) == [state |-> "Starting", start |-> start]

Range(start, end, cur) == [state |-> "Range", start |-> start, end |-> end, cur |-> cur]

Guard(start, end, cur) == [state |-> "Guard", start |-> start, end |-> end, cur |-> cur]

AdvancingHead(idx, min) == [state |-> "AdvancingHead", idx |-> idx, min_local_version |-> min]

AdvancingTail(observed_head) == [state |-> "AdvancingTail", observed_head |-> observed_head]

Appending(cur_idx, t) == [state |-> "Appending", cur_idx |-> cur_idx, tail |-> t]

Index == 0 .. MAX_IDX

CombinerState ==
  {Idle}
    \cup [state : {"Starting"}, start : Index]
    \cup [state : {"Range", "Guard"}, start : Index, end : Index, cur : Index]
    \cup [state : {"AdvancingHead"}, idx : 0 .. num_replicas, min_local_version : Index]
    \cup [state : {"AdvancingTail"}, observed_head : Index]
    \cup [state : {"Appending"}, cur_idx : Index, tail : Index]

In(r, state) == combiner[r].state = state

Become(r, c) == combiner' = [combiner EXCEPT ![r] = c]

Init ==
  /\ head = 0
  /\ tail = 0
  /\ local_versions = [r \in Replica |-> 0]
  /\ contents = -LOG_SIZE .. -1
  /\ alive_bits = [s \in 0 .. LOG_SIZE - 1 |-> ~log_entry_alive_value(s)]
  /\ combiner = [r \in Replica |-> Idle]

-----------------------------------------------------------------------------
(* Faults *)

(* The reservation does not look at the head. *)
advance_tail_finish_NoBound(r, new_tail) ==
  /\ In(r, "AdvancingTail")
  /\ tail <= new_tail
  /\ tail' = new_tail
  /\ contents' = contents \ (tail - LOG_SIZE .. new_tail - LOG_SIZE - 1)
  /\ Become(r, Appending(tail, new_tail))
  /\ UNCHANGED <<head, local_versions, alive_bits>>

(* The reservation is off by one. *)
advance_tail_finish_OffByOne(r, new_tail) ==
  /\ In(r, "AdvancingTail")
  /\ tail <= new_tail
  /\ new_tail <= combiner[r].observed_head + LOG_SIZE + 1
  /\ tail' = new_tail
  /\ contents' = contents \ (tail - LOG_SIZE .. new_tail - LOG_SIZE - 1)
  /\ Become(r, Appending(tail, new_tail))
  /\ UNCHANGED <<head, local_versions, alive_bits>>

(* The combiner goes on past the entries it has reserved. *)
append_flip_bit_Overrun(r) ==
  LET c == combiner[r]
  IN  /\ In(r, "Appending")
      /\ alive_bits' = [alive_bits EXCEPT ![log_entry_idx(c.cur_idx)] = log_entry_alive_value(c.cur_idx)]
      /\ contents' = contents \cup {c.cur_idx}
      /\ Become(r, Appending(c.cur_idx + 1, c.tail))
      /\ UNCHANGED <<head, tail, local_versions>>

(* The bit is flipped before the entry is written. *)
append_flip_bit_First(r) ==
  LET c == combiner[r]
  IN  /\ In(r, "Appending")
      /\ c.cur_idx < c.tail
      /\ alive_bits' = [alive_bits EXCEPT ![log_entry_idx(c.cur_idx)] = log_entry_alive_value(c.cur_idx)]
      /\ contents' = contents \cup {c.cur_idx - 1}
      /\ Become(r, Appending(c.cur_idx + 1, c.tail))
      /\ UNCHANGED <<head, tail, local_versions>>

-----------------------------------------------------------------------------
(* Reading the log *)

reader_start(r) ==
  /\ In(r, "Idle")
  /\ Become(r, Starting(local_versions[r]))
  /\ UNCHANGED <<head, tail, local_versions, contents, alive_bits>>

reader_enter(r) ==
  /\ In(r, "Starting")
  /\ Become(r, Range(combiner[r].start, tail, combiner[r].start))
  /\ UNCHANGED <<head, tail, local_versions, contents, alive_bits>>

reader_guard(r) ==
  LET c == combiner[r]
  IN  /\ In(r, "Range")
      /\ c.cur < c.end
      /\ log_entry_is_alive(c.cur)
      /\ Become(r, Guard(c.start, c.end, c.cur))
      /\ UNCHANGED <<head, tail, local_versions, contents, alive_bits>>

reader_unguard(r) ==
  LET c == combiner[r]
  IN  /\ In(r, "Guard")
      /\ Become(r, Range(c.start, c.end, c.cur + 1))
      /\ UNCHANGED <<head, tail, local_versions, contents, alive_bits>>

reader_finish(r) ==
  LET c == combiner[r]
  IN  /\ In(r, "Range")
      /\ c.cur = c.end
      /\ local_versions' = [local_versions EXCEPT ![r] = c.end]
      /\ Become(r, Idle)
      /\ UNCHANGED <<head, tail, contents, alive_bits>>

reader_abort(r) ==
  /\ In(r, "Starting") \/ In(r, "Range")
  /\ Become(r, Idle)
  /\ UNCHANGED <<head, tail, local_versions, contents, alive_bits>>

-----------------------------------------------------------------------------
(* Advancing the head *)

advance_head_start(r) ==
  /\ In(r, "Idle")
  /\ Become(r, AdvancingHead(1, local_versions[0]))
  /\ UNCHANGED <<head, tail, local_versions, contents, alive_bits>>

(* Fault: the last version read is taken for the smallest one. *)
advance_head_next_Last(r) ==
  LET c == combiner[r]
  IN  /\ In(r, "AdvancingHead")
      /\ c.idx < num_replicas
      /\ Become(r, AdvancingHead(c.idx + 1, local_versions[c.idx]))
      /\ UNCHANGED <<head, tail, local_versions, contents, alive_bits>>

advance_head_next(r) ==
  LET c == combiner[r]
      v == local_versions[c.idx]
  IN  /\ In(r, "AdvancingHead")
      /\ c.idx < num_replicas
      /\ Become(r, AdvancingHead(c.idx + 1, IF v < c.min_local_version THEN v ELSE c.min_local_version))
      /\ UNCHANGED <<head, tail, local_versions, contents, alive_bits>>

(* The head may go backwards here: other combiners advance it as well. *)
advance_head_finish(r) ==
  /\ In(r, "AdvancingHead")
  /\ combiner[r].idx = num_replicas
  /\ head' = combiner[r].min_local_version
  /\ Become(r, Idle)
  /\ UNCHANGED <<tail, local_versions, contents, alive_bits>>

advance_head_abort(r) ==
  /\ In(r, "AdvancingHead")
  /\ Become(r, Idle)
  /\ UNCHANGED <<head, tail, local_versions, contents, alive_bits>>

-----------------------------------------------------------------------------
(* Advancing the tail and appending *)

advance_tail_start(r) ==
  /\ In(r, "Idle")
  /\ Become(r, AdvancingTail(head))
  /\ UNCHANGED <<head, tail, local_versions, contents, alive_bits>>

advance_tail_finish(r, new_tail) ==
  /\ In(r, "AdvancingTail")
  /\ tail <= new_tail
  /\ new_tail <= combiner[r].observed_head + LOG_SIZE
  /\ tail' = new_tail
  /\ contents' = contents \ (tail - LOG_SIZE .. new_tail - LOG_SIZE - 1)
  /\ Become(r, Appending(tail, new_tail))
  /\ UNCHANGED <<head, local_versions, alive_bits>>

advance_tail_abort(r) ==
  /\ In(r, "AdvancingTail")
  /\ Become(r, Idle)
  /\ UNCHANGED <<head, tail, local_versions, contents, alive_bits>>

append_flip_bit(r) ==
  LET c == combiner[r]
  IN  /\ In(r, "Appending")
      /\ c.cur_idx < c.tail
      /\ alive_bits' = [alive_bits EXCEPT ![log_entry_idx(c.cur_idx)] = log_entry_alive_value(c.cur_idx)]
      /\ contents' = contents \cup {c.cur_idx}
      /\ Become(r, Appending(c.cur_idx + 1, c.tail))
      /\ UNCHANGED <<head, tail, local_versions>>

append_finish(r) ==
  /\ In(r, "Appending")
  /\ combiner[r].cur_idx = combiner[r].tail
  /\ Become(r, Idle)
  /\ UNCHANGED <<head, tail, local_versions, contents, alive_bits>>

-----------------------------------------------------------------------------

Next ==
  \E r \in Replica :
     \/ reader_start(r) \/ reader_enter(r) \/ reader_guard(r) \/ reader_unguard(r)
     \/ reader_finish(r) \/ reader_abort(r)
     \/ advance_head_start(r) \/ advance_head_next(r) \/ advance_head_finish(r)
     \/ advance_head_abort(r)
     \/ advance_tail_start(r) \/ (\E t \in Index : advance_tail_finish(r, t)) \/ advance_tail_abort(r)
     \/ append_flip_bit(r) \/ append_finish(r)

Spec == Init /\ [][Next]_vars

-----------------------------------------------------------------------------
(* Properties *)

(* Types. *)
TypeOK ==
  /\ head \in Index
  /\ tail \in Index
  /\ local_versions \in [Replica -> Index]
  /\ contents \subseteq -LOG_SIZE .. MAX_IDX - 1
  /\ alive_bits \in [0 .. LOG_SIZE - 1 -> BOOLEAN]
  /\ combiner \in [Replica -> CombinerState]

(* No version is below the head or beyond the tail, and the tail never     *)
(* laps the slowest replica: although a combiner reserves entries with a   *)
(* head it has read earlier, and although the head may go backwards.       *)
pointer_ordering ==
  /\ head <= tail
  /\ \A r \in Replica : head <= local_versions[r] /\ local_versions[r] <= tail
  /\ \A r \in Replica : tail <= local_versions[r] + LOG_SIZE

(* What a reader has loaded stays usable while the others move on.         *)
reader_state_valid(r) ==
  LET c == combiner[r]
  IN  /\ c.state = "Starting" => c.start = local_versions[r]
      /\ c.state \in {"Range", "Guard"} =>
            /\ c.start = local_versions[r]
            /\ c.start <= c.cur
            /\ c.cur <= c.end
            /\ c.end <= tail
      /\ c.state = "Guard" => c.cur < c.end

(* So does what the combiners that advance the head or the tail have       *)
(* loaded: no version falls below the minimum computed so far, or below    *)
(* the head that was observed.                                             *)
combiner_valid(r) ==
  LET c == combiner[r]
  IN  /\ c.state = "AdvancingHead" =>
            \A n \in 0 .. c.idx - 1 : c.min_local_version <= local_versions[n]
      /\ c.state = "AdvancingTail" => \A n \in Replica : c.observed_head <= local_versions[n]
      /\ c.state = "Appending" =>
            /\ local_versions[r] <= c.cur_idx
            /\ c.cur_idx <= c.tail
            /\ c.tail <= tail

(* The entries a reader has passed are still there, the one it works on    *)
(* is of this round of the buffer and not of another, and the entries that *)
(* an appender has yet to fill are not alive.                              *)
entries_valid(r) ==
  LET c == combiner[r]
  IN  /\ c.state \in {"Range", "Guard"} =>
            \A i \in c.start .. c.cur - 1 : log_entry_is_alive(i) /\ i \in contents
      /\ c.state = "Guard" => c.cur \in contents
      /\ c.state = "Appending" =>
            /\ tail - LOG_SIZE <= c.cur_idx
            /\ \A i \in c.cur_idx .. c.tail - 1 : ~log_entry_is_alive(i)

(* Whatever a combiner has loaded stays valid until it uses it.            *)
all_combiner_valid ==
  \A r \in Replica : reader_state_valid(r) /\ combiner_valid(r) /\ entries_valid(r)

(* Every cell's permission exists exactly once: in the buffer, or with the *)
(* one combiner that is filling the entry (ranges_no_overlap).             *)
OneHolderPerCell ==
  LET filling(r) == IF In(r, "Appending") THEN combiner[r].cur_idx .. combiner[r].tail - 1 ELSE {}
  IN  /\ \A i, j \in contents : log_entry_idx(i) = log_entry_idx(j) => i = j
      /\ \A r \in Replica : \A i \in filling(r) :
            /\ \A j \in contents : log_entry_idx(i) # log_entry_idx(j)
            /\ \A s \in Replica \ {r} : \A j \in filling(s) : log_entry_idx(i) # log_entry_idx(j)

(* No entry is alive before it is filled: up to where the tail may get,    *)
(* the alive bits still have the value of the previous round.              *)
upcoming_bits_are_not_alive ==
  \A i \in tail .. MAX_IDX + LOG_SIZE :
     (\A r \in Replica : i < local_versions[r] + LOG_SIZE) => ~log_entry_is_alive(i)

(* The entries that can be read are those that are alive or that everybody *)
(* has read already.                                                       *)
inv_buffer_contents ==
  /\ contents \subseteq tail - LOG_SIZE .. tail - 1
  /\ \A i \in tail - LOG_SIZE .. tail - 1 :
       i \in contents <=> log_entry_is_alive(i) \/ \A r \in Replica : i < local_versions[r]

(* The alive bits tell filled entries from reserved ones although their    *)
(* meaning flips in every round and no bit is ever reset.                  *)
alive_bits_inv == upcoming_bits_are_not_alive /\ inv_buffer_contents
=============================================================================
