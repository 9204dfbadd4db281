---------------------------- MODULE FlatCombiner ---------------------------
(***************************************************************************)
(* The token machine of flat combining                                     *)
(* (verified-node-replication/src/spec/flat_combiner.rs): every client has *)
(* a slot for a request and its response; the combiner goes over all slots *)
(* to collect requests and once more to respond.                           *)
(***************************************************************************)
EXTENDS Integers, Sequences

CONSTANTS
  num_threads,
  ReqId          \* request ids, different from NoReq

CONSTANT NoReq   \* a slot from which nothing was collected

ThreadId == 0 .. num_threads - 1

VARIABLES clients, slots, combiner

vars == <<clients, slots, combiner>>

Idle == [state |-> "Idle"]

Waiting(rid) == [state |-> "Waiting", rid |-> rid]

EmptySlot == [state |-> "Empty"]

Slot(state, rid) == [state |-> state, rid |-> rid]

Collecting(reqs) == [state |-> "Collecting", reqs |-> reqs]

Responding(reqs, tid) == [state |-> "Responding", reqs |-> reqs, tid |-> tid]

Init ==
  /\ clients = [t \in ThreadId |-> Idle]
  /\ slots = [t \in ThreadId |-> EmptySlot]
  /\ combiner = Collecting(<< >>)

-----------------------------------------------------------------------------
(* Collecting *)

(* The slot the combiner collects from next. *)
Next_tid == Len(combiner.reqs)

combiner_collect_empty ==
  /\ combiner.state = "Collecting"
  /\ Next_tid < num_threads
  /\ slots[Next_tid].state \in {"Empty", "Response"}
  /\ combiner' = Collecting(Append(combiner.reqs, NoReq))
  /\ UNCHANGED <<clients, slots>>

combiner_collect_request ==
  /\ combiner.state = "Collecting"
  /\ Next_tid < num_threads
  /\ slots[Next_tid].state = "Request"
  /\ slots' = [slots EXCEPT ![Next_tid] = Slot("InProgress", @.rid)]
  /\ combiner' = Collecting(Append(combiner.reqs, slots[Next_tid].rid))
  /\ UNCHANGED clients

(* Responding *)

combiner_responding_start ==
  /\ combiner.state = "Collecting"
  /\ Len(combiner.reqs) = num_threads
  /\ combiner' = Responding(combiner.reqs, 0)
  /\ UNCHANGED <<clients, slots>>

combiner_responding_empty ==
  LET tid == combiner.tid
  IN  /\ combiner.state = "Responding"
      /\ tid < num_threads
      /\ combiner.reqs[tid + 1] = NoReq
      /\ combiner' = Responding(combiner.reqs, tid + 1)
      /\ UNCHANGED <<clients, slots>>

combiner_responding_result ==
  LET tid == combiner.tid
  IN  /\ combiner.state = "Responding"
      /\ tid < num_threads
      /\ combiner.reqs[tid + 1] # NoReq
      /\ slots[tid] = Slot("InProgress", combiner.reqs[tid + 1])
      /\ combiner' = Responding(combiner.reqs, tid + 1)
      /\ slots' = [slots EXCEPT ![tid] = Slot("Response", @.rid)]
      /\ UNCHANGED clients

combiner_responding_done ==
  /\ combiner.state = "Responding"
  /\ combiner.tid = num_threads
  /\ combiner' = Collecting(<< >>)
  /\ UNCHANGED <<clients, slots>>

-----------------------------------------------------------------------------
(* Clients *)

send_request(tid, rid) ==
  /\ clients[tid] = Idle
  /\ slots[tid] = EmptySlot
  /\ clients' = [clients EXCEPT ![tid] = Waiting(rid)]
  /\ slots' = [slots EXCEPT ![tid] = Slot("Request", rid)]
  /\ UNCHANGED combiner

recv_response(tid, rid) ==
  /\ clients[tid] = Waiting(rid)
  /\ slots[tid] = Slot("Response", rid)
  /\ clients' = [clients EXCEPT ![tid] = Idle]
  /\ slots' = [slots EXCEPT ![tid] = EmptySlot]
  /\ UNCHANGED combiner

Next ==
  \/ combiner_collect_empty \/ combiner_collect_request
  \/ combiner_responding_start \/ combiner_responding_empty
  \/ combiner_responding_result \/ combiner_responding_done
  \/ \E tid \in ThreadId, rid \in ReqId : send_request(tid, rid) \/ recv_response(tid, rid)

Spec == Init /\ [][Next]_vars
=============================================================================
