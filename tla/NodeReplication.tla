-------------------------- MODULE NodeReplication --------------------------
(***************************************************************************)
(* Node replication as its clients use it                                  *)
(* (verified-node-replication/src/exec/replica.rs and context.rs): the     *)
(* threads of each replica, the flat combiner that gathers their updates   *)
(* and hands back the answers, and reads, on top of the shared log.        *)
(*                                                                         *)
(* A thread is either a client or, while it holds its replica's combiner   *)
(* lock, the combiner. The reader-writer lock of the replica is that of    *)
(* RwLock: the combiner has it for writing while it works on the log, and  *)
(* a read, which accesses the copy once, is one step that has it for       *)
(* reading.                                                                *)
(***************************************************************************)
EXTENDS NrLog

CONSTANTS
  num_threads,   \* threads of a replica
  NoThread,      \* the combiner lock is free
  NoResp         \* a context without an answer

ASSUME NodeReplicationAssumption ==
  /\ num_threads \in 0 .. MAX_REQUESTS
  /\ NoThread \notin Nat
  /\ NoResp \notin Replica \X Nat
  /\ Op = [r \in Replica |-> {<<r, t>> : t \in 0 .. num_threads - 1}]

Thread == 0 .. num_threads - 1

VARIABLES
  client,     \* what each thread does next for its request
  bound,      \* the version a read waits for
  atomic,     \* per context: 1 while the thread's update waits for its answer
  resp,       \* per context: the answer
  combiner,   \* the thread that holds the replica's combiner lock
  phase,      \* what the combiner is doing
  num_ops,    \* num_ops_per_thread, as far as it has been collected
  collected_operations,  \* the updates collected so far
  thread_idx, \* the next thread to be answered
  resp_idx,   \* the answers that have been handed out
  label       \* what a client has seen of the last step (ghost)

contexts == <<atomic, resp>>

progress == <<thread_idx, resp_idx>>

collected == <<num_ops, collected_operations>>

combining == <<combiner, phase, collected, progress>>

nrvars == <<client, bound, contexts, combining>>

allvars == <<vars, nrvars, label>>

Internal == [kind |-> "Internal"]

Started(r, t) == label' = [kind |-> "Start", rid |-> <<r, t>>]

Ended(r, t, ret) == label' = [kind |-> "End", rid |-> <<r, t>>, ret |-> ret]

Silent == label' = Internal

(* Context::new, for every thread *)
ContextsInit ==
  /\ atomic = [r \in Replica |-> [t \in Thread |-> 0]]
  /\ resp = [r \in Replica |-> [t \in Thread |-> NoResp]]

(* Replica::new: all contexts exist from the start, and no thread has them.*)
ReplicasInit ==
  /\ client = [r \in Replica |-> [t \in Thread |-> "unregistered"]]
  /\ bound = [r \in Replica |-> [t \in Thread |-> 0]]
  /\ combiner = [r \in Replica |-> NoThread]
  /\ phase = [r \in Replica |-> "none"]
  /\ num_ops = [r \in Replica |-> << >>]
  /\ collected_operations = [r \in Replica |-> << >>]
  /\ thread_idx = [r \in Replica |-> 0]
  /\ resp_idx = [r \in Replica |-> 0]

NRInit ==
  /\ Init
  /\ ReplicasInit
  /\ ContextsInit
  /\ label = Internal

(* Thread t is a client whose next step is c. *)
Client(r, t, c) == client[r][t] = c /\ combiner[r] # t

Becomes(r, t, c) == client' = [client EXCEPT ![r][t] = c]

(* What follows a try_combine. *)
AfterTry(c) == IF c = "try_update" THEN "dequeue" ELSE "check_synced"

(* A thread is in a call of execute or execute_mut.                        *)
Calling(r, t) == client[r][t] \notin {"unregistered", "idle"}

(* A thread registers with a replica and gets the last of the thread       *)
(* tokens that are left.  The call borrows the data structure mutably: no  *)
(* other call is running.                                                  *)
register(r, t) ==
  /\ \A q \in Replica, u \in Thread : ~Calling(q, u)
  /\ client[r][t] = "unregistered"
  /\ \A u \in Thread : client[r][u] = "unregistered" => u <= t
  /\ Becomes(r, t, "idle")
  /\ Silent
  /\ UNCHANGED <<vars, bound, contexts, combining>>

-----------------------------------------------------------------------------
(* Updates: execute_mut, get_response *)

EnqueueOp(r, t) ==
  /\ Client(r, t, "idle")
  /\ atomic' = [atomic EXCEPT ![r][t] = 1]
  /\ resp' = [resp EXCEPT ![r][t] = NoResp]
  /\ Becomes(r, t, "try_update")
  /\ Started(r, t)
  /\ UNCHANGED <<vars, bound, combining>>

DequeueResponse(r, t) ==
  /\ Client(r, t, "dequeue")
  /\ atomic[r][t] = 0
  /\ resp' = [resp EXCEPT ![r][t] = NoResp]
  /\ Becomes(r, t, "idle")
  /\ Ended(r, t, resp[r][t])
  /\ UNCHANGED <<vars, bound, atomic, combining>>

(* Fault: a thread that found the combiner lock taken only waits.          *)
DequeueNothing_NoRetry(r, t) ==
  /\ Client(r, t, "dequeue")
  /\ atomic[r][t] = 1
  /\ Silent
  /\ UNCHANGED <<vars, client, bound, contexts, combining>>

(* After RESPONSE_CHECK_INTERVAL vain attempts. *)
DequeueNothing(r, t) ==
  /\ Client(r, t, "dequeue")
  /\ atomic[r][t] = 1
  /\ Becomes(r, t, "try_update")
  /\ Silent
  /\ UNCHANGED <<vars, bound, contexts, combining>>

-----------------------------------------------------------------------------
(* Reads: execute *)

ReadStart(r, t) ==
  /\ Client(r, t, "idle")
  /\ Becomes(r, t, "load_bound")
  /\ Started(r, t)
  /\ UNCHANGED <<vars, bound, contexts, combining>>

GetVersionUpperBound(r, t) ==
  /\ Client(r, t, "load_bound")
  /\ bound' = [bound EXCEPT ![r][t] = version_upper_bound]
  /\ Becomes(r, t, "check_synced")
  /\ Silent
  /\ UNCHANGED <<vars, contexts, combining>>

(* Fault: off by one. *)
CheckSynced_OffByOne(r, t) ==
  /\ Client(r, t, "check_synced")
  /\ Becomes(r, t, IF local_versions[r] + 1 >= bound[r][t] THEN "acquire_read" ELSE "try_read")
  /\ Silent
  /\ UNCHANGED <<vars, bound, contexts, combining>>

(* is_replica_synced_for_reads *)
CheckSynced(r, t) ==
  /\ Client(r, t, "check_synced")
  /\ Becomes(r, t, IF local_versions[r] >= bound[r][t] THEN "acquire_read" ELSE "try_read")
  /\ Silent
  /\ UNCHANGED <<vars, bound, contexts, combining>>

Read(r, t) ==
  /\ Client(r, t, "acquire_read")
  /\ phase[r] # "log"
  /\ bound' = [bound EXCEPT ![r][t] = 0]
  /\ Becomes(r, t, "idle")
  /\ Ended(r, t, dispatch_spec(replicas[r]))
  /\ UNCHANGED <<vars, contexts, combining>>

-----------------------------------------------------------------------------
(* Flat combining: try_combine, combine *)

AcquireCombinerLock(r, t) ==
  /\ client[r][t] \in {"try_update", "try_read"}
  /\ combiner[r] = NoThread
  /\ combiner' = [combiner EXCEPT ![r] = t]
  /\ phase' = [phase EXCEPT ![r] = "collect"]
  /\ Silent
  /\ UNCHANGED <<vars, client, bound, contexts, collected, progress>>

CombinerLockBusy(r, t) ==
  /\ client[r][t] \in {"try_update", "try_read"}
  /\ combiner[r] \notin {NoThread, t}
  /\ Becomes(r, t, AfterTry(client[r][t]))
  /\ Silent
  /\ UNCHANGED <<vars, bound, contexts, combining>>

CollectThreadOp(r) ==
  LET t == Len(num_ops[r])
  IN  /\ phase[r] = "collect"
      /\ t < num_threads
      /\ num_ops' = [num_ops EXCEPT ![r] = Append(@, atomic[r][t])]
      /\ collected_operations' =
           IF atomic[r][t] = 1 THEN [collected_operations EXCEPT ![r] = Append(@, <<r, t>>)]
           ELSE collected_operations
      /\ Silent
      /\ UNCHANGED <<vars, client, bound, contexts, combiner, phase, progress>>

(* Fault: the batch is not in the order of the threads. *)
AcquireWrite_Reversed(r) ==
  LET n == Len(collected_operations[r])
  IN  /\ phase[r] = "collect"
      /\ Len(num_ops[r]) = num_threads
      /\ append_start(r, [i \in 1 .. n |-> collected_operations[r][n + 1 - i]])
      /\ phase' = [phase EXCEPT ![r] = "log"]
      /\ Silent
      /\ UNCHANGED <<client, bound, contexts, combiner, collected, progress>>

(* Take the reader-writer lock for writing and start to append. *)
AcquireWrite(r) ==
  /\ phase[r] = "collect"
  /\ Len(num_ops[r]) = num_threads
  /\ append_start(r, collected_operations[r])
  /\ phase' = [phase EXCEPT ![r] = "log"]
  /\ Silent
  /\ UNCHANGED <<client, bound, contexts, combiner, collected, progress>>

WorkOnLog(r) ==
  /\ phase[r] = "log"
  /\ LogStep(r)
  /\ Silent
  /\ UNCHANGED nrvars

ReleaseWrite(r) ==
  /\ phase[r] = "log"
  /\ At(r, "done")
  /\ phase' = [phase EXCEPT ![r] = "distribute"]
  /\ Silent
  /\ UNCHANGED <<vars, client, bound, contexts, combiner, collected, progress>>

(* The combiner has come to the context of a thread. *)
RespondingTo(r) == phase[r] = "distribute" /\ thread_idx[r] < num_threads

(* Fault: contexts whose update was not collected are marked answered. *)
SkipThread_Mark(r) ==
  /\ RespondingTo(r)
  /\ num_ops[r][thread_idx[r] + 1] = 0
  /\ atomic' = [atomic EXCEPT ![r][thread_idx[r]] = 0]
  /\ thread_idx' = [thread_idx EXCEPT ![r] = @ + 1]
  /\ Silent
  /\ UNCHANGED <<vars, client, bound, resp, combiner, phase, collected, resp_idx>>

SkipThread(r) ==
  /\ RespondingTo(r)
  /\ num_ops[r][thread_idx[r] + 1] = 0
  /\ thread_idx' = [thread_idx EXCEPT ![r] = @ + 1]
  /\ Silent
  /\ UNCHANGED <<vars, client, bound, contexts, combiner, phase, collected, resp_idx>>

(* Put the next response into the thread's context. *)
PutResponse(r) ==
  /\ RespondingTo(r)
  /\ num_ops[r][thread_idx[r] + 1] = 1
  /\ resp' = [resp EXCEPT ![r][thread_idx[r]] = responses[r][resp_idx[r] + 1]]
  /\ phase' = [phase EXCEPT ![r] = "publish"]
  /\ Silent
  /\ UNCHANGED <<vars, client, bound, atomic, combiner, collected, progress>>

(* Let the thread see it. *)
PublishResponse(r) ==
  /\ phase[r] = "publish"
  /\ atomic' = [atomic EXCEPT ![r][thread_idx[r]] = 0]
  /\ thread_idx' = [thread_idx EXCEPT ![r] = @ + 1]
  /\ resp_idx' = [resp_idx EXCEPT ![r] = @ + 1]
  /\ phase' = [phase EXCEPT ![r] = "distribute"]
  /\ Silent
  /\ UNCHANGED <<vars, client, bound, resp, combiner, collected>>

(* Clear the buffers and release the combiner lock. *)
ReleaseCombinerLock(r) ==
  /\ phase[r] = "distribute"
  /\ thread_idx[r] = num_threads
  /\ finish(r)
  /\ combiner' = [combiner EXCEPT ![r] = NoThread]
  /\ phase' = [phase EXCEPT ![r] = "none"]
  /\ num_ops' = [num_ops EXCEPT ![r] = << >>]
  /\ collected_operations' = [collected_operations EXCEPT ![r] = << >>]
  /\ thread_idx' = [thread_idx EXCEPT ![r] = 0]
  /\ resp_idx' = [resp_idx EXCEPT ![r] = 0]
  /\ client' = [client EXCEPT ![r][combiner[r]] = AfterTry(@)]
  /\ Silent
  /\ UNCHANGED <<bound, contexts>>

-----------------------------------------------------------------------------

ClientStep(r, t) ==
  \/ DequeueResponse(r, t) \/ DequeueNothing(r, t)
  \/ GetVersionUpperBound(r, t) \/ CheckSynced(r, t) \/ Read(r, t)
  \/ AcquireCombinerLock(r, t) \/ CombinerLockBusy(r, t)

combine(r) ==
  \/ CollectThreadOp(r) \/ AcquireWrite(r) \/ WorkOnLog(r)
  \/ ReleaseWrite(r) \/ SkipThread(r) \/ PutResponse(r) \/ PublishResponse(r)
  \/ ReleaseCombinerLock(r)

NRNext ==
  \E r \in Replica :
     \/ \E t \in Thread : register(r, t) \/ EnqueueOp(r, t) \/ ReadStart(r, t) \/ ClientStep(r, t)
     \/ combine(r)

NRSpec == NRInit /\ [][NRNext]_allvars

(* Threads keep running once they have a request, and                      *)
(* compare_exchange_weak does not fail for ever.                           *)
NRFairSpec ==
  /\ NRSpec
  /\ \A r \in Replica :
        /\ WF_allvars(combine(r))
        /\ SF_allvars(CasTail(r) /\ WorkOnLog(r))
        /\ \A t \in Thread : WF_allvars(ClientStep(r, t))
=============================================================================
