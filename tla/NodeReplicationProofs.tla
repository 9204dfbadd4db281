------------------------ MODULE NodeReplicationProofs ----------------------
(***************************************************************************)
(* Proofs about node replication, for every number of replicas and threads *)
(* and every size of the buffer: its flat combiners use the log as NrLog   *)
(* says its callers do, so that every theorem about the log is one about   *)
(* node replication; the contexts follow the flat combining protocol;      *)
(* every step is a transition of the unbounded log; and with that, node    *)
(* replication is linearizable.                                            *)
(*                                                                         *)
(* The first two need to know what the threads and the combiner of a       *)
(* replica have to do with each other (ThreadInv): a thread waits for its  *)
(* answer as long as its context is marked, and whatever the combiner has  *)
(* collected and not yet answered is marked, although the combiner's owner *)
(* and other threads enqueue updates behind its back. Of the log it takes  *)
(* that version_upper_bound is a number (ControlInv).                      *)
(*                                                                         *)
(* The third needs more (NodeInv): a combiner's batch is what it has       *)
(* collected, in the order of the threads, and lies in the log in one      *)
(* piece (CombinersOK, AnswersOK); what the replica has applied of it is   *)
(* what it has answered; and it is never ahead of version_upper_bound      *)
(* (VersionsOK). A lemma View... for each action says which transition of  *)
(* the unbounded log it is.                                                *)
(*                                                                         *)
(* The fourth follows from the third and from UnboundedLogProofs: the      *)
(* simple log is the same function of the tokens there and of the state    *)
(* here (SimpleSeen).                                                      *)
(***************************************************************************)
EXTENDS NodeReplicationRefinement, NrLogProofs, FiniteSetTheorems

-----------------------------------------------------------------------------
(* Threads, contexts and the combiner's buffers *)

ClientSteps ==
  {"unregistered", "idle", "try_update", "dequeue", "load_bound", "check_synced", "try_read",
   "acquire_read"}

Phases == {"none", "collect", "log", "distribute", "publish"}

ThreadTypes ==
  /\ client \in [Replica -> [Thread -> ClientSteps]]
  /\ bound \in [Replica -> [Thread -> Nat]]
  /\ atomic \in [Replica -> [Thread -> {0, 1}]]
  /\ resp = [r \in Replica |-> [t \in Thread |-> resp[r][t]]]
  /\ combiner \in [Replica -> Thread \cup {NoThread}]
  /\ phase \in [Replica -> Phases]
  /\ num_ops \in [Replica -> Seq({0, 1})]
  /\ collected_operations \in [Replica -> Seq(Request)]
  /\ thread_idx \in [Replica -> 0 .. num_threads]
  /\ resp_idx \in [Replica -> Nat]

(* The threads of a replica and its combiner: p is its phase, l the        *)
(* holder of the lock, c what its threads do, a its contexts, n what it    *)
(* has collected from them, i the next thread to be answered.              *)
FlatOK(p, l, c, a, n, i) ==
  /\ Len(n) <= num_threads
  /\ p = "none" => l = NoThread /\ n = << >>
  /\ p # "none" => l \in Thread /\ c[l] \in {"try_update", "try_read"}
  /\ p \in {"none", "collect", "log"} => i = 0
  /\ p \notin {"none", "collect"} => Len(n) = num_threads
  /\ p = "publish" => i < num_threads /\ n[i + 1] = 1
  /\ \A t \in Thread : a[t] = 1 => c[t] \in {"try_update", "dequeue"}
  /\ \A t \in Thread : i <= t /\ t < Len(n) /\ n[t + 1] = 1 => a[t] = 1

ThreadsOK ==
  \A r \in Replica :
     FlatOK(phase[r], combiner[r], client[r], atomic[r], num_ops[r], thread_idx[r])

ThreadInv == ThreadTypes /\ ThreadsOK

(* Nothing changes at the replicas other than r. *)
ElsewhereSame(r) ==
  \A q \in Replica \ {r} :
     /\ client'[q] = client[q] /\ atomic'[q] = atomic[q] /\ resp'[q] = resp[q]
     /\ bound'[q] = bound[q] /\ combiner'[q] = combiner[q] /\ phase'[q] = phase[q]
     /\ num_ops'[q] = num_ops[q] /\ collected_operations'[q] = collected_operations[q]
     /\ thread_idx'[q] = thread_idx[q] /\ resp_idx'[q] = resp_idx[q]

LEMMA ThreadNumbers == num_threads \in Nat /\ Thread = 0 .. num_threads - 1 /\ NoThread \notin Thread
BY NodeReplicationAssumption DEF Thread

LEMMA InitThreads == NRInit => ThreadInv
<1> SUFFICES ASSUME NRInit PROVE ThreadInv
  OBVIOUS
<1> USE DEF NRInit, ReplicasInit, ContextsInit
<1>1. ThreadTypes
  <2>1. << >> \in Seq({0, 1}) /\ << >> \in Seq(Request)
    OBVIOUS
  <2>2. 0 \in 0 .. num_threads
    BY ThreadNumbers
  <2> QED BY <2>1, <2>2 DEF ThreadTypes, ClientSteps, Phases
<1>2. ASSUME NEW r \in Replica
      PROVE  FlatOK(phase[r], combiner[r], client[r], atomic[r], num_ops[r], thread_idx[r])
  BY ThreadNumbers DEF FlatOK
<1> QED BY <1>1, <1>2 DEF ThreadInv, ThreadsOK

(* One context, or one thread, changes. *)
LEMMA TypesNext ==
  ASSUME ThreadInv, version_upper_bound \in Nat, NEW r \in Replica,
         \/ \E t \in Thread : register(r, t) \/ EnqueueOp(r, t) \/ ReadStart(r, t) \/ ClientStep(r, t)
         \/ combine(r)
  PROVE  ThreadTypes' /\ ElsewhereSame(r)
<1> USE DEF ThreadTypes, ElsewhereSame, ThreadInv
<1>1. ASSUME NEW t \in Thread, NEW c \in ClientSteps, Becomes(r, t, c),
             UNCHANGED <<bound, contexts, combining>>
      PROVE  ThreadTypes' /\ ElsewhereSame(r)
  BY <1>1 DEF Becomes, contexts, combining, collected, progress
<1>2. ASSUME NEW t \in Thread, EnqueueOp(r, t)
      PROVE  ThreadTypes' /\ ElsewhereSame(r)
  BY <1>2 DEF EnqueueOp, Becomes, combining, collected, progress, ClientSteps
<1>3. ASSUME NEW t \in Thread, DequeueResponse(r, t)
      PROVE  ThreadTypes' /\ ElsewhereSame(r)
  BY <1>3 DEF DequeueResponse, Becomes, combining, collected, progress, ClientSteps
<1>4. ASSUME NEW t \in Thread, GetVersionUpperBound(r, t) \/ Read(r, t)
      PROVE  ThreadTypes' /\ ElsewhereSame(r)
  <2>1. PICK v \in Nat, c \in ClientSteps :
          /\ bound' = [bound EXCEPT ![r][t] = v]
          /\ client' = [client EXCEPT ![r][t] = c]
    BY <1>4 DEF GetVersionUpperBound, Read, Becomes, ClientSteps
  <2>2. UNCHANGED <<contexts, combining>>
    BY <1>4 DEF GetVersionUpperBound, Read
  <2> QED BY <2>1, <2>2 DEF contexts, combining, collected, progress
<1>5. ASSUME NEW t \in Thread, AcquireCombinerLock(r, t)
      PROVE  ThreadTypes' /\ ElsewhereSame(r)
  BY <1>5 DEF AcquireCombinerLock, contexts, collected, progress, Phases
<1>6. CASE CollectThreadOp(r)
  <2> DEFINE t == Len(num_ops[r])
  <2>1. t \in Thread
    BY <1>6, ThreadNumbers DEF CollectThreadOp
  <2>2. atomic[r][t] \in {0, 1} /\ <<r, t>> \in Request
    BY <2>1 DEF Request
  <2> DEFINE n == Append(num_ops[r], atomic[r][t])
             c == Append(collected_operations[r], <<r, t>>)
  <2>3. n \in Seq({0, 1}) /\ c \in Seq(Request)
    BY <2>2
  <2>4. /\ num_ops' = [num_ops EXCEPT ![r] = n]
        /\ collected_operations' \in {[collected_operations EXCEPT ![r] = c], collected_operations}
        /\ UNCHANGED <<client, bound, contexts, combiner, phase, progress>>
    BY <1>6 DEF CollectThreadOp
  <2> HIDE DEF n, c
  <2> QED BY <2>3, <2>4 DEF contexts, progress
<1>7. CASE AcquireWrite(r) \/ ReleaseWrite(r)
  <2>1. PICK p \in Phases : phase' = [phase EXCEPT ![r] = p]
    BY <1>7 DEF AcquireWrite, ReleaseWrite, Phases
  <2>2. UNCHANGED <<client, bound, contexts, combiner, collected, progress>>
    BY <1>7 DEF AcquireWrite, ReleaseWrite
  <2> QED BY <2>1, <2>2 DEF contexts, collected, progress
<1>8. CASE WorkOnLog(r)
  BY <1>8 DEF WorkOnLog, nrvars, contexts, combining, collected, progress
<1>9. CASE SkipThread(r)
  BY <1>9, ThreadNumbers DEF SkipThread, RespondingTo, contexts, collected
<1>10. CASE PutResponse(r)
  <2>1. PICK y : /\ resp' = [resp EXCEPT ![r][thread_idx[r]] = y]
                 /\ phase' = [phase EXCEPT ![r] = "publish"]
                 /\ UNCHANGED <<client, bound, atomic, combiner, collected, progress>>
    BY <1>10 DEF PutResponse
  <2> QED BY <2>1 DEF collected, progress, Phases
<1>11. CASE PublishResponse(r)
  <2>1. thread_idx[r] < num_threads
    BY <1>11 DEF PublishResponse, ThreadsOK, FlatOK
  <2> QED BY <1>11, <2>1, ThreadNumbers DEF PublishResponse, collected, Phases
<1>12. CASE ReleaseCombinerLock(r)
  <2> DEFINE t == combiner[r]
  <2>1. << >> \in Seq({0, 1}) /\ << >> \in Seq(Request) /\ 0 \in 0 .. num_threads
    BY ThreadNumbers
  <2>2. client' = [client EXCEPT ![r][t] = AfterTry(client[r][t])]
    BY <1>12 DEF ReleaseCombinerLock
  <2>3. AfterTry(client[r][t]) \in ClientSteps
    BY DEF AfterTry, ClientSteps
  <2>4. client' \in [Replica -> [Thread -> ClientSteps]] /\ \A q \in Replica \ {r} : client'[q] = client[q]
    BY <2>2, <2>3
  <2> QED BY <1>12, <2>1, <2>4 DEF ReleaseCombinerLock, contexts, Phases
<1>13. ASSUME NEW t \in Thread, register(r, t) \/ ReadStart(r, t) \/ DequeueNothing(r, t)
                                \/ CheckSynced(r, t) \/ CombinerLockBusy(r, t)
       PROVE  ThreadTypes' /\ ElsewhereSame(r)
  <2>1. PICK c \in ClientSteps : Becomes(r, t, c)
    BY <1>13 DEF register, ReadStart, DequeueNothing, CheckSynced, CombinerLockBusy, ClientSteps, AfterTry
  <2>2. UNCHANGED <<bound, contexts, combining>>
    BY <1>13 DEF register, ReadStart, DequeueNothing, CheckSynced, CombinerLockBusy
  <2> QED BY <1>1, <2>1, <2>2
<1> QED
  BY <1>2, <1>3, <1>4, <1>5, <1>6, <1>7, <1>8, <1>9, <1>10, <1>11, <1>12, <1>13
     DEF ClientStep, combine

-----------------------------------------------------------------------------
(* Flat combining *)

LEMMA UpdatingIs ==
  ASSUME NEW r \in Replica, NEW t \in Thread
  PROVE  /\ <<r, t>> \in Updating <=> client[r][t] \in {"try_update", "dequeue"}
         /\ <<r, t>> \in Reading <=>
              client[r][t] \in {"load_bound", "check_synced", "try_read", "acquire_read"}
BY DEF Updating, Reading, Request

LEMMA UpdatingIsNext ==
  ASSUME NEW r \in Replica, NEW t \in Thread
  PROVE  /\ <<r, t>> \in Updating' <=> client'[r][t] \in {"try_update", "dequeue"}
         /\ <<r, t>> \in Reading' <=>
              client'[r][t] \in {"load_bound", "check_synced", "try_read", "acquire_read"}
BY DEF Updating, Reading, Request

(* What the flat combiner of r does not see. *)
LEMMA FlatUnseen ==
  ASSUME NEW r \in Replica,
         \A t \in Thread : <<r, t>> \in Updating' <=> <<r, t>> \in Updating,
         atomic'[r] = atomic[r], num_ops'[r] = num_ops[r],
         thread_idx'[r] = thread_idx[r],
         phase[r] \in {"none", "collect"} <=> phase'[r] \in {"none", "collect"}
  PROVE  UNCHANGED Flat(r)!vars
<1>1. ASSUME NEW t \in Thread PROVE flat_client(r, t)' = flat_client(r, t)
  BY DEF flat_client
<1>2. ASSUME NEW t \in Thread PROVE flat_slot(r, t)' = flat_slot(r, t)
  BY DEF flat_slot, InBatch
<1>3. flat_combiner(r)' = flat_combiner(r)
  BY DEF flat_combiner, flat_reqs
<1>4. flat_clients(r)' = flat_clients(r) /\ flat_slots(r)' = flat_slots(r)
  BY <1>1, <1>2 DEF flat_clients, flat_slots
<1> QED BY <1>3, <1>4 DEF Flat!vars

FlatNow(r) == FlatOK(phase[r], combiner[r], client[r], atomic[r], num_ops[r], thread_idx[r])

(* Steps of a thread that is not waiting for the answer to an update, or   *)
(* that goes on waiting. *)
LEMMA FlatClients ==
  ASSUME ThreadInv, NEW r \in Replica, NEW t \in Thread, NEW c \in ClientSteps,
         combiner[r] # t, c \in {"try_update", "dequeue"} <=> client[r][t] \in {"try_update", "dequeue"},
         Becomes(r, t, c), UNCHANGED <<contexts, combining>>
  PROVE  FlatNow(r)' /\ UNCHANGED Flat(r)!vars
<1>1. /\ client'[r] = [client[r] EXCEPT ![t] = c]
      /\ UNCHANGED <<atomic, combiner, phase, num_ops, thread_idx>>
  BY DEF Becomes, contexts, combining, collected, progress, ThreadInv, ThreadTypes
<1>2. ASSUME NEW u \in Thread PROVE <<r, u>> \in Updating' <=> <<r, u>> \in Updating
  <2>1. client'[r][u] = IF u = t THEN c ELSE client[r][u]
    BY <1>1 DEF ThreadInv, ThreadTypes
  <2> QED BY <2>1, UpdatingIs, UpdatingIsNext
<1>3. UNCHANGED Flat(r)!vars
  BY <1>1, <1>2, FlatUnseen
<1>4. FlatNow(r)'
  BY <1>1 DEF ThreadInv, ThreadTypes, ThreadsOK, FlatOK, FlatNow
<1> QED BY <1>3, <1>4

FlatStep(r) == FlatNow(r)' /\ [Flat(r)!Next]_(Flat(r)!vars)

LEMMA FlatQuiet ==
  ASSUME ThreadInv, version_upper_bound \in Nat, NEW r \in Replica, NEW t \in Thread,
         \/ register(r, t) \/ ReadStart(r, t) \/ DequeueNothing(r, t) \/ CheckSynced(r, t)
         \/ GetVersionUpperBound(r, t) \/ Read(r, t)
         \/ AcquireCombinerLock(r, t) \/ CombinerLockBusy(r, t)
  PROVE  FlatStep(r)
<1>0. FlatNow(r) /\ num_ops \in [Replica -> Seq({0, 1})]
  BY DEF ThreadInv, ThreadTypes, ThreadsOK, FlatNow
<1>1. CASE register(r, t) \/ ReadStart(r, t) \/ DequeueNothing(r, t) \/ CheckSynced(r, t)
           \/ GetVersionUpperBound(r, t) \/ Read(r, t) \/ CombinerLockBusy(r, t)
  <2>1. PICK c \in ClientSteps :
          /\ client' = [client EXCEPT ![r][t] = c]
          /\ c \in {"try_update", "dequeue"} <=> client[r][t] \in {"try_update", "dequeue"}
    BY <1>1 DEF register, ReadStart, DequeueNothing, CheckSynced, GetVersionUpperBound, Read,
                CombinerLockBusy, Client, Becomes, AfterTry, ClientSteps
  <2>2. combiner[r] # t
    BY <1>0, <1>1, ThreadNumbers
       DEF register, ReadStart, DequeueNothing, CheckSynced, GetVersionUpperBound, Read,
           CombinerLockBusy, Client, FlatNow, FlatOK
  <2>3. UNCHANGED <<contexts, combining>>
    BY <1>1 DEF register, ReadStart, DequeueNothing, CheckSynced, GetVersionUpperBound, Read,
                CombinerLockBusy
  <2> QED BY <2>1, <2>2, <2>3, FlatClients DEF FlatStep, Becomes
<1>2. CASE AcquireCombinerLock(r, t)
  <2>1. /\ client[r][t] \in {"try_update", "try_read"}
        /\ combiner[r] = NoThread
        /\ combiner'[r] = t /\ phase'[r] = "collect"
        /\ UNCHANGED <<client, atomic, num_ops, thread_idx>>
    BY <1>2 DEF AcquireCombinerLock, contexts, collected, progress, ThreadInv, ThreadTypes
  <2>2. phase[r] = "none"
    BY <1>0, <2>1, ThreadNumbers DEF FlatNow, FlatOK
  <2>3. FlatNow(r)'
    BY <1>0, <2>1, <2>2, ThreadNumbers DEF FlatNow, FlatOK
  <2>4. UNCHANGED Flat(r)!vars
    <3>1. \A u \in Thread : <<r, u>> \in Updating' <=> <<r, u>> \in Updating
      BY <2>1, UpdatingIs, UpdatingIsNext
    <3> QED BY <2>1, <2>2, <3>1, FlatUnseen
  <2> QED BY <2>3, <2>4 DEF FlatStep
<1> QED BY <1>1, <1>2

LEMMA FlatEnqueue ==
  ASSUME ThreadInv, NEW r \in Replica, NEW t \in Thread, EnqueueOp(r, t)
  PROVE  FlatStep(r)
<1>0. FlatNow(r) /\ num_ops \in [Replica -> Seq({0, 1})]
  BY DEF ThreadInv, ThreadTypes, ThreadsOK, FlatNow
<1>1. /\ client[r][t] = "idle" /\ combiner[r] # t
      /\ client'[r] = [client[r] EXCEPT ![t] = "try_update"]
      /\ atomic'[r] = [atomic[r] EXCEPT ![t] = 1]
      /\ UNCHANGED <<combiner, phase, num_ops, thread_idx>>
  BY DEF EnqueueOp, Client, Becomes, combining, collected, progress, ThreadInv, ThreadTypes
<1>2. ~InBatch(r, t) /\ \A u \in Thread : InBatch(r, u)' = InBatch(r, u)
  BY <1>0, <1>1 DEF InBatch, FlatNow, FlatOK
<1>3. FlatNow(r)'
  BY <1>0, <1>1 DEF FlatNow, FlatOK, ThreadInv, ThreadTypes
<1>4. ASSUME NEW u \in Thread
      PROVE  /\ client'[r][u] = (IF u = t THEN "try_update" ELSE client[r][u])
             /\ atomic'[r][u] = (IF u = t THEN 1 ELSE atomic[r][u])
  BY <1>1 DEF ThreadInv, ThreadTypes
<1>5. <<r, t>> \notin Updating /\ <<r, t>> \in Updating'
  BY <1>1, <1>4, UpdatingIs, UpdatingIsNext
<1>6. ASSUME NEW u \in Thread, u # t
      PROVE  /\ flat_client(r, u)' = flat_client(r, u)
             /\ flat_slot(r, u)' = flat_slot(r, u)
  <2>1. <<r, u>> \in Updating' <=> <<r, u>> \in Updating
    BY <1>4, <1>6, UpdatingIs, UpdatingIsNext
  <2> QED BY <1>2, <1>4, <1>6, <2>1 DEF flat_client, flat_slot
<1>7. /\ flat_client(r, t) = [state |-> "Idle"] /\ flat_slot(r, t) = [state |-> "Empty"]
      /\ flat_client(r, t)' = [state |-> "Waiting", rid |-> <<r, t>>]
      /\ flat_slot(r, t)' = [state |-> "Request", rid |-> <<r, t>>]
  BY <1>2, <1>4, <1>5 DEF flat_client, flat_slot
<1>8. /\ flat_clients(r)' = [flat_clients(r) EXCEPT ![t] = Flat(r)!Waiting(<<r, t>>)]
      /\ flat_slots(r)' = [flat_slots(r) EXCEPT ![t] = Flat(r)!Slot("Request", <<r, t>>)]
  BY <1>6, <1>7 DEF flat_clients, flat_slots, Flat!Waiting, Flat!Slot
<1>9. flat_combiner(r)' = flat_combiner(r)
  BY <1>1 DEF flat_combiner, flat_reqs
<1>10. Flat(r)!send_request(t, <<r, t>>)
  BY <1>7, <1>8, <1>9 DEF Flat!send_request, flat_clients, flat_slots, Flat!Idle, Flat!EmptySlot
<1>11. t \in Flat(r)!ThreadId /\ <<r, t>> \in Request
  BY DEF Flat!ThreadId, Thread, Request
<1>12. Flat(r)!Next
  BY <1>10, <1>11 DEF Flat!Next
<1> QED BY <1>3, <1>12 DEF FlatStep

LEMMA FlatDequeue ==
  ASSUME ThreadInv, NEW r \in Replica, NEW t \in Thread, DequeueResponse(r, t)
  PROVE  FlatStep(r)
<1>0. FlatNow(r)
  BY DEF ThreadInv, ThreadsOK, FlatNow
<1>1. /\ client[r][t] = "dequeue" /\ combiner[r] # t /\ atomic[r][t] = 0
      /\ client'[r] = [client[r] EXCEPT ![t] = "idle"]
      /\ UNCHANGED <<atomic, combiner, phase, num_ops, thread_idx>>
  BY DEF DequeueResponse, Client, Becomes, combining, collected, progress, ThreadInv, ThreadTypes
<1>2. \A u \in Thread : InBatch(r, u)' = InBatch(r, u)
  BY <1>1 DEF InBatch
<1>3. FlatNow(r)'
  BY <1>0, <1>1 DEF FlatNow, FlatOK, ThreadInv, ThreadTypes
<1>4. ASSUME NEW u \in Thread
      PROVE  client'[r][u] = (IF u = t THEN "idle" ELSE client[r][u])
  BY <1>1 DEF ThreadInv, ThreadTypes
<1>5. <<r, t>> \in Updating /\ <<r, t>> \notin Updating'
  BY <1>1, <1>4, UpdatingIs, UpdatingIsNext
<1>6. ASSUME NEW u \in Thread, u # t
      PROVE  /\ flat_client(r, u)' = flat_client(r, u)
             /\ flat_slot(r, u)' = flat_slot(r, u)
  <2>1. <<r, u>> \in Updating' <=> <<r, u>> \in Updating
    BY <1>4, <1>6, UpdatingIs, UpdatingIsNext
  <2> QED BY <1>1, <1>2, <1>6, <2>1 DEF flat_client, flat_slot
<1>7. /\ flat_client(r, t)' = [state |-> "Idle"] /\ flat_slot(r, t)' = [state |-> "Empty"]
      /\ flat_client(r, t) = [state |-> "Waiting", rid |-> <<r, t>>]
      /\ flat_slot(r, t) = [state |-> "Response", rid |-> <<r, t>>]
  BY <1>1, <1>5 DEF flat_client, flat_slot
<1>8. /\ flat_clients(r)' = [flat_clients(r) EXCEPT ![t] = Flat(r)!Idle]
      /\ flat_slots(r)' = [flat_slots(r) EXCEPT ![t] = Flat(r)!EmptySlot]
  BY <1>6, <1>7 DEF flat_clients, flat_slots, Flat!Idle, Flat!EmptySlot
<1>9. flat_combiner(r)' = flat_combiner(r)
  BY <1>1 DEF flat_combiner, flat_reqs
<1>10. Flat(r)!recv_response(t, <<r, t>>)
  BY <1>7, <1>8, <1>9 DEF Flat!recv_response, flat_clients, flat_slots, Flat!Waiting, Flat!Slot
<1>11. t \in Flat(r)!ThreadId /\ <<r, t>> \in Request
  BY DEF Flat!ThreadId, Thread, Request
<1>12. Flat(r)!Next
  BY <1>10, <1>11 DEF Flat!Next
<1> QED BY <1>3, <1>12 DEF FlatStep

(* The combiner's vector of requests has one place per collected context.  *)
LEMMA FlatReqs ==
  ASSUME ThreadTypes, NEW r \in Replica
  PROVE  /\ flat_reqs(r) \in Seq((Replica \X Nat) \cup {NoResp})
         /\ Len(flat_reqs(r)) = Len(num_ops[r])
         /\ \A i \in DOMAIN num_ops[r] :
               flat_reqs(r)[i] = IF num_ops[r][i] = 1 THEN <<r, i - 1>> ELSE NoResp
         /\ \A i \in DOMAIN num_ops[r] : flat_reqs(r)[i] = NoResp <=> num_ops[r][i] # 1
<1>1. num_ops[r] \in Seq({0, 1}) /\ DOMAIN num_ops[r] = 1 .. Len(num_ops[r]) /\ Len(num_ops[r]) \in Nat
  BY DEF ThreadTypes
<1> QED
  <2>1. \A i \in Nat \ {0} : <<r, i - 1>> # NoResp
    BY NodeReplicationAssumption
  <2>2. \A i \in DOMAIN num_ops[r] : i \in Nat \ {0} /\ <<r, i - 1>> \in Replica \X Nat
    BY <1>1
  <2>3. flat_reqs(r) = [i \in 1 .. Len(num_ops[r]) |-> IF num_ops[r][i] = 1 THEN <<r, i - 1>> ELSE NoResp]
    BY <1>1 DEF flat_reqs
  <2>4. flat_reqs(r) \in [1 .. Len(num_ops[r]) -> (Replica \X Nat) \cup {NoResp}]
    BY <1>1, <2>2, <2>3
  <2>5. flat_reqs(r) \in Seq((Replica \X Nat) \cup {NoResp}) /\ Len(flat_reqs(r)) = Len(num_ops[r])
    BY <1>1, <2>4
  <2>6. \A i \in DOMAIN num_ops[r] :
           flat_reqs(r)[i] = IF num_ops[r][i] = 1 THEN <<r, i - 1>> ELSE NoResp
    BY <1>1, <2>3
  <2> QED BY <2>1, <2>2, <2>5, <2>6

Reqs(r, n) == [i \in DOMAIN n |-> IF n[i] = 1 THEN <<r, i - 1>> ELSE NoResp]

LEMMA ReqsAppend ==
  ASSUME NEW r \in Replica, NEW n \in Seq({0, 1}), NEW a \in {0, 1}
  PROVE  Reqs(r, Append(n, a)) = Append(Reqs(r, n), IF a = 1 THEN <<r, Len(n)>> ELSE NoResp)
<1> DEFINE S == (Replica \X Nat) \cup {NoResp}
           f == [i \in DOMAIN n |-> IF n[i] = 1 THEN <<r, i - 1>> ELSE NoResp]
           x == IF a = 1 THEN <<r, Len(n)>> ELSE NoResp
           g == [i \in DOMAIN Append(n, a) |-> IF Append(n, a)[i] = 1 THEN <<r, i - 1>> ELSE NoResp]
<1>1. /\ Len(n) \in Nat /\ DOMAIN n = 1 .. Len(n) /\ DOMAIN Append(n, a) = 1 .. Len(n) + 1
      /\ \A i \in 1 .. Len(n) : Append(n, a)[i] = n[i]
      /\ Append(n, a)[Len(n) + 1] = a
  OBVIOUS
<1>2. \A i \in DOMAIN n : <<r, i - 1>> \in Replica \X Nat
  BY <1>1
<1>3. f \in [1 .. Len(n) -> S] /\ x \in S
  BY <1>1, <1>2
<1>4. f \in Seq(S) /\ Len(f) = Len(n)
  BY <1>1, <1>3
<1>5. /\ DOMAIN Append(f, x) = 1 .. Len(n) + 1
      /\ \A i \in 1 .. Len(n) : Append(f, x)[i] = f[i]
      /\ Append(f, x)[Len(n) + 1] = x
      /\ Append(f, x) \in [1 .. Len(n) + 1 -> S]
  <2> HIDE DEF f, x, S, g
  <2>1. Append(f, x) \in Seq(S) /\ Len(Append(f, x)) = Len(n) + 1
    BY <1>3, <1>4
  <2>2. /\ \A i \in 1 .. Len(n) : Append(f, x)[i] = f[i]
        /\ Append(f, x)[Len(n) + 1] = x
    BY <1>1, <1>3, <1>4
  <2>3. Append(f, x) \in [1 .. Len(Append(f, x)) -> S] /\ DOMAIN Append(f, x) = 1 .. Len(Append(f, x))
    BY <2>1, Zenon, LenProperties
  <2> QED BY <2>1, <2>2, <2>3
<1>6. \A i \in 1 .. Len(n) + 1 : Append(f, x)[i] = IF Append(n, a)[i] = 1 THEN <<r, i - 1>> ELSE NoResp
  <2>1. ASSUME NEW i \in 1 .. Len(n)
        PROVE  Append(f, x)[i] = IF Append(n, a)[i] = 1 THEN <<r, i - 1>> ELSE NoResp
    <3>1. f[i] = IF n[i] = 1 THEN <<r, i - 1>> ELSE NoResp
      BY <1>1
    <3> HIDE DEF f, x
    <3> QED BY <1>1, <1>5, <3>1
  <2>2. x = IF Append(n, a)[Len(n) + 1] = 1 THEN <<r, (Len(n) + 1) - 1>> ELSE NoResp
    BY <1>1
  <2> HIDE DEF f, x
  <2> QED BY <1>1, <1>5, <2>1, <2>2
<1>7. Append(f, x) = [i \in 1 .. Len(n) + 1 |-> IF Append(n, a)[i] = 1 THEN <<r, i - 1>> ELSE NoResp]
  <2> HIDE DEF f, x, S, g
  <2> QED BY <1>5, <1>6
<1> QED BY <1>1, <1>7 DEF Reqs

LEMMA FlatCollect ==
  ASSUME ThreadInv, NEW r \in Replica, CollectThreadOp(r)
  PROVE  FlatStep(r)
<1>t. PICK t \in Thread, a \in {0, 1} : t = Len(num_ops[r]) /\ a = atomic[r][t]
  <2>1. Len(num_ops[r]) \in Thread
    BY ThreadNumbers DEF CollectThreadOp, ThreadInv, ThreadTypes
  <2>2. atomic[r][Len(num_ops[r])] \in {0, 1}
    BY <2>1 DEF ThreadInv, ThreadTypes
  <2> QED BY <2>1, <2>2
<1> DEFINE x == IF a = 1 THEN <<r, t>> ELSE NoResp
<1>0. FlatNow(r)
  BY DEF ThreadInv, ThreadsOK, FlatNow
<1>1. /\ phase[r] = "collect" /\ t = Len(num_ops[r]) /\ a = atomic[r][t]
      /\ num_ops[r] \in Seq({0, 1}) /\ num_ops'[r] = Append(num_ops[r], a)
      /\ UNCHANGED <<client, atomic, combiner, phase, thread_idx>>
  BY <1>t DEF CollectThreadOp, contexts, progress, ThreadInv, ThreadTypes
<1>2. /\ Len(num_ops'[r]) = t + 1 /\ num_ops'[r][t + 1] = a
      /\ \A i \in 1 .. t : num_ops'[r][i] = num_ops[r][i]
  BY <1>1
<1>3. thread_idx[r] = 0 /\ t \in Nat /\ t < num_threads
  BY <1>0, <1>1, ThreadNumbers DEF FlatNow, FlatOK
<1>4. FlatNow(r)'
  BY <1>0, <1>1, <1>2, <1>3, ThreadNumbers DEF FlatNow, FlatOK
<1>5. /\ \A u \in Thread \ {t} : InBatch(r, u)' = InBatch(r, u)
      /\ ~InBatch(r, t) /\ (InBatch(r, t)' <=> a = 1)
  <2>1. \A u \in Thread : u \in Nat
    BY ThreadNumbers
  <2>2. ~InBatch(r, t) /\ (InBatch(r, t)' <=> a = 1)
    BY <1>1, <1>2, <1>3 DEF InBatch
  <2>3. ASSUME NEW u \in Thread \ {t} PROVE InBatch(r, u)' = InBatch(r, u)
    <3>1. CASE u < t
      BY <1>1, <1>2, <1>3, <2>1, <3>1 DEF InBatch
    <3>2. CASE u > t
      BY <1>1, <1>2, <1>3, <2>1, <3>2 DEF InBatch
    <3> QED BY <1>3, <2>1, <3>1, <3>2
  <2> QED BY <2>2, <2>3
<1>6. \A u \in Thread : <<r, u>> \in Updating' <=> <<r, u>> \in Updating
  BY <1>1, UpdatingIs, UpdatingIsNext
<1>7. flat_clients(r)' = flat_clients(r)
  BY <1>6 DEF flat_clients, flat_client
<1>8. \A u \in Thread \ {t} : flat_slot(r, u)' = flat_slot(r, u)
  BY <1>1, <1>5, <1>6 DEF flat_slot
<1>9. flat_reqs(r)' = Append(flat_reqs(r), x)
  <2>1. flat_reqs(r) = Reqs(r, num_ops[r])
    BY DEF flat_reqs, Reqs
  <2>2. flat_reqs(r)' = Reqs(r, Append(num_ops[r], a))
    BY <1>1 DEF flat_reqs, Reqs
  <2> QED BY <1>1, <2>1, <2>2, ReqsAppend
<1>10. /\ flat_combiner(r) = Flat(r)!Collecting(flat_reqs(r))
       /\ flat_combiner(r)' = Flat(r)!Collecting(Append(flat_reqs(r), x))
  BY <1>1, <1>9 DEF flat_combiner, Flat!Collecting
<1>11. Flat(r)!Next_tid = t
  BY <1>1, <1>10, FlatReqs DEF Flat!Next_tid, Flat!Collecting, ThreadInv
<1>12. CASE a = 1
  <2>1. <<r, t>> \in Updating
    BY <1>0, <1>1, <1>12, UpdatingIs DEF FlatNow, FlatOK
  <2>2. /\ flat_slot(r, t) = Flat(r)!Slot("Request", <<r, t>>)
        /\ flat_slot(r, t)' = Flat(r)!Slot("InProgress", <<r, t>>)
    <3>1. atomic[r][t] = 1 /\ atomic'[r][t] = 1 /\ ~InBatch(r, t) /\ InBatch(r, t)' /\ <<r, t>> \in Updating'
      BY <1>1, <1>5, <1>6, <1>12, <2>1
    <3> QED BY <2>1, <3>1 DEF flat_slot, Flat!Slot
  <2>3. flat_slots(r)' = [flat_slots(r) EXCEPT ![t] = Flat(r)!Slot("InProgress", <<r, t>>)]
    BY <1>1, <1>8, <2>2 DEF flat_slots
  <2>4. flat_slots(r)[t] = Flat(r)!Slot("Request", <<r, t>>)
    BY <1>1, <2>2 DEF flat_slots
  <2>5. flat_slots(r)[t].state = "Request" /\ flat_slots(r)[t].rid = <<r, t>>
    BY <2>4 DEF Flat!Slot
  <2>6. flat_combiner(r).state = "Collecting" /\ flat_combiner(r).reqs = flat_reqs(r)
    BY <1>10 DEF Flat!Collecting
  <2>7. Flat(r)!combiner_collect_request
    BY <1>3, <1>7, <1>10, <1>11, <1>12, <2>3, <2>5, <2>6 DEF Flat!combiner_collect_request
  <2> QED BY <1>4, <2>7 DEF FlatStep, Flat!Next
<1>13. CASE a # 1
  <2>1. a = 0
    BY <1>1, <1>13
  <2>2. flat_slot(r, t)' = flat_slot(r, t) /\ flat_slot(r, t).state \in {"Empty", "Response"}
    BY <1>1, <1>5, <1>6, <2>1 DEF flat_slot
  <2>3. flat_slots(r)' = flat_slots(r) /\ flat_slots(r)[t].state \in {"Empty", "Response"}
    BY <1>1, <1>8, <2>2 DEF flat_slots
  <2>4. flat_combiner(r).state = "Collecting" /\ flat_combiner(r).reqs = flat_reqs(r)
    BY <1>10 DEF Flat!Collecting
  <2>5. Flat(r)!combiner_collect_empty
    BY <1>3, <1>7, <1>10, <1>11, <1>13, <2>3, <2>4 DEF Flat!combiner_collect_empty
  <2> QED BY <1>4, <2>5 DEF FlatStep, Flat!Next
<1> QED BY <1>12, <1>13

LEMMA FlatUnseenSteps ==
  ASSUME ThreadInv, NEW r \in Replica, WorkOnLog(r) \/ ReleaseWrite(r) \/ PutResponse(r)
  PROVE  FlatStep(r)
<1>0. FlatNow(r) /\ thread_idx[r] \in 0 .. num_threads
  BY DEF ThreadInv, ThreadTypes, ThreadsOK, FlatNow
<1>1. /\ UNCHANGED <<client, atomic, combiner, num_ops, thread_idx>>
      /\ phase[r] \notin {"none", "collect"} /\ phase'[r] \notin {"none", "collect"}
      /\ phase'[r] = "publish" => thread_idx[r] < num_threads /\ num_ops[r][thread_idx[r] + 1] = 1
      /\ phase'[r] = "log" => phase[r] = "log"
  BY DEF WorkOnLog, ReleaseWrite, PutResponse, RespondingTo, nrvars, contexts, combining, collected,
         progress, ThreadInv, ThreadTypes
<1>2. FlatNow(r)'
  BY <1>0, <1>1 DEF FlatNow, FlatOK
<1>3. \A u \in Thread : <<r, u>> \in Updating' <=> <<r, u>> \in Updating
  BY <1>1, UpdatingIs, UpdatingIsNext
<1>4. UNCHANGED Flat(r)!vars
  BY <1>1, <1>3, FlatUnseen
<1> QED BY <1>2, <1>4 DEF FlatStep

LEMMA FlatStart ==
  ASSUME ThreadInv, NEW r \in Replica, AcquireWrite(r)
  PROVE  FlatStep(r)
<1>0. FlatNow(r)
  BY DEF ThreadInv, ThreadsOK, FlatNow
<1>1. /\ UNCHANGED <<client, atomic, combiner, num_ops, thread_idx>>
      /\ phase[r] = "collect" /\ phase'[r] = "log" /\ thread_idx[r] = 0
      /\ Len(num_ops[r]) = num_threads
  BY <1>0 DEF AcquireWrite, contexts, collected, progress, ThreadInv, ThreadTypes, FlatNow, FlatOK
<1>2. FlatNow(r)'
  BY <1>0, <1>1 DEF FlatNow, FlatOK
<1>3. \A u \in Thread : <<r, u>> \in Updating' <=> <<r, u>> \in Updating
  BY <1>1, UpdatingIs, UpdatingIsNext
<1>4. flat_clients(r)' = flat_clients(r) /\ flat_slots(r)' = flat_slots(r)
  BY <1>1, <1>3 DEF flat_clients, flat_client, flat_slots, flat_slot, InBatch
<1>5. /\ flat_combiner(r) = [state |-> "Collecting", reqs |-> flat_reqs(r)]
      /\ flat_combiner(r)' = [state |-> "Responding", reqs |-> flat_reqs(r), tid |-> 0]
      /\ Len(flat_reqs(r)) = num_threads
  BY <1>1, FlatReqs DEF flat_combiner, flat_reqs, ThreadInv
<1>6. Flat(r)!combiner_responding_start
  BY <1>4, <1>5 DEF Flat!combiner_responding_start, Flat!Responding
<1> QED BY <1>2, <1>6 DEF FlatStep, Flat!Next

LEMMA FlatSkip ==
  ASSUME ThreadInv, NEW r \in Replica, SkipThread(r)
  PROVE  FlatStep(r)
<1>0. FlatNow(r) /\ num_ops[r] \in Seq({0, 1})
  BY DEF ThreadInv, ThreadTypes, ThreadsOK, FlatNow
<1>t. PICK i \in Thread : i = thread_idx[r]
  BY ThreadNumbers DEF SkipThread, RespondingTo, ThreadInv, ThreadTypes
<1>1. /\ UNCHANGED <<client, atomic, combiner, num_ops, phase>>
      /\ phase[r] = "distribute" /\ i = thread_idx[r] /\ thread_idx'[r] = i + 1
      /\ Len(num_ops[r]) = num_threads /\ num_ops[r][i + 1] = 0
      /\ i \in Nat /\ i < num_threads /\ num_threads \in Nat /\ \A u \in Thread : u \in Nat
      /\ \A u \in Thread : i + 1 <= u <=> (i <= u /\ u # i)
  BY <1>0, <1>t, ThreadNumbers
     DEF SkipThread, RespondingTo, contexts, collected, ThreadInv, ThreadTypes, FlatNow, FlatOK
<1>2. FlatNow(r)'
  <2>1. \A u \in Thread : i + 1 <= u /\ u < num_threads /\ num_ops[r][u + 1] = 1 => atomic[r][u] = 1
    BY <1>0, <1>1 DEF FlatNow, FlatOK
  <2>2. /\ combiner[r] \in Thread /\ client[r][combiner[r]] \in {"try_update", "try_read"}
        /\ \A u \in Thread : atomic[r][u] = 1 => client[r][u] \in {"try_update", "dequeue"}
    BY <1>0, <1>1 DEF FlatNow, FlatOK
  <2> QED BY <1>1, <2>1, <2>2 DEF FlatNow, FlatOK
<1>3. \A u \in Thread : <<r, u>> \in Updating' <=> <<r, u>> \in Updating
  BY <1>1, UpdatingIs, UpdatingIsNext
<1>4. ASSUME NEW u \in Thread PROVE InBatch(r, u)' <=> InBatch(r, u)
  <2>1. CASE u = i
    BY <1>1, <2>1 DEF InBatch
  <2>2. CASE u # i
    BY <1>1, <2>2 DEF InBatch
  <2> QED BY <2>1, <2>2
<1>5. flat_clients(r)' = flat_clients(r) /\ flat_slots(r)' = flat_slots(r)
  BY <1>1, <1>3, <1>4 DEF flat_clients, flat_client, flat_slots, flat_slot
<1>6. /\ flat_combiner(r) = [state |-> "Responding", reqs |-> flat_reqs(r), tid |-> i]
      /\ flat_combiner(r)' = [state |-> "Responding", reqs |-> flat_reqs(r), tid |-> i + 1]
  BY <1>1 DEF flat_combiner, flat_reqs
<1>7. flat_reqs(r)[i + 1] = NoResp
  BY <1>0, <1>1, FlatReqs DEF ThreadInv
<1>8. Flat(r)!combiner_responding_empty
  BY <1>1, <1>5, <1>6, <1>7 DEF Flat!combiner_responding_empty, Flat!Responding
<1> QED BY <1>2, <1>8 DEF FlatStep, Flat!Next

LEMMA FlatPublish ==
  ASSUME ThreadInv, NEW r \in Replica, PublishResponse(r)
  PROVE  FlatStep(r)
<1>0. FlatNow(r) /\ num_ops[r] \in Seq({0, 1})
  BY DEF ThreadInv, ThreadTypes, ThreadsOK, FlatNow
<1>t. PICK i \in Thread : i = thread_idx[r]
  BY <1>0, ThreadNumbers DEF PublishResponse, FlatNow, FlatOK, ThreadInv, ThreadTypes
<1>1. /\ UNCHANGED <<client, combiner, num_ops>>
      /\ phase[r] = "publish" /\ phase'[r] = "distribute"
      /\ i = thread_idx[r] /\ thread_idx'[r] = i + 1
      /\ atomic'[r] = [atomic[r] EXCEPT ![i] = 0]
      /\ Len(num_ops[r]) = num_threads /\ num_ops[r][i + 1] = 1
      /\ i \in Nat /\ i < num_threads /\ num_threads \in Nat /\ \A u \in Thread : u \in Nat
      /\ \A u \in Thread : i + 1 <= u <=> (i <= u /\ u # i)
  BY <1>0, <1>t, ThreadNumbers
     DEF PublishResponse, collected, ThreadInv, ThreadTypes, FlatNow, FlatOK
<1>2. \A u \in Thread : atomic'[r][u] = IF u = i THEN 0 ELSE atomic[r][u]
  BY <1>1 DEF ThreadInv, ThreadTypes
<1>3. FlatNow(r)'
  <2>1. \A u \in Thread : i + 1 <= u /\ u < num_threads /\ num_ops[r][u + 1] = 1 => atomic'[r][u] = 1
    BY <1>0, <1>1, <1>2 DEF FlatNow, FlatOK
  <2>2. /\ combiner[r] \in Thread /\ client[r][combiner[r]] \in {"try_update", "try_read"}
        /\ \A u \in Thread : atomic'[r][u] = 1 => client[r][u] \in {"try_update", "dequeue"}
    BY <1>0, <1>1, <1>2 DEF FlatNow, FlatOK
  <2> QED BY <1>1, <2>1, <2>2 DEF FlatNow, FlatOK
<1>4. \A u \in Thread : <<r, u>> \in Updating' <=> <<r, u>> \in Updating
  BY <1>1, UpdatingIs, UpdatingIsNext
<1>5. \A u \in Thread \ {i} : InBatch(r, u)' <=> InBatch(r, u)
  BY <1>1 DEF InBatch
<1>6. InBatch(r, i) /\ atomic[r][i] = 1 /\ <<r, i>> \in Updating
  BY <1>0, <1>1, UpdatingIs DEF InBatch, FlatNow, FlatOK
<1>7. \A u \in Thread \ {i} : flat_slot(r, u)' = flat_slot(r, u)
  BY <1>2, <1>4, <1>5 DEF flat_slot
<1>8. /\ flat_slot(r, i) = Flat(r)!Slot("InProgress", <<r, i>>)
      /\ flat_slot(r, i)' = Flat(r)!Slot("Response", <<r, i>>)
  BY <1>2, <1>4, <1>6 DEF flat_slot, Flat!Slot
<1>9. /\ flat_slots(r)[i] = Flat(r)!Slot("InProgress", <<r, i>>)
      /\ flat_slots(r)' = [flat_slots(r) EXCEPT ![i] = Flat(r)!Slot("Response", <<r, i>>)]
  BY <1>7, <1>8 DEF flat_slots
<1>10. flat_slots(r)[i].rid = <<r, i>>
  BY <1>9 DEF Flat!Slot
<1>11. flat_clients(r)' = flat_clients(r)
  BY <1>4 DEF flat_clients, flat_client
<1>12. /\ flat_combiner(r) = [state |-> "Responding", reqs |-> flat_reqs(r), tid |-> i]
       /\ flat_combiner(r)' = [state |-> "Responding", reqs |-> flat_reqs(r), tid |-> i + 1]
  BY <1>1 DEF flat_combiner, flat_reqs
<1>13. flat_reqs(r)[i + 1] = <<r, i>> /\ flat_reqs(r)[i + 1] # NoResp
  <2>1. i + 1 \in DOMAIN num_ops[r] /\ (i + 1) - 1 = i
    BY <1>0, <1>1
  <2>2. flat_reqs(r)[i + 1] = <<r, (i + 1) - 1>>
    BY <1>1, <2>1, FlatReqs DEF ThreadInv
  <2>3. flat_reqs(r)[i + 1] # NoResp
    BY <1>1, <2>1, FlatReqs DEF ThreadInv
  <2> QED BY <2>1, <2>2, <2>3
<1>14. Flat(r)!combiner_responding_result
  <2>1. /\ flat_combiner(r).state = "Responding" /\ flat_combiner(r).tid = i
        /\ flat_combiner(r).reqs = flat_reqs(r)
        /\ flat_combiner(r)' = Flat(r)!Responding(flat_reqs(r), i + 1)
    BY <1>12 DEF Flat!Responding
  <2>2. flat_slots(r)[i] = Flat(r)!Slot("InProgress", flat_reqs(r)[i + 1])
    BY <1>9, <1>13
  <2>3. flat_slots(r)' = [flat_slots(r) EXCEPT ![i] = Flat(r)!Slot("Response", flat_slots(r)[i].rid)]
    BY <1>9, <1>10
  <2> QED BY <1>1, <1>11, <1>13, <2>1, <2>2, <2>3 DEF Flat!combiner_responding_result
<1> QED BY <1>3, <1>14 DEF FlatStep, Flat!Next

LEMMA FlatRelease ==
  ASSUME ThreadInv, NEW r \in Replica, ReleaseCombinerLock(r)
  PROVE  FlatStep(r)
<1>0. FlatNow(r) /\ num_ops[r] \in Seq({0, 1})
  BY DEF ThreadInv, ThreadTypes, ThreadsOK, FlatNow
<1>t. PICK l \in Thread : l = combiner[r] /\ client[r][l] \in {"try_update", "try_read"}
  BY <1>0 DEF ReleaseCombinerLock, FlatNow, FlatOK
<1>1. /\ UNCHANGED atomic
      /\ phase[r] = "distribute" /\ phase'[r] = "none"
      /\ thread_idx[r] = num_threads /\ thread_idx'[r] = 0
      /\ num_ops'[r] = << >> /\ combiner'[r] = NoThread
      /\ client'[r] = [client[r] EXCEPT ![l] = AfterTry(client[r][l])]
  BY <1>t DEF ReleaseCombinerLock, contexts, ThreadInv, ThreadTypes
<1>2. \A u \in Thread : client'[r][u] = IF u = l THEN AfterTry(client[r][l]) ELSE client[r][u]
  BY <1>1 DEF ThreadInv, ThreadTypes
<1>3. AfterTry(client[r][l]) \in {"try_update", "dequeue"} <=> client[r][l] \in {"try_update", "dequeue"}
  BY <1>t DEF AfterTry
<1>4. FlatNow(r)'
  BY <1>0, <1>1, <1>2, <1>3, ThreadNumbers DEF FlatNow, FlatOK
<1>5. \A u \in Thread : <<r, u>> \in Updating' <=> <<r, u>> \in Updating
  BY <1>2, <1>3, UpdatingIs, UpdatingIsNext
<1>6. \A u \in Thread : ~InBatch(r, u) /\ ~InBatch(r, u)'
  BY <1>1, ThreadNumbers DEF InBatch
<1>7. flat_clients(r)' = flat_clients(r) /\ flat_slots(r)' = flat_slots(r)
  BY <1>1, <1>5, <1>6 DEF flat_clients, flat_client, flat_slots, flat_slot
<1>8. flat_reqs(r)' = << >>
  BY <1>1 DEF flat_reqs
<1>9. /\ flat_combiner(r).state = "Responding" /\ flat_combiner(r).tid = num_threads
      /\ flat_combiner(r)' = [state |-> "Collecting", reqs |-> << >>]
  BY <1>1, <1>8 DEF flat_combiner
<1>10. Flat(r)!combiner_responding_done
  BY <1>7, <1>9 DEF Flat!combiner_responding_done, Flat!Collecting
<1> QED BY <1>4, <1>10 DEF FlatStep, Flat!Next

-----------------------------------------------------------------------------
(* The whole system *)

(* What the other replicas do is not seen. *)
LEMMA FlatElsewhere ==
  ASSUME ThreadInv, NEW r \in Replica, NEW q \in Replica, q # r, ElsewhereSame(r)
  PROVE  FlatStep(q)
<1>1. /\ client'[q] = client[q] /\ atomic'[q] = atomic[q] /\ combiner'[q] = combiner[q]
      /\ phase'[q] = phase[q] /\ num_ops'[q] = num_ops[q] /\ thread_idx'[q] = thread_idx[q]
  BY DEF ElsewhereSame
<1>2. FlatNow(q)'
  BY <1>1 DEF ThreadInv, ThreadsOK, FlatNow
<1>3. \A u \in Thread : <<q, u>> \in Updating' <=> <<q, u>> \in Updating
  BY <1>1, UpdatingIs, UpdatingIsNext
<1>4. UNCHANGED Flat(q)!vars
  BY <1>1, <1>3, FlatUnseen
<1> QED BY <1>2, <1>4 DEF FlatStep

LEMMA ThreadNext ==
  ASSUME ThreadInv, version_upper_bound \in Nat, [NRNext]_allvars
  PROVE  ThreadInv' /\ \A q \in Replica : [Flat(q)!Next]_(Flat(q)!vars)
<1>1. CASE NRNext
  <2>1. PICK r \in Replica :
          \/ \E t \in Thread : register(r, t) \/ EnqueueOp(r, t) \/ ReadStart(r, t) \/ ClientStep(r, t)
          \/ combine(r)
    BY <1>1 DEF NRNext
  <2>2. ThreadTypes' /\ ElsewhereSame(r)
    BY <2>1, TypesNext
  <2>3. FlatStep(r)
    BY <2>1, FlatQuiet, FlatEnqueue, FlatDequeue, FlatCollect, FlatUnseenSteps, FlatStart, FlatSkip,
       FlatPublish, FlatRelease
       DEF ClientStep, combine
  <2>4. \A q \in Replica : FlatStep(q)
    BY <2>2, <2>3, FlatElsewhere
  <2> QED BY <2>2, <2>4 DEF FlatStep, FlatNow, ThreadInv, ThreadsOK
<1>2. CASE UNCHANGED allvars
  <2>1. UNCHANGED <<client, bound, atomic, resp, combiner, phase, num_ops, collected_operations,
                    thread_idx, resp_idx>>
    BY <1>2 DEF allvars, nrvars, contexts, combining, collected, progress
  <2>2. ThreadInv'
    BY <2>1 DEF ThreadInv, ThreadTypes, ThreadsOK
  <2>3. ASSUME NEW q \in Replica PROVE UNCHANGED Flat(q)!vars
    <3>1. \A u \in Thread : <<q, u>> \in Updating' <=> <<q, u>> \in Updating
      BY <2>1, UpdatingIs, UpdatingIsNext
    <3> QED BY <2>1, <3>1, FlatUnseen
  <2> QED BY <2>2, <2>3
<1> QED BY <1>1, <1>2

LEMMA InitFlat ==
  ASSUME NRInit, NEW r \in Replica
  PROVE  Flat(r)!Init
<1>1. /\ \A t \in Thread : client[r][t] = "unregistered"
      /\ num_ops[r] = << >> /\ phase[r] = "none"
  BY DEF NRInit, ReplicasInit
<1>2. \A t \in Thread : <<r, t>> \notin Updating
  BY <1>1, UpdatingIs
<1>3. flat_reqs(r) = << >>
  BY <1>1 DEF flat_reqs
<1> QED
  BY <1>1, <1>2, <1>3
     DEF Flat!Init, flat_clients, flat_slots, flat_combiner, flat_client, flat_slot, Flat!Idle,
         Flat!EmptySlot, Flat!Collecting, Flat!ThreadId, Thread

-----------------------------------------------------------------------------
(* What the flat combiners do with the log *)

(* A batch holds operations of its replica, one of each thread at most. *)
CollectedOK ==
  \A r \in Replica :
     /\ collected_operations[r] \in Seq(Op[r])
     /\ Len(collected_operations[r]) <= Len(num_ops[r])

LEMMA CollectedNext ==
  ASSUME ThreadInv, ThreadInv', CollectedOK, version_upper_bound \in Nat, [NRNext]_allvars
  PROVE  CollectedOK'
<1>0. \A q \in Replica : num_ops[q] \in Seq({0, 1}) /\ Len(num_ops[q]) \in Nat
  BY DEF ThreadInv, ThreadTypes
<1>1. ASSUME NEW r \in Replica, CollectThreadOp(r) PROVE CollectedOK'
  <2>1. PICK t \in Thread, a \in {0, 1} : t = Len(num_ops[r]) /\ a = atomic[r][t]
    <3>1. Len(num_ops[r]) \in Thread
      BY <1>0, <1>1, ThreadNumbers DEF CollectThreadOp
    <3> QED BY <3>1 DEF ThreadInv, ThreadTypes
  <2>2. <<r, t>> \in Op[r]
    BY NodeReplicationAssumption DEF Thread
  <2>3. num_ops'[r] = Append(num_ops[r], a) /\ Len(num_ops'[r]) = Len(num_ops[r]) + 1
    BY <1>0, <1>1, <2>1 DEF CollectThreadOp, ThreadInv, ThreadTypes
  <2>4. collected_operations'[r] \in {collected_operations[r], Append(collected_operations[r], <<r, t>>)}
    BY <1>1, <2>1 DEF CollectThreadOp, ThreadInv, ThreadTypes
  <2>5. /\ collected_operations'[r] \in Seq(Op[r])
        /\ Len(collected_operations'[r]) <= Len(collected_operations[r]) + 1
    <3>1. collected_operations[r] \in Seq(Op[r])
      BY DEF CollectedOK
    <3>2. \A S : \A s \in Seq(S), x \in S : Append(s, x) \in Seq(S) /\ Len(Append(s, x)) = Len(s) + 1
      OBVIOUS
    <3>3. CASE collected_operations'[r] = collected_operations[r]
      BY <3>1, <3>3
    <3>4. CASE collected_operations'[r] = Append(collected_operations[r], <<r, t>>)
      <4>1. Append(collected_operations[r], <<r, t>>) \in Seq(Op[r])
        BY <2>2, <3>1, <3>2, Zenon
      <4>2. Len(Append(collected_operations[r], <<r, t>>)) = Len(collected_operations[r]) + 1
        BY <2>2, <3>1, <3>2, Zenon
      <4>3. Len(collected_operations[r]) \in Nat
        BY <3>1
      <4> QED BY <3>4, <4>1, <4>2, <4>3
    <3> QED BY <2>4, <3>3, <3>4
  <2>6. Len(collected_operations'[r]) \in Nat /\ Len(collected_operations[r]) \in Nat
    BY <2>5 DEF CollectedOK
  <2>7. \A q \in Replica \ {r} : num_ops'[q] = num_ops[q] /\ collected_operations'[q] = collected_operations[q]
    BY <1>1 DEF CollectThreadOp, ThreadInv, ThreadTypes
  <2>8. Len(collected_operations'[r]) <= Len(num_ops'[r])
    <3>1. Len(num_ops[r]) \in Nat /\ Len(collected_operations[r]) <= Len(num_ops[r])
      BY <1>0 DEF CollectedOK
    <3> QED BY <2>3, <2>5, <2>6, <3>1
  <2>9. \A q \in Replica \ {r} : /\ collected_operations'[q] \in Seq(Op[q])
                                 /\ Len(collected_operations'[q]) <= Len(num_ops'[q])
    BY <2>7 DEF CollectedOK
  <2> QED BY <2>5, <2>8, <2>9 DEF CollectedOK
<1>2. ASSUME NEW r \in Replica, ReleaseCombinerLock(r) PROVE CollectedOK'
  <2>1. /\ num_ops' = [num_ops EXCEPT ![r] = << >>]
        /\ collected_operations' = [collected_operations EXCEPT ![r] = << >>]
    BY <1>2 DEF ReleaseCombinerLock
  <2>2. \A q \in Replica : \/ num_ops'[q] = << >> /\ collected_operations'[q] = << >>
                           \/ num_ops'[q] = num_ops[q] /\ collected_operations'[q] = collected_operations[q]
    BY <2>1 DEF ThreadInv, ThreadTypes
  <2>3. \A q \in Replica : << >> \in Seq(Op[q]) /\ Len(<< >>) <= Len(<< >>)
    OBVIOUS
  <2> QED BY <2>2, <2>3 DEF CollectedOK
<1>3. ASSUME UNCHANGED collected PROVE CollectedOK'
  BY <1>3 DEF CollectedOK, collected
<1>4. ASSUME NEW r \in Replica, NEW t \in Thread,
             register(r, t) \/ EnqueueOp(r, t) \/ ReadStart(r, t) \/ ClientStep(r, t)
      PROVE  UNCHANGED collected
  BY <1>4 DEF register, EnqueueOp, ReadStart, ClientStep, DequeueResponse, DequeueNothing,
     GetVersionUpperBound, CheckSynced, Read, AcquireCombinerLock, CombinerLockBusy, combining
<1>5. ASSUME NEW r \in Replica, \/ AcquireWrite(r) \/ WorkOnLog(r) \/ ReleaseWrite(r)
                                \/ SkipThread(r) \/ PutResponse(r) \/ PublishResponse(r)
      PROVE  UNCHANGED collected
  BY <1>5 DEF AcquireWrite, WorkOnLog, ReleaseWrite, SkipThread, PutResponse, PublishResponse,
     nrvars, combining
<1> QED BY <1>1, <1>2, <1>3, <1>4, <1>5 DEF NRNext, combine, allvars, nrvars, combining

LEMMA Batches ==
  ASSUME ThreadInv, CollectedOK, NEW r \in Replica
  PROVE  collected_operations[r] \in Batch(r)
<1> DEFINE n == Len(collected_operations[r])
<1>1. /\ collected_operations[r] \in Seq(Op[r])
      /\ n <= Len(num_ops[r]) /\ Len(num_ops[r]) <= num_threads
      /\ Len(num_ops[r]) \in Nat
  BY DEF CollectedOK, ThreadInv, ThreadTypes, ThreadsOK, FlatOK
<1>2. n \in 0 .. MAX_REQUESTS /\ collected_operations[r] \in [1 .. n -> Op[r]]
  BY <1>1, NodeReplicationAssumption, NrLogAssumption
<1> QED BY <1>2 DEF Batch

(* Each step of the clients and combiners is a step of the log, or none. *)
LEMMA LogOfNR ==
  ASSUME ThreadInv, CollectedOK, [NRNext]_allvars
  PROVE  [Next]_vars
<1>1. ASSUME NEW r \in Replica, AcquireWrite(r) PROVE Next
  BY <1>1, Batches DEF AcquireWrite, Next
<1>2. ASSUME NEW r \in Replica, WorkOnLog(r) PROVE Next
  BY <1>2 DEF WorkOnLog, Next
<1>3. ASSUME NEW r \in Replica, ReleaseCombinerLock(r) PROVE Next
  BY <1>3 DEF ReleaseCombinerLock, Next
<1>4. ASSUME NEW r \in Replica, NEW t \in Thread,
             register(r, t) \/ EnqueueOp(r, t) \/ ReadStart(r, t) \/ ClientStep(r, t)
      PROVE  UNCHANGED vars
  BY <1>4 DEF register, EnqueueOp, ReadStart, ClientStep, DequeueResponse, DequeueNothing,
     GetVersionUpperBound, CheckSynced, Read, AcquireCombinerLock, CombinerLockBusy
<1>5. ASSUME NEW r \in Replica, \/ CollectThreadOp(r) \/ ReleaseWrite(r) \/ SkipThread(r)
                                \/ PutResponse(r) \/ PublishResponse(r)
      PROVE  UNCHANGED vars
  BY <1>5 DEF CollectThreadOp, ReleaseWrite, SkipThread, PutResponse, PublishResponse
<1> QED BY <1>1, <1>2, <1>3, <1>4, <1>5 DEF NRNext, combine, allvars

SystemInv == ThreadInv /\ CollectedOK /\ ControlInv

LEMMA InitSystem == NRInit => SystemInv
<1> SUFFICES ASSUME NRInit PROVE SystemInv
  OBVIOUS
<1>1. CollectedOK
  <2>1. \A r \in Replica : num_ops[r] = << >> /\ collected_operations[r] = << >>
    BY DEF NRInit, ReplicasInit
  <2>2. \A r \in Replica : << >> \in Seq(Op[r]) /\ Len(<< >>) <= Len(<< >>)
    OBVIOUS
  <2> QED BY <2>1, <2>2 DEF CollectedOK
<1> QED BY <1>1, InitThreads, InitControl DEF SystemInv, NRInit

LEMMA SystemNext ==
  SystemInv /\ [NRNext]_allvars =>
     SystemInv' /\ [Next]_vars /\ \A q \in Replica : [Flat(q)!Next]_(Flat(q)!vars)
<1> SUFFICES ASSUME SystemInv, [NRNext]_allvars
             PROVE  SystemInv' /\ [Next]_vars /\ \A q \in Replica : [Flat(q)!Next]_(Flat(q)!vars)
  OBVIOUS
<1>1. version_upper_bound \in Nat
  BY NrLogAssumption DEF SystemInv, ControlInv, ControlTypes
<1>2. ThreadInv' /\ \A q \in Replica : [Flat(q)!Next]_(Flat(q)!vars)
  BY <1>1, ThreadNext DEF SystemInv
<1>3. CollectedOK'
  BY <1>1, <1>2, CollectedNext DEF SystemInv
<1>4. [Next]_vars
  BY LogOfNR DEF SystemInv
<1>5. ControlInv'
  BY <1>4, ControlNext DEF SystemInv
<1> QED BY <1>2, <1>3, <1>4, <1>5 DEF SystemInv

LEMMA SystemCorrect == NRSpec => []SystemInv
<1>1. NRInit => SystemInv
  BY InitSystem
<1>2. SystemInv /\ [NRNext]_allvars => SystemInv'
  BY SystemNext
<1> QED BY <1>1, <1>2, PTL DEF NRSpec

(* The flat combiners use the log as NrLog says its callers do: everything *)
(* proved of the log holds of node replication.                            *)
THEOREM UsesTheLog == NRSpec => Spec
<1>1. NRInit => Init
  BY DEF NRInit
<1>2. SystemInv /\ [NRNext]_allvars => [Next]_vars
  BY SystemNext
<1> QED BY <1>1, <1>2, SystemCorrect, PTL DEF NRSpec, Spec

(* The contexts of each replica follow the flat combining protocol: a      *)
(* context is collected at most once, answered only if it was collected,   *)
(* and its answer is there until its thread has taken it (context.rs,      *)
(* replica.rs).                                                            *)
THEOREM RefinesFlatCombinerCorrect == NRSpec => RefinesFlatCombiner
<1>1. NRInit => \A r \in Replica : Flat(r)!Init
  BY InitFlat
<1>2. SystemInv /\ [NRNext]_allvars => [\A r \in Replica : [Flat(r)!Next]_(Flat(r)!vars)]_allvars
  BY SystemNext
<1> QED BY <1>1, <1>2, SystemCorrect, PTL DEF NRSpec, RefinesFlatCombiner

-----------------------------------------------------------------------------
(* What a combiner has gathered *)

(* The batch c of replica r has the updates of the threads that n marks,   *)
(* in the order of the threads, and its first k have been answered: those  *)
(* of the threads before i.                                                *)
GatherOK(c, n, i, k, r) ==
  /\ \A x \in 1 .. Len(c) : \E t \in Thread : c[x] = <<r, t>> /\ t < Len(n) /\ n[t + 1] = 1
  /\ \A t \in Thread : t < Len(n) /\ n[t + 1] = 1 => \E x \in 1 .. Len(c) : c[x] = <<r, t>>
  /\ \A x, y \in 1 .. Len(c) : x < y => c[x][2] < c[y][2]
  /\ k \in 0 .. Len(c)
  /\ \A x \in 1 .. Len(c) : x <= k <=> c[x][2] < i

(* A replica's combiner with the phase p, whose log access is q, has given *)
(* the log its batch c and takes the answers back from it: the one that it *)
(* is about to publish is in the context a of its thread.                  *)
PhaseOK(p, q, c, ops, a, answers, i, k) ==
  /\ p \in {"none", "collect"} <=> q = "ready"
  /\ p \in {"distribute", "publish"} => q = "done"
  /\ ops = IF p \in {"none", "collect"} THEN << >> ELSE c
  /\ p = "publish" => a[i] = answers[k + 1]

CombinersOK ==
  \A r \in Replica :
     /\ GatherOK(collected_operations[r], num_ops[r], thread_idx[r], resp_idx[r], r)
     /\ PhaseOK(phase[r], pc[r], collected_operations[r], operations[r], resp[r], responses[r],
                thread_idx[r], resp_idx[r])

LEMMA GatherCollect ==
  ASSUME NEW r \in Replica, NEW n \in Seq({0, 1}), NEW c \in Seq(Request), NEW k, Len(n) \in Thread,
         NEW a \in {0, 1}, GatherOK(c, n, 0, k, r)
  PROVE  GatherOK(IF a = 1 THEN Append(c, <<r, Len(n)>>) ELSE c, Append(n, a), 0, k, r)
<1> DEFINE m == Append(n, a)
           w == Len(n)
           d == IF a = 1 THEN Append(c, <<r, w>>) ELSE c
<1>0. /\ \A x \in 1 .. Len(c) : \E t \in Thread : c[x] = <<r, t>> /\ t < Len(n) /\ n[t + 1] = 1
      /\ \A t \in Thread : t < Len(n) /\ n[t + 1] = 1 => \E x \in 1 .. Len(c) : c[x] = <<r, t>>
      /\ \A x, y \in 1 .. Len(c) : x < y => c[x][2] < c[y][2]
      /\ k \in 0 .. Len(c)
      /\ \A x \in 1 .. Len(c) : x <= k <=> c[x][2] < 0
  BY DEF GatherOK
<1>1. \A t \in Thread : t \in Nat
  BY ThreadNumbers
<1>2. /\ w \in Nat /\ Len(m) = w + 1 /\ m[w + 1] = a
      /\ \A t \in Thread : t < w => m[t + 1] = n[t + 1]
  BY <1>1
<1>3. CASE a = 0
  <2>1. d = c
    BY <1>3
  <2>2. \A t \in Thread : t < Len(m) /\ m[t + 1] = 1 => t < w /\ n[t + 1] = 1
    BY <1>1, <1>2, <1>3
  <2>3. \A t \in Thread : t < w /\ n[t + 1] = 1 => t < Len(m) /\ m[t + 1] = 1
    BY <1>1, <1>2
  <2> HIDE DEF m, w, d
  <2>4. GatherOK(d, m, 0, k, r)
    BY <1>0, <2>1, <2>2, <2>3 DEF GatherOK, w
  <2> QED BY <2>4 DEF m, w, d
<1>4. CASE a = 1
  <2>1. <<r, w>> \in Request
    BY DEF Request
  <2>2. /\ d \in Seq(Request) /\ Len(d) = Len(c) + 1 /\ Len(c) \in Nat /\ d[Len(c) + 1] = <<r, w>>
        /\ \A x \in 1 .. Len(c) : d[x] = c[x]
    BY <1>4, <2>1
  <2>3. \A x \in 1 .. Len(d) : x \in 1 .. Len(c) \/ x = Len(c) + 1
    BY <2>2
  <2> HIDE DEF d, m
  <2>4. \A x \in 1 .. Len(d) : \E t \in Thread : d[x] = <<r, t>> /\ t < Len(m) /\ m[t + 1] = 1
    <3> SUFFICES ASSUME NEW x \in 1 .. Len(d)
                 PROVE  \E t \in Thread : d[x] = <<r, t>> /\ t < Len(m) /\ m[t + 1] = 1
      OBVIOUS
    <3>1. CASE x = Len(c) + 1
      BY <1>2, <1>4, <2>2, <3>1
    <3>2. CASE x \in 1 .. Len(c)
      <4>1. PICK t \in Thread : c[x] = <<r, t>> /\ t < w /\ n[t + 1] = 1
        BY <1>0, <3>2
      <4>2. t < Len(m) /\ m[t + 1] = 1 /\ d[x] = <<r, t>>
        BY <1>1, <1>2, <2>2, <3>2, <4>1
      <4> QED BY <4>2
    <3> QED BY <2>3, <3>1, <3>2
  <2>5. ASSUME NEW t \in Thread, t < Len(m), m[t + 1] = 1
        PROVE  \E x \in 1 .. Len(d) : d[x] = <<r, t>>
    <3>1. CASE t = w
      <4>1. Len(c) + 1 \in 1 .. Len(d)
        BY <2>2
      <4> QED BY <2>2, <3>1, <4>1
    <3>2. CASE t # w
      <4>1. t < w /\ n[t + 1] = 1
        BY <1>1, <1>2, <2>5, <3>2
      <4>2. PICK x \in 1 .. Len(c) : c[x] = <<r, t>>
        BY <1>0, <4>1
      <4> QED BY <2>2, <4>2
    <3> QED BY <3>1, <3>2
  <2>6. ASSUME NEW x \in 1 .. Len(d), NEW y \in 1 .. Len(d), x < y
        PROVE  d[x][2] < d[y][2]
    <3>1. x \in 1 .. Len(c)
      BY <2>2, <2>6
    <3>2. PICK t \in Thread : c[x] = <<r, t>> /\ t < w
      BY <1>0, <3>1
    <3>3. CASE y = Len(c) + 1
      BY <2>2, <3>1, <3>2, <3>3
    <3>4. CASE y \in 1 .. Len(c)
      BY <1>0, <2>2, <2>6, <3>1, <3>4
    <3> QED BY <2>3, <3>3, <3>4
  <2>7. ASSUME NEW x \in 1 .. Len(d) PROVE x <= k <=> d[x][2] < 0
    <3>1. CASE x = Len(c) + 1
      <4>1. d[x][2] = w /\ ~(w < 0) /\ ~(x <= k)
        BY <1>0, <1>2, <2>2, <3>1
      <4> QED BY <4>1
    <3>2. CASE x \in 1 .. Len(c)
      BY <1>0, <2>2, <3>2
    <3> QED BY <2>3, <3>1, <3>2
  <2>8. k \in 0 .. Len(d)
    BY <1>0, <2>2
  <2> HIDE DEF w
  <2>9. GatherOK(d, m, 0, k, r)
    BY <2>4, <2>5, <2>6, <2>7, <2>8 DEF GatherOK
  <2> QED BY <2>9 DEF d, m, w
<1> QED BY <1>3, <1>4

LEMMA GatherSkip ==
  ASSUME NEW r \in Replica, NEW n \in Seq({0, 1}), NEW c \in Seq(Request), NEW k, NEW i \in Nat,
         n[i + 1] = 0, GatherOK(c, n, i, k, r)
  PROVE  GatherOK(c, n, i + 1, k, r)
<1>1. ASSUME NEW x \in 1 .. Len(c) PROVE c[x][2] < i <=> c[x][2] < i + 1
  <2>1. PICK t \in Thread : c[x] = <<r, t>> /\ n[t + 1] = 1
    BY DEF GatherOK
  <2>2. t \in Nat /\ t # i
    BY <2>1, ThreadNumbers
  <2> QED BY <2>1, <2>2
<1> QED BY <1>1 DEF GatherOK

(* The next answer is for the thread to be answered. *)
LEMMA GatherPublish ==
  ASSUME NEW r \in Replica, NEW n \in Seq({0, 1}), NEW c \in Seq(Request), NEW k, NEW i \in Thread,
         i < Len(n), n[i + 1] = 1, GatherOK(c, n, i, k, r)
  PROVE  /\ k \in Nat /\ k + 1 \in 1 .. Len(c) /\ c[k + 1] = <<r, i>>
         /\ GatherOK(c, n, i + 1, k + 1, r)
<1>0. /\ \A x \in 1 .. Len(c) : \E t \in Thread : c[x] = <<r, t>> /\ t < Len(n) /\ n[t + 1] = 1
      /\ \A x, y \in 1 .. Len(c) : x < y => c[x][2] < c[y][2]
      /\ k \in 0 .. Len(c)
      /\ \A x \in 1 .. Len(c) : x <= k <=> c[x][2] < i
  BY DEF GatherOK
<1>1. PICK z \in 1 .. Len(c) : c[z] = <<r, i>>
  BY DEF GatherOK
<1>2. i \in Nat /\ Len(c) \in Nat
  BY ThreadNumbers
<1>3. z = k + 1
  <2>1. c[z][2] = i /\ ~(i < i)
    BY <1>1, <1>2
  <2>2. z > k
    BY <1>0, <1>2, <2>1
  <2>3. CASE z > k + 1
    <3>1. k + 1 \in 1 .. Len(c) /\ k + 1 < z
      BY <1>0, <1>2, <2>3
    <3>2. c[k + 1][2] < c[z][2]
      BY <1>0, <3>1
    <3>3. k + 1 <= k
      BY <1>0, <1>1, <3>1, <3>2
    <3> QED BY <1>0, <3>3
  <2> QED BY <1>0, <1>2, <2>2, <2>3
<1>4. ASSUME NEW x \in 1 .. Len(c) PROVE x <= k + 1 <=> c[x][2] < i + 1
  <2>1. PICK t \in Thread : c[x] = <<r, t>>
    BY <1>0
  <2>2. t \in Nat /\ c[x][2] = t
    BY <2>1, ThreadNumbers
  <2>3. CASE x <= k
    BY <1>0, <1>2, <2>2, <2>3
  <2>4. CASE x = k + 1
    BY <1>1, <1>2, <1>3, <2>4
  <2>5. CASE x > k + 1
    <3>1. c[z][2] < c[x][2] /\ c[z][2] = i
      BY <1>0, <1>1, <1>3, <2>5
    <3> QED BY <1>0, <1>2, <2>2, <2>5, <3>1
  <2> QED BY <1>0, <1>2, <2>3, <2>4, <2>5
<1>5. k \in Nat /\ k + 1 \in 1 .. Len(c) /\ k + 1 \in 0 .. Len(c) /\ c[k + 1] = <<r, i>>
  BY <1>0, <1>1, <1>2, <1>3
<1>6. /\ \A x \in 1 .. Len(c) : \E t \in Thread : c[x] = <<r, t>> /\ t < Len(n) /\ n[t + 1] = 1
      /\ \A t \in Thread : t < Len(n) /\ n[t + 1] = 1 => \E x \in 1 .. Len(c) : c[x] = <<r, t>>
  BY DEF GatherOK
<1>7. GatherOK(c, n, i + 1, k + 1, r)
  BY <1>0, <1>4, <1>5, <1>6 DEF GatherOK
<1> QED BY <1>5, <1>7

-----------------------------------------------------------------------------
(* The steps of the log, seen from its callers *)

(* Nothing changes in the log for the replicas other than r. *)
LogElsewhereSame(r) ==
  \A q \in Replica \ {r} :
     /\ pc'[q] = pc[q] /\ ex'[q] = ex[q] /\ operations'[q] = operations[q]
     /\ responses'[q] = responses[q] /\ replicas'[q] = replicas[q]
     /\ local_versions'[q] = local_versions[q]

(* A combiner outside of execute. *)
OutsidePCs == PCs \ ExecutePCs

(* A step that changes nothing but where the combiner is. *)
JustMoves(r) ==
  /\ UNCHANGED <<log, tail, local_versions, version_upper_bound, replicas, operations, responses>>
  /\ pc[r] \in OutsidePCs \ {"ready"}
  /\ pc'[r] \in (OutsidePCs \ {"ready"}) \cup {"load_version"}
  /\ NotAppended(pc'[r], ex'[r]) <=> NotAppended(pc[r], ex[r])

AnswerTyped == replicas \in [Replica -> Seq(AllOps)] /\ responses \in [Replica -> Seq(Seq(AllOps))]

LEMMA LogStepKinds ==
  ASSUME ControlInv, AnswerTyped, NEW r \in Replica, LogStep(r)
  PROVE  /\ LogElsewhereSame(r) /\ operations' = operations
         /\ pc[r] # "ready" /\ pc'[r] # "ready"
         /\ \/ JustMoves(r) \/ CasTail(r)
            \/ LoadLocalVersion(r) \/ LoadExecTail_NoWork(r) \/ LoadExecTail_Work(r)
            \/ WaitAlive(r) \/ DispatchEntry(r) \/ BumpVersionUpperBound(r) \/ StoreLocalVersion(r)
<1>0. /\ pc \in [Replica -> PCs] /\ ex \in [Replica -> Executes]
      /\ local_versions \in [Replica -> 0 .. MAX_IDX]
      /\ Locals(pc[r], ap[r], ah[r], ex[r], NumOps(r))
      /\ replicas \in [Replica -> Seq(AllOps)] /\ responses \in [Replica -> Seq(Seq(AllOps))]
  BY DEF ControlInv, ControlTypes, LocalsOK, AnswerTyped
<1> USE DEF LogElsewhereSame
<1>1. CASE LoadTail(r) \/ LoadHead_Room(r) \/ WarnTailTooBig(r) \/ CasTailFails(r)
  <2>1. /\ UNCHANGED <<log, tail, local_versions, version_upper_bound, replicas, operations, responses, ex>>
        /\ pc[r] \in {"load_tail", "load_head", "cas_tail", "panic"}
        /\ pc'[r] \in {"load_tail", "load_head", "cas_tail", "panic"}
        /\ \A q \in Replica \ {r} : pc'[q] = pc[q]
    BY <1>0, <1>1 DEF LoadTail, LoadHead_Room, WarnTailTooBig, CasTailFails, At, Goto, shared, vars
  <2> QED BY <2>1 DEF JustMoves, NotAppended, OutsidePCs, PCs, AppendPCs, AdvancePCs, ExecutePCs, LoopPCs
<1>2. CASE WriteEntry(r) \/ SetAlive(r) \/ AppendReturn_Advance(r)
           \/ LoadGlobalHead(r) \/ LoadGlobalTail(r) \/ FindMin(r)
  <2>1. /\ UNCHANGED <<log, tail, local_versions, version_upper_bound, replicas, operations, responses, ex>>
        /\ pc[r] \in {"write_entry", "set_alive", "append_return"} \cup AdvancePCs
        /\ pc'[r] \in {"write_entry", "set_alive", "append_return"} \cup AdvancePCs
        /\ \A q \in Replica \ {r} : pc'[q] = pc[q]
    BY <1>0, <1>2 DEF WriteEntry, SetAlive, AppendReturn_Advance, LoadGlobalHead, LoadGlobalTail,
                      FindMin, At, Goto, shared, AdvancePCs
  <2> QED BY <2>1 DEF JustMoves, NotAppended, OutsidePCs, PCs, AppendPCs, AdvancePCs, ExecutePCs, LoopPCs
<1>3. CASE LoadHead_Wait(r) \/ AppendReturn_Execute(r) \/ NothingToFree(r) \/ StoreHead(r)
  <2>1. PICK c \in {"load_tail", "load_global_head", "done"} :
          /\ CallExecute(r, c)
          /\ c = "load_tail" <=> pc[r] = "load_head"
          /\ pc[r] \in {"load_head", "append_return", "store_head"}
    BY <1>3 DEF LoadHead_Wait, AppendReturn_Execute, NothingToFree, StoreHead, At
  <2>2. UNCHANGED <<log, tail, local_versions, version_upper_bound, replicas, operations, responses>>
    BY <1>3 DEF LoadHead_Wait, AppendReturn_Execute, NothingToFree, StoreHead, shared
  <2>3. /\ pc'[r] = "load_version" /\ ex'[r].caller = c
        /\ \A q \in Replica \ {r} : pc'[q] = pc[q] /\ ex'[q] = ex[q]
    BY <1>0, <2>1 DEF CallExecute, Goto, NoExecute
  <2>4. ex[r].caller = "none"
    BY <1>0, <2>1 DEF Locals, ExecutePCs, LoopPCs
  <2> QED BY <2>1, <2>2, <2>3, <2>4 DEF JustMoves, NotAppended, OutsidePCs, PCs, AppendPCs, AdvancePCs,
                                        ExecutePCs, LoopPCs
<1>4. CASE CasTail(r) \/ LoadLocalVersion(r) \/ LoadExecTail_Work(r) \/ WaitAlive(r)
           \/ BumpVersionUpperBound(r)
  BY <1>0, <1>4 DEF CasTail, LoadLocalVersion, LoadExecTail_Work, WaitAlive, BumpVersionUpperBound,
                    At, Goto, shared
<1>5. CASE DispatchEntry(r)
  BY <1>0, <1>5 DEF DispatchEntry, At, Goto, shared
<1>6. CASE LoadExecTail_NoWork(r) \/ StoreLocalVersion(r)
  <2>1. ex[r].caller \in {"load_tail", "load_global_head", "done"}
    <3>1. pc[r] \in ExecutePCs /\ ex[r] \in Executes
      BY <1>0, <1>6 DEF LoadExecTail_NoWork, StoreLocalVersion, At, ExecutePCs, LoopPCs
    <3> QED BY <1>0, <3>1 DEF Locals, Executes
  <2> QED BY <1>0, <1>6, <2>1 DEF LoadExecTail_NoWork, StoreLocalVersion, ReturnFromExecute, At, Goto, shared
<1> QED BY <1>1, <1>2, <1>3, <1>4, <1>5, <1>6 DEF LogStep, append, advance_head, execute

(* What starts and ends a batch. *)
LEMMA BatchEnds ==
  ASSUME ControlInv, AnswerTyped, NEW r \in Replica, NEW ops, append_start(r, ops) \/ finish(r)
  PROVE  /\ LogElsewhereSame(r) /\ UNCHANGED <<log, tail, local_versions, version_upper_bound, replicas, ex>>
         /\ append_start(r, ops) => /\ pc[r] = "ready" /\ pc'[r] = "load_tail"
                                    /\ operations'[r] = ops /\ responses' = responses
         /\ finish(r) => /\ pc[r] = "done" /\ pc'[r] = "ready"
                         /\ operations'[r] = << >> /\ responses'[r] = << >>
BY DEF ControlInv, ControlTypes, AnswerTyped, append_start, finish, At, Goto, shared, LogElsewhereSame

-----------------------------------------------------------------------------
(* What a combiner gathers, and what it does with it *)

CombinerNow(r) ==
  /\ GatherOK(collected_operations[r], num_ops[r], thread_idx[r], resp_idx[r], r)
  /\ PhaseOK(phase[r], pc[r], collected_operations[r], operations[r], resp[r], responses[r],
             thread_idx[r], resp_idx[r])

LEMMA CombinerThreads ==
  ASSUME ThreadInv, CombinersOK, NEW r \in Replica, NEW t \in Thread,
         \/ register(r, t) \/ EnqueueOp(r, t) \/ ReadStart(r, t) \/ ClientStep(r, t)
  PROVE  CombinerNow(r)' /\ LogElsewhereSame(r)
<1>0. CombinerNow(r)
  BY DEF CombinersOK, CombinerNow
<1>1. UNCHANGED <<pc, operations, responses, collected_operations, num_ops, thread_idx, resp_idx,
                  ex, replicas, local_versions>>
  BY DEF register, EnqueueOp, ReadStart, ClientStep, DequeueResponse, DequeueNothing,
         GetVersionUpperBound, CheckSynced, Read, AcquireCombinerLock, CombinerLockBusy,
         combining, collected, progress, vars, shared
<1>2. CASE AcquireCombinerLock(r, t)
  <2>1. /\ phase'[r] = "collect" /\ combiner[r] = NoThread /\ resp' = resp
    BY <1>2 DEF AcquireCombinerLock, ThreadInv, ThreadTypes, contexts
  <2>2. phase[r] = "none"
    BY <2>1, ThreadNumbers DEF ThreadInv, ThreadsOK, FlatOK
  <2> QED BY <1>0, <1>1, <2>1, <2>2 DEF CombinerNow, GatherOK, PhaseOK, LogElsewhereSame
<1>3. CASE ~AcquireCombinerLock(r, t)
  <2>1. phase' = phase
    BY <1>3 DEF register, EnqueueOp, ReadStart, ClientStep, DequeueResponse, DequeueNothing,
         GetVersionUpperBound, CheckSynced, Read, CombinerLockBusy, combining
  <2>2. phase[r] = "publish" => resp'[r][thread_idx[r]] = resp[r][thread_idx[r]]
    <3>1. CASE EnqueueOp(r, t) \/ DequeueResponse(r, t)
      <4>1. /\ atomic[r][t] = 0 /\ resp' = [resp EXCEPT ![r][t] = NoResp]
        BY <3>1 DEF EnqueueOp, DequeueResponse, Client, ThreadInv, ThreadTypes, ThreadsOK, FlatOK
      <4>2. phase[r] = "publish" => thread_idx[r] \in Thread /\ atomic[r][thread_idx[r]] = 1
        <5>1. /\ FlatOK(phase[r], combiner[r], client[r], atomic[r], num_ops[r], thread_idx[r])
              /\ thread_idx[r] \in 0 .. num_threads
          BY DEF ThreadInv, ThreadTypes, ThreadsOK
        <5>2. phase[r] = "publish" => thread_idx[r] \in Thread /\ thread_idx[r] < Len(num_ops[r])
          BY <5>1, ThreadNumbers DEF FlatOK
        <5> QED BY <5>1, <5>2, ThreadNumbers DEF FlatOK
      <4>3. phase[r] = "publish" => t # thread_idx[r]
        BY <4>1, <4>2
      <4> QED BY <4>1, <4>3 DEF ThreadInv, ThreadTypes
    <3>2. CASE ~(EnqueueOp(r, t) \/ DequeueResponse(r, t))
      <4>1. resp' = resp
        BY <1>3, <3>2 DEF register, ReadStart, ClientStep, DequeueNothing,
           GetVersionUpperBound, CheckSynced, Read, CombinerLockBusy, contexts
      <4> QED BY <4>1
    <3> QED BY <3>1, <3>2
  <2> QED BY <1>0, <1>1, <2>1, <2>2 DEF CombinerNow, GatherOK, PhaseOK, LogElsewhereSame
<1> QED BY <1>2, <1>3

LEMMA CombinerCombines ==
  ASSUME ThreadInv, CombinersOK, ControlInv, AnswerTyped, NEW r \in Replica, combine(r)
  PROVE  CombinerNow(r)' /\ LogElsewhereSame(r)
<1> DEFINE c == collected_operations[r]
           n == num_ops[r]
           i == thread_idx[r]
           k == resp_idx[r]
<1>0. /\ GatherOK(c, n, i, k, r)
      /\ PhaseOK(phase[r], pc[r], c, operations[r], resp[r], responses[r], i, k)
      /\ n \in Seq({0, 1}) /\ c \in Seq(Request) /\ i \in Nat /\ k \in Nat
      /\ FlatOK(phase[r], combiner[r], client[r], atomic[r], n, i)
  BY ThreadNumbers DEF CombinersOK, CombinerNow, ThreadInv, ThreadTypes, ThreadsOK
<1> HIDE DEF c, n, i, k
<1> USE DEF c, n, i, k, CombinerNow
<1>1. CASE CollectThreadOp(r)
  <2>1. UNCHANGED <<pc, operations, responses, resp, thread_idx, resp_idx, phase, ex, replicas, local_versions>>
    BY <1>1 DEF CollectThreadOp, vars, shared, contexts, progress
  <2>2. phase[r] = "collect" /\ i = 0 /\ Len(n) \in Thread
    BY <1>0, <1>1, ThreadNumbers DEF CollectThreadOp, FlatOK
  <2>3. PICK a \in {0, 1} : a = atomic[r][Len(n)]
    BY <2>2 DEF ThreadInv, ThreadTypes
  <2>4. /\ num_ops'[r] = Append(n, a)
        /\ collected_operations'[r] = IF a = 1 THEN Append(c, <<r, Len(n)>>) ELSE c
    BY <1>1, <2>3 DEF CollectThreadOp, ThreadInv, ThreadTypes
  <2>5. GatherOK(collected_operations'[r], num_ops'[r], 0, k, r)
    BY <1>0, <2>2, <2>3, <2>4, GatherCollect
  <2>6. thread_idx'[r] = 0 /\ resp_idx'[r] = k
    BY <2>1, <2>2
  <2>7. PhaseOK(phase'[r], pc'[r], collected_operations'[r], operations'[r], resp'[r], responses'[r],
                thread_idx'[r], resp_idx'[r])
    BY <1>0, <2>1, <2>2 DEF PhaseOK
  <2>8. GatherOK(collected_operations'[r], num_ops'[r], thread_idx'[r], resp_idx'[r], r)
    BY <2>5, <2>6
  <2> QED BY <2>1, <2>7, <2>8 DEF LogElsewhereSame, GatherOK, PhaseOK
<1>2. ASSUME UNCHANGED <<collected_operations, num_ops, thread_idx, resp_idx>>,
             PhaseOK(phase'[r], pc'[r], collected_operations'[r], operations'[r], resp'[r], responses'[r],
                     thread_idx'[r], resp_idx'[r])
      PROVE  CombinerNow(r)'
  BY <1>0, <1>2 DEF GatherOK, PhaseOK
<1>3. CASE AcquireWrite(r)
  <2>1. /\ UNCHANGED <<collected_operations, num_ops, thread_idx, resp_idx>>
        /\ phase[r] = "collect" /\ phase'[r] = "log" /\ append_start(r, c)
    BY <1>3 DEF AcquireWrite, collected, progress, ThreadInv, ThreadTypes
  <2>2. pc'[r] = "load_tail" /\ operations'[r] = c /\ LogElsewhereSame(r)
    BY <2>1, BatchEnds
  <2>3. PhaseOK(phase'[r], pc'[r], collected_operations'[r], operations'[r], resp'[r], responses'[r],
                     thread_idx'[r], resp_idx'[r])
    BY <2>1, <2>2 DEF PhaseOK
  <2> QED BY <1>2, <2>1, <2>2, <2>3
<1>4. CASE WorkOnLog(r)
  <2>1. /\ UNCHANGED <<collected_operations, num_ops, thread_idx, resp_idx, phase>>
        /\ phase[r] = "log" /\ LogStep(r)
    BY <1>4 DEF WorkOnLog, nrvars, combining, collected, progress
  <2>2. pc'[r] # "ready" /\ operations' = operations /\ LogElsewhereSame(r)
    BY <2>1, LogStepKinds
  <2>3. PhaseOK(phase'[r], pc'[r], collected_operations'[r], operations'[r], resp'[r], responses'[r],
                     thread_idx'[r], resp_idx'[r])
    BY <1>0, <2>1, <2>2 DEF PhaseOK
  <2> QED BY <1>2, <2>1, <2>2, <2>3
<1>5. CASE ReleaseWrite(r) \/ PutResponse(r)
  <2>1. /\ UNCHANGED <<collected_operations, num_ops, thread_idx, resp_idx, pc, operations, responses, ex,
                       replicas, local_versions>>
        /\ \/ phase[r] = "log" /\ phase'[r] = "distribute" /\ pc[r] = "done"
           \/ /\ phase[r] = "distribute" /\ phase'[r] = "publish" /\ i \in Thread
              /\ resp' = [resp EXCEPT ![r][i] = responses[r][k + 1]]
    BY <1>5, ThreadNumbers DEF ReleaseWrite, PutResponse, RespondingTo, vars, shared, collected, progress,
       ThreadInv, ThreadTypes, At
  <2>2. phase'[r] = "publish" => resp'[r][i] = responses[r][k + 1]
    BY <2>1 DEF ThreadInv, ThreadTypes
  <2>3. PhaseOK(phase'[r], pc'[r], collected_operations'[r], operations'[r], resp'[r], responses'[r],
                     thread_idx'[r], resp_idx'[r])
    BY <1>0, <2>1, <2>2 DEF PhaseOK
  <2> QED BY <1>2, <2>1, <2>3 DEF LogElsewhereSame
<1>6. CASE SkipThread(r) \/ PublishResponse(r)
  <2>1. /\ UNCHANGED <<collected_operations, num_ops, pc, operations, responses, ex, replicas, local_versions>>
        /\ phase[r] \in {"distribute", "publish"} /\ phase'[r] = "distribute"
        /\ thread_idx'[r] = i + 1
        /\ \/ SkipThread(r) /\ n[i + 1] = 0 /\ resp_idx'[r] = k
           \/ PublishResponse(r) /\ phase[r] = "publish" /\ resp_idx'[r] = k + 1
    BY <1>6 DEF SkipThread, PublishResponse, RespondingTo, vars, shared, collected, ThreadInv, ThreadTypes
  <2>2. GatherOK(c, n, thread_idx'[r], resp_idx'[r], r)
    <3>1. CASE SkipThread(r) /\ n[i + 1] = 0 /\ resp_idx'[r] = k
      <4>1. GatherOK(c, n, i + 1, k, r)
        BY <1>0, <3>1, GatherSkip
      <4> QED BY <2>1, <3>1, <4>1
    <3>2. CASE phase[r] = "publish" /\ resp_idx'[r] = k + 1
      <4>1. i \in Thread /\ i < Len(n) /\ n[i + 1] = 1
        BY <1>0, <3>2, ThreadNumbers DEF FlatOK
      <4>2. GatherOK(c, n, i + 1, k + 1, r)
        BY <1>0, <4>1, GatherPublish
      <4> QED BY <2>1, <3>2, <4>2
    <3> QED BY <2>1, <3>1, <3>2
  <2>3. GatherOK(collected_operations'[r], num_ops'[r], thread_idx'[r], resp_idx'[r], r)
    BY <2>1, <2>2
  <2>4. PhaseOK(phase'[r], pc'[r], collected_operations'[r], operations'[r], resp'[r], responses'[r],
                     thread_idx'[r], resp_idx'[r])
    BY <1>0, <2>1 DEF PhaseOK
  <2> QED BY <2>1, <2>3, <2>4 DEF LogElsewhereSame, GatherOK, PhaseOK
<1>7. CASE ReleaseCombinerLock(r)
  <2>1. /\ num_ops'[r] = << >> /\ collected_operations'[r] = << >> /\ thread_idx'[r] = 0 /\ resp_idx'[r] = 0
        /\ phase'[r] = "none" /\ finish(r)
    BY <1>7 DEF ReleaseCombinerLock, ThreadInv, ThreadTypes
  <2>2. pc'[r] = "ready" /\ operations'[r] = << >> /\ LogElsewhereSame(r)
    BY <2>1, BatchEnds
  <2>3. PhaseOK(phase'[r], pc'[r], collected_operations'[r], operations'[r], resp'[r], responses'[r],
                     thread_idx'[r], resp_idx'[r])
    BY <2>1, <2>2 DEF PhaseOK
  <2>4. GatherOK(<< >>, << >>, 0, 0, r)
    BY ThreadNumbers DEF GatherOK
  <2>5. GatherOK(collected_operations'[r], num_ops'[r], thread_idx'[r], resp_idx'[r], r)
    BY <2>1, <2>4
  <2> QED BY <2>2, <2>3, <2>5 DEF GatherOK, PhaseOK
<1> QED BY <1>1, <1>3, <1>4, <1>5, <1>6, <1>7 DEF combine

LEMMA CombinersNext ==
  ASSUME ThreadInv, CombinersOK, ControlInv, AnswerTyped, [NRNext]_allvars
  PROVE  CombinersOK'
<1>0. version_upper_bound \in Nat
  BY NrLogAssumption DEF ControlInv, ControlTypes
<1>1. CASE NRNext
  <2>1. PICK r \in Replica :
          \/ \E t \in Thread : register(r, t) \/ EnqueueOp(r, t) \/ ReadStart(r, t) \/ ClientStep(r, t)
          \/ combine(r)
    BY <1>1 DEF NRNext
  <2>2. ElsewhereSame(r)
    BY <1>0, <2>1, TypesNext
  <2>3. CombinerNow(r)' /\ LogElsewhereSame(r)
    BY <2>1, CombinerThreads, CombinerCombines
  <2>4. ASSUME NEW q \in Replica PROVE CombinerNow(q)'
    <3>1. CASE q = r
      BY <2>3, <3>1
    <3>2. CASE q # r
      <4>1. q \in Replica \ {r} /\ CombinerNow(q)
        BY <3>2 DEF CombinersOK, CombinerNow
      <4>2. /\ collected_operations'[q] = collected_operations[q] /\ num_ops'[q] = num_ops[q]
            /\ thread_idx'[q] = thread_idx[q] /\ resp_idx'[q] = resp_idx[q] /\ phase'[q] = phase[q]
            /\ resp'[q] = resp[q] /\ pc'[q] = pc[q] /\ operations'[q] = operations[q]
            /\ responses'[q] = responses[q]
        BY <2>2, <2>3, <4>1 DEF ElsewhereSame, LogElsewhereSame
      <4> QED BY <4>1, <4>2 DEF CombinerNow, GatherOK, PhaseOK
    <3> QED BY <3>1, <3>2
  <2> QED BY <2>4 DEF CombinersOK, CombinerNow
<1>2. CASE UNCHANGED allvars
  BY <1>2 DEF allvars, nrvars, contexts, combining, collected, progress, vars, shared, CombinersOK,
     GatherOK, PhaseOK
<1> QED BY <1>1, <1>2

(* Before a replica records a version, version_upper_bound has reached it. *)
VersionsOK ==
  \A r \in Replica :
     /\ local_versions[r] <= version_upper_bound
     /\ pc[r] = "store_version" => ex[r].global_tail <= version_upper_bound

LEMMA VersionsNext ==
  ASSUME ControlInv, AnswerTyped, VersionsOK, [Next]_vars
  PROVE  VersionsOK'
<1>0. /\ version_upper_bound \in Nat
      /\ \A r \in Replica : local_versions[r] \in Nat /\ ex[r].global_tail \in Nat
  <2>1. ControlTypes
    BY DEF ControlInv
  <2>2. version_upper_bound \in Nat
    BY NrLogAssumption, <2>1 DEF ControlTypes
  <2> QED BY <2>1, <2>2, Typed
<1> DEFINE Fine(r) == /\ local_versions'[r] <= version_upper_bound'
                      /\ pc'[r] = "store_version" => ex'[r].global_tail <= version_upper_bound'
<1>1. ASSUME NEW r \in Replica, LogElsewhereSame(r), Fine(r), version_upper_bound' \in Nat,
             version_upper_bound <= version_upper_bound'
      PROVE  VersionsOK'
  <2> SUFFICES ASSUME NEW q \in Replica PROVE Fine(q)
    BY DEF VersionsOK
  <2>1. CASE q = r
    BY <1>1, <2>1
  <2>2. CASE q # r
    <3>1. /\ pc'[q] = pc[q] /\ ex'[q] = ex[q] /\ local_versions'[q] = local_versions[q]
      BY <1>1, <2>2 DEF LogElsewhereSame
    <3> QED BY <1>0, <1>1, <3>1 DEF VersionsOK
  <2> QED BY <2>1, <2>2
<1>2. ASSUME NEW r \in Replica, LogStep(r) PROVE VersionsOK'
  <2>0. /\ LogElsewhereSame(r)
        /\ \/ JustMoves(r) \/ CasTail(r)
           \/ LoadLocalVersion(r) \/ LoadExecTail_NoWork(r) \/ LoadExecTail_Work(r)
           \/ WaitAlive(r) \/ DispatchEntry(r) \/ BumpVersionUpperBound(r) \/ StoreLocalVersion(r)
        /\ pc \in [Replica -> PCs] /\ ex \in [Replica -> Executes]
        /\ local_versions \in [Replica -> 0 .. MAX_IDX]
    BY <1>2, LogStepKinds DEF ControlInv, ControlTypes
  <2>1. CASE JustMoves(r) \/ CasTail(r) \/ LoadLocalVersion(r) \/ LoadExecTail_Work(r) \/ WaitAlive(r)
             \/ DispatchEntry(r)
    <3>1. /\ UNCHANGED <<local_versions, version_upper_bound>> /\ pc'[r] # "store_version"
      BY <2>0, <2>1 DEF JustMoves, OutsidePCs, ExecutePCs, LoopPCs, CasTail, LoadLocalVersion,
         LoadExecTail_Work, WaitAlive, DispatchEntry, Goto, shared
    <3> QED BY <1>0, <1>1, <2>0, <3>1 DEF VersionsOK
  <2>2. CASE LoadExecTail_NoWork(r) \/ StoreLocalVersion(r)
    <3>1. ex[r].caller # "store_version"
      BY <2>0 DEF Executes
    <3>2. /\ version_upper_bound' = version_upper_bound /\ pc'[r] # "store_version"
          /\ local_versions'[r] = local_versions[r]
               \/ (pc[r] = "store_version" /\ local_versions'[r] = ex[r].global_tail)
      BY <2>0, <2>2, <3>1 DEF LoadExecTail_NoWork, StoreLocalVersion, ReturnFromExecute, Goto, At, shared
    <3> QED BY <1>0, <1>1, <2>0, <3>2 DEF VersionsOK
  <2>3. CASE BumpVersionUpperBound(r)
    <3>1. /\ ex' = ex /\ local_versions' = local_versions
          /\ version_upper_bound' =
               IF ex[r].global_tail > version_upper_bound THEN ex[r].global_tail ELSE version_upper_bound
      BY <2>3 DEF BumpVersionUpperBound
    <3> QED BY <1>0, <1>1, <2>0, <3>1 DEF VersionsOK
  <2> QED BY <2>0, <2>1, <2>2, <2>3
<1>3. ASSUME NEW r \in Replica, NEW ops, append_start(r, ops) \/ finish(r) PROVE VersionsOK'
  <2>1. LogElsewhereSame(r) /\ UNCHANGED <<local_versions, version_upper_bound>> /\ pc'[r] # "store_version"
    BY <1>3, BatchEnds
  <2> QED BY <1>0, <1>1, <2>1 DEF VersionsOK
<1>4. CASE UNCHANGED vars
  BY <1>4 DEF vars, shared, VersionsOK
<1> QED BY <1>2, <1>3, <1>4 DEF Next

(* All that is needed to find the unbounded log in node replication. *)
NodeInv == SystemInv /\ LogInv /\ AnswersOK /\ CombinersOK /\ VersionsOK

LEMMA InitNode == NRInit => NodeInv
<1> SUFFICES ASSUME NRInit PROVE NodeInv
  OBVIOUS
<1>1. Init
  BY DEF NRInit
<1>2. CombinersOK
  <2>1. \A r \in Replica : /\ num_ops[r] = << >> /\ collected_operations[r] = << >> /\ thread_idx[r] = 0
                           /\ resp_idx[r] = 0 /\ phase[r] = "none" /\ pc[r] = "ready"
                           /\ operations[r] = << >>
    BY DEF NRInit, ReplicasInit, Init
  <2>2. \A r \in Replica : GatherOK(<< >>, << >>, 0, 0, r)
    BY ThreadNumbers DEF GatherOK
  <2> QED BY <2>1, <2>2 DEF CombinersOK, PhaseOK
<1>3. VersionsOK
  BY <1>1 DEF Init, VersionsOK
<1> QED BY <1>1, <1>2, <1>3, InitSystem, InitLog, InitAnswers DEF NodeInv

LEMMA NodeNext == NodeInv /\ [NRNext]_allvars => NodeInv'
<1> SUFFICES ASSUME NodeInv, [NRNext]_allvars PROVE NodeInv'
  OBVIOUS
<1>1. SystemInv' /\ [Next]_vars
  BY SystemNext DEF NodeInv
<1>2. ControlInv /\ ControlInv' /\ LogInv /\ AnswersOK /\ AnswerTyped /\ ThreadInv
  BY <1>1 DEF NodeInv, SystemInv, AnswersOK, AnswerTyped
<1>3. LogInv' /\ AnswersOK'
  BY <1>1, <1>2, LogNext, AnswersNext
<1>4. CombinersOK'
  BY <1>2, CombinersNext DEF NodeInv
<1>5. VersionsOK'
  BY <1>1, <1>2, VersionsNext DEF NodeInv
<1> QED BY <1>1, <1>3, <1>4, <1>5 DEF NodeInv

LEMMA NodeCorrect == NRSpec => []NodeInv
<1> QED BY InitNode, NodeNext, PTL DEF NRSpec

-----------------------------------------------------------------------------
(* Where the batches are in the log *)

LEMMA PositionIs ==
  ASSUME log \in Seq(Entry), NEW rid, NEW i \in 1 .. Len(log), log[i].op = rid,
         \A j \in i + 1 .. Len(log) : log[j].op # rid
  PROVE  Position(rid) = i
<1>1. ASSUME NEW j \in LastPlace(log, rid) PROVE j = i
  <2>1. /\ j \in 1 .. Len(log) /\ log[j].op = rid
        /\ \A k \in j + 1 .. Len(log) : log[k].op # rid
    BY DEF LastPlace
  <2>2. ~(j < i) /\ ~(i < j)
    BY <2>1
  <2> QED BY <2>1, <2>2
<1>2. i \in LastPlace(log, rid)
  BY DEF LastPlace
<1>3. LastPlace(log, rid) = {i}
  BY <1>1, <1>2
<1> QED BY <1>3 DEF Position

(* An entry holds an update of a thread of its node. *)
LEMMA EntryOps ==
  ASSUME NEW e \in Entry
  PROVE  e.node_id \in Replica /\ \E t \in Thread : e.op = <<e.node_id, t>>
<1>1. PICK r \in Replica : e \in [op : Op[r], node_id : {r}]
  BY DEF Entry
<1>2. e.op \in Op[r] /\ e.node_id = r
  BY <1>1
<1>3. Op[r] = {<<r, t>> : t \in Thread}
  BY NodeReplicationAssumption DEF Thread
<1> QED BY <1>2, <1>3

LEMMA NodeTypes ==
  ASSUME NodeInv, NEW r \in Replica
  PROVE  /\ log \in Seq(Entry) /\ Len(log) = tail /\ tail \in Nat
         /\ operations[r] \in Seq(AllOps) /\ NumOps(r) = Len(operations[r]) /\ NumOps(r) \in Nat
         /\ local_versions[r] \in Nat /\ local_versions[r] <= tail
         /\ version_upper_bound \in Nat /\ local_versions[r] <= version_upper_bound
         /\ ex[r].local_version \in Nat /\ ex[r].global_tail \in Nat
         /\ ex[r] \in Executes /\ pc[r] \in PCs /\ Locals(pc[r], ap[r], ah[r], ex[r], NumOps(r))
         /\ pc[r] \in LoopPCs => /\ local_versions[r] <= ex[r].local_version
                                 /\ ex[r].local_version <= ex[r].global_tail
                                 /\ ex[r].global_tail <= tail
         /\ pc[r] = "load_exec_tail" => ex[r].local_version = local_versions[r]
         /\ current_local_version(r) = Version(pc[r], ex[r], local_versions[r])
         /\ current_local_version(r) \in Nat /\ current_local_version(r) <= tail
         /\ local_versions[r] <= current_local_version(r)
         /\ responses[r] \in Seq(Seq(AllOps))
         /\ pc \in [Replica -> PCs] /\ ex \in [Replica -> Executes]
         /\ operations \in [Replica -> Seq(AllOps)] /\ local_versions \in [Replica -> 0 .. MAX_IDX]
         /\ AnswerTyped
<1>1. ControlInv /\ ControlTypes /\ LogInv /\ AnswersOK
  BY DEF NodeInv, SystemInv, ControlInv
<1>2. /\ log \in Seq(Entry) /\ Len(log) = tail /\ tail \in Nat
      /\ operations[r] \in Seq(AllOps) /\ NumOps(r) = Len(operations[r]) /\ NumOps(r) \in Nat
      /\ local_versions[r] \in Nat /\ version_upper_bound \in Nat
      /\ ex[r].local_version \in Nat /\ ex[r].global_tail \in Nat
  BY <1>1, Typed DEF LogInv, ControlTypes, NumOps
<1>3. /\ ex[r] \in Executes /\ pc[r] \in PCs /\ Locals(pc[r], ap[r], ah[r], ex[r], NumOps(r))
      /\ pc \in [Replica -> PCs] /\ ex \in [Replica -> Executes]
      /\ operations \in [Replica -> Seq(AllOps)] /\ local_versions \in [Replica -> 0 .. MAX_IDX]
      /\ AnswerTyped /\ responses[r] \in Seq(Seq(AllOps))
  BY <1>1 DEF ControlTypes, ControlInv, LocalsOK, AnswersOK, AnswerTyped
<1>4. /\ local_versions[r] <= tail /\ local_versions[r] <= version_upper_bound
      /\ pc[r] \in LoopPCs => /\ local_versions[r] <= ex[r].local_version
                              /\ ex[r].local_version <= ex[r].global_tail
                              /\ ex[r].global_tail <= tail
      /\ pc[r] = "load_exec_tail" => ex[r].local_version = local_versions[r]
  BY <1>1, Guaranteed DEF LoopPCs, NodeInv, VersionsOK
<1>5. /\ current_local_version(r) = Version(pc[r], ex[r], local_versions[r])
      /\ current_local_version(r) \in Nat /\ current_local_version(r) <= tail
      /\ local_versions[r] <= current_local_version(r)
  BY <1>2, <1>4 DEF current_local_version, Version
<1> QED BY <1>2, <1>3, <1>4, <1>5

(* Whose updates a batch has. *)
LEMMA BatchOf ==
  ASSUME NodeInv, NEW r \in Replica
  PROVE  /\ \A x \in 1 .. NumOps(r) : \E t \in Thread :
              /\ operations[r][x] = <<r, t>>
              /\ phase[r] = "log" => InBatch(r, t) /\ atomic[r][t] = 1 /\ <<r, t>> \in Updating
         /\ \A x, y \in 1 .. NumOps(r) : operations[r][x] = operations[r][y] => x = y
         /\ \A t \in Thread : InBatch(r, t) =>
              /\ atomic[r][t] = 1 /\ <<r, t>> \in Updating
              /\ pc[r] # "ready" => \E x \in 1 .. NumOps(r) : operations[r][x] = <<r, t>>
         /\ pc[r] \notin {"ready", "done"} => phase[r] = "log"
<1> DEFINE c == collected_operations[r]
           n == num_ops[r]
<1>1. /\ GatherOK(c, n, thread_idx[r], resp_idx[r], r)
      /\ PhaseOK(phase[r], pc[r], c, operations[r], resp[r], responses[r], thread_idx[r], resp_idx[r])
      /\ FlatOK(phase[r], combiner[r], client[r], atomic[r], n, thread_idx[r])
      /\ n \in Seq({0, 1}) /\ c \in Seq(Request) /\ phase[r] \in Phases
  BY DEF NodeInv, SystemInv, ThreadInv, ThreadTypes, ThreadsOK, CombinersOK
<1>2. NumOps(r) = Len(operations[r]) /\ NumOps(r) \in Nat
  BY NodeTypes
<1>3. operations[r] = << >> \/ (operations[r] = c /\ phase[r] \notin {"none", "collect"})
  BY <1>1 DEF PhaseOK
<1>4. ASSUME NEW t \in Thread, InBatch(r, t)
      PROVE  /\ atomic[r][t] = 1 /\ <<r, t>> \in Updating
             /\ pc[r] # "ready" => \E x \in 1 .. NumOps(r) : operations[r][x] = <<r, t>>
  <2>1. thread_idx[r] <= t /\ t < Len(n) /\ n[t + 1] = 1
    BY <1>4 DEF InBatch
  <2>2. atomic[r][t] = 1 /\ client[r][t] \in {"try_update", "dequeue"}
    BY <1>1, <2>1 DEF FlatOK
  <2>3. pc[r] # "ready" => operations[r] = c
    BY <1>1 DEF PhaseOK
  <2> HIDE DEF c, n
  <2>4. \E x \in 1 .. Len(c) : c[x] = <<r, t>>
    BY <1>1, <2>1 DEF GatherOK
  <2> QED BY <1>2, <2>2, <2>3, <2>4, UpdatingIs
<1>5. ASSUME NEW x \in 1 .. NumOps(r)
      PROVE  \E t \in Thread :
              /\ operations[r][x] = <<r, t>>
              /\ phase[r] = "log" => InBatch(r, t) /\ atomic[r][t] = 1 /\ <<r, t>> \in Updating
  <2>1. operations[r] = c /\ x \in 1 .. Len(c)
    BY <1>2, <1>3
  <2>2. PICK t \in Thread : c[x] = <<r, t>> /\ t < Len(n) /\ n[t + 1] = 1
    BY <1>1, <2>1 DEF GatherOK
  <2>3. phase[r] = "log" => InBatch(r, t)
    BY <1>1, <2>2, ThreadNumbers DEF FlatOK, InBatch
  <2> QED BY <1>4, <2>1, <2>2, <2>3
<1>6. ASSUME NEW x \in 1 .. NumOps(r), NEW y \in 1 .. NumOps(r), operations[r][x] = operations[r][y]
      PROVE  x = y
  <2>1. operations[r] = c /\ x \in 1 .. Len(c) /\ y \in 1 .. Len(c) /\ c[x] = c[y]
    BY <1>2, <1>3, <1>6
  <2>2. PICK t \in Thread : c[x] = <<r, t>>
    BY <1>1, <2>1 DEF GatherOK
  <2>3. c[x][2] = c[y][2] /\ c[x][2] = t /\ t \in Nat
    BY <2>1, <2>2, ThreadNumbers
  <2> HIDE DEF c, n
  <2>4. ~(x < y) /\ ~(y < x)
    BY <1>1, <2>1, <2>3 DEF GatherOK
  <2> QED BY <1>2, <2>4
<1>7. pc[r] \notin {"ready", "done"} => phase[r] = "log"
  BY <1>1 DEF PhaseOK, Phases
<1> QED BY <1>4, <1>5, <1>6, <1>7

(* The place of a batch that is in the log. *)
Placement(r, at) ==
  /\ at \in 0 .. tail /\ at + NumOps(r) <= tail
  /\ \A x \in 1 .. NumOps(r) :
       /\ log[at + x] = [op |-> operations[r][x], node_id |-> r]
       /\ Position(operations[r][x]) = at + x
  /\ \A i \in 1 .. tail : log[i].node_id = r /\ i > local_versions[r] => i \in at + 1 .. at + NumOps(r)
  /\ local_versions[r] <= at \/ at + NumOps(r) <= local_versions[r]
  /\ Len(responses[r]) = Applied(current_local_version(r), at, NumOps(r))
  /\ pc[r] \in LoopPCs => at + NumOps(r) <= ex[r].global_tail
  /\ pc[r] = "done" => at + NumOps(r) <= local_versions[r]

LEMMA Placements ==
  ASSUME NodeInv, NEW r \in Replica
  PROVE  /\ NotAppended(pc[r], ex[r]) => responses[r] = << >> /\ \A i \in local_versions[r] + 1 .. tail : log[i].node_id # r
         /\ ~NotAppended(pc[r], ex[r]) => \E at \in Nat : Placement(r, at)
<1> DEFINE v == current_local_version(r)
           u == local_versions[r]
           ops == operations[r]
<1>1. /\ log \in Seq(Entry) /\ Len(log) = tail /\ tail \in Nat
      /\ NumOps(r) = Len(ops) /\ NumOps(r) \in Nat /\ u \in Nat /\ v \in Nat
      /\ v = Version(pc[r], ex[r], local_versions[r])
  BY NodeTypes
<1>2. BatchOK(pc[r], ex[r], log, ops, responses[r], v, u, r)
  BY <1>1 DEF NodeInv, AnswersOK, AnswerOK
<1> HIDE DEF v, u, ops
<1>3. NotAppended(pc[r], ex[r]) => responses[r] = << >> /\ \A i \in u + 1 .. tail : log[i].node_id # r
  BY <1>1, <1>2 DEF BatchOK, NoneOf
<1>4. ASSUME ~NotAppended(pc[r], ex[r]) PROVE \E at \in Nat : Placement(r, at)
  <2>1. PICK at \in 0 .. Len(log) :
          /\ Answered(log, ops, responses[r], v, u, at, r)
          /\ pc[r] \in LoopPCs => at + Len(ops) <= ex[r].global_tail
          /\ pc[r] = "done" => at + Len(ops) <= v
    BY <1>2, <1>4 DEF BatchOK
  <2>2. /\ at + Len(ops) <= Len(log)
        /\ BatchAt(log, ops, at, r)
        /\ NoneOf(log, at + Len(ops), r)
        /\ \A i \in u + 1 .. Len(log) : log[i].node_id = r => i \in at + 1 .. at + Len(ops)
        /\ u <= at \/ at + Len(ops) <= u
        /\ Len(responses[r]) = Applied(v, at, Len(ops))
    BY <2>1 DEF Answered
  <2>3. ASSUME NEW x \in 1 .. NumOps(r)
        PROVE  log[at + x] = [op |-> ops[x], node_id |-> r] /\ Position(ops[x]) = at + x
    <3>1. log[at + x] = [op |-> ops[x], node_id |-> r] /\ at + x \in 1 .. Len(log)
      BY <1>1, <2>1, <2>2 DEF BatchAt
    <3>2. ASSUME NEW j \in at + x + 1 .. Len(log), log[j].op = ops[x] PROVE FALSE
      <4>1. j \in 1 .. Len(log) /\ j \in Nat /\ j > at + x
        BY <1>1, <2>1
      <4>2. log[j].node_id = r
        <5>1. log[j] \in Entry /\ log[at + x] \in Entry
          BY <1>1, <3>1, <4>1
        <5>2. log[j].op[1] = log[j].node_id /\ log[at + x].op[1] = r
          BY <3>1, <5>1, EntryOps
        <5> QED BY <3>1, <3>2, <5>2
      <4>3. j <= at + Len(ops)
        BY <1>1, <2>1, <2>2, <4>1, <4>2 DEF NoneOf
      <4>4. PICK y \in 1 .. NumOps(r) : j = at + y /\ y # x
        <5>1. j - at \in 1 .. NumOps(r) /\ j = at + (j - at) /\ j - at # x
          BY <1>1, <2>1, <4>1, <4>3
        <5> QED BY <5>1
      <4>5. log[at + y].op = ops[y]
        <5>1. log[at + y] = [op |-> ops[y], node_id |-> r]
          BY <1>1, <2>2 DEF BatchAt
        <5> QED BY <5>1
      <4>6. ops[y] = ops[x]
        BY <3>2, <4>4, <4>5
      <4> QED BY <4>4, <4>6, BatchOf DEF ops
    <3>3. Position(ops[x]) = at + x
      <4>1. log \in Seq(Entry) /\ at + x \in 1 .. Len(log) /\ log[at + x].op = ops[x]
        BY <1>1, <3>1
      <4> HIDE DEF ops
      <4> QED BY <3>2, <4>1, PositionIs
    <3> QED BY <3>1, <3>3
  <2>4. ASSUME NEW i \in 1 .. tail, log[i].node_id = r, i > u PROVE i \in at + 1 .. at + NumOps(r)
    BY <1>1, <2>2, <2>4
  <2>5. pc[r] = "done" => v = u
    BY <1>1 DEF Version, LoopPCs, u
  <2>6. Placement(r, at)
    BY <1>1, <2>1, <2>2, <2>3, <2>4, <2>5 DEF Placement, v, u, ops
  <2> QED BY <1>1, <2>1, <2>6
<1> QED BY <1>3, <1>4 DEF u

(* When nothing is left to apply of a replica's own. *)
LEMMA NothingPending ==
  ASSUME NodeInv, NEW r \in Replica
  PROVE  /\ NotAppended(pc[r], ex[r]) \/ pc[r] = "done" => ~BatchPending(r)
         /\ pc[r] = "load_exec_tail" /\ ex[r].local_version = tail => ~BatchPending(r)
         /\ BatchPending(r) => ~NotAppended(pc[r], ex[r]) /\ phase[r] = "log"
         /\ pc[r] \in LoopPCs => \A i \in ex[r].global_tail + 1 .. tail : log[i].node_id # r
<1>1. /\ Len(log) = tail /\ tail \in Nat /\ NumOps(r) \in Nat
      /\ local_versions[r] \in Nat /\ ex[r].global_tail \in Nat
      /\ pc[r] \in LoopPCs => local_versions[r] <= ex[r].global_tail
      /\ pc[r] = "load_exec_tail" => ex[r].local_version = local_versions[r]
  BY NodeTypes
<1>2. BatchPending(r) => \E i \in 1 .. tail : log[i].node_id = r /\ i > local_versions[r] /\ i \in local_versions[r] + 1 .. tail
  BY <1>1 DEF BatchPending
<1>3. CASE NotAppended(pc[r], ex[r])
  <2>1. ~BatchPending(r)
    BY <1>2, <1>3, Placements
  <2>2. pc[r] \in LoopPCs => \A i \in ex[r].global_tail + 1 .. tail : log[i].node_id # r
    BY <1>1, <1>3, Placements
  <2> QED BY <2>1, <2>2
<1>4. CASE ~NotAppended(pc[r], ex[r])
  <2>1. PICK at \in Nat : Placement(r, at)
    BY <1>4, Placements
  <2>2. pc[r] = "done" => ~BatchPending(r)
    BY <1>1, <1>2, <2>1 DEF Placement
  <2>3. ASSUME pc[r] \in LoopPCs, NEW i \in ex[r].global_tail + 1 .. tail, log[i].node_id = r PROVE FALSE
    <3>1. i \in 1 .. tail /\ i > local_versions[r] /\ i > ex[r].global_tail
      BY <1>1, <2>3
    <3>2. i \in at + 1 .. at + NumOps(r) /\ at + NumOps(r) <= ex[r].global_tail
      BY <2>1, <2>3, <3>1 DEF Placement
    <3> QED BY <1>1, <3>1, <3>2
  <2>4. pc[r] = "load_exec_tail" /\ ex[r].local_version = tail => ~BatchPending(r)
    BY <1>1, <1>2
  <2>5. BatchPending(r) => phase[r] = "log"
    <3>1. pc[r] # "ready"
      BY <1>4 DEF NotAppended
    <3> QED BY <2>2, <3>1, BatchOf
  <2> QED BY <1>4, <2>2, <2>3, <2>4, <2>5
<1> QED BY <1>3, <1>4

-----------------------------------------------------------------------------
(* What the unbounded log does not see *)

LEMMA UpdateCases ==
  ASSUME NEW rid, NEW in_log, NEW place, NEW waiting, NEW ret, NEW version, NEW ops, NEW answers
  PROVE  LET token == UpdateToken(rid, in_log, place, waiting, ret, version, ops, answers)
         IN  /\ ~in_log => token = Unbounded!UpdateInit(rid)
             /\ in_log /\ waiting = 0 => token = Unbounded!UpdateDone(ret, place)
             /\ in_log /\ waiting # 0 /\ place < version =>
                  token = Unbounded!UpdateApplied(answers[CHOOSE k \in DOMAIN ops : ops[k] = rid], place)
             /\ in_log /\ waiting # 0 /\ ~(place < version) => token = Unbounded!UpdatePlaced(rid, place)
BY DEF UpdateToken, Unbounded!UpdateInit, Unbounded!UpdateDone, Unbounded!UpdateApplied,
       Unbounded!UpdatePlaced

UpdateOf(r, t) ==
  UpdateToken(<<r, t>>, InLog(<<r, t>>), Position(<<r, t>>) - 1, atomic[r][t], resp[r][t],
              current_local_version(r), operations[r], responses[r])

LEMMA UpdateIs ==
  ASSUME NEW r \in Replica, NEW t \in Thread
  PROVE  unbounded_update(<<r, t>>) = UpdateOf(r, t) /\ unbounded_update(<<r, t>>)' = UpdateOf(r, t)'
BY DEF unbounded_update, UpdateOf

LEMMA InLogIs ==
  ASSUME NEW r \in Replica, NEW t \in Thread
  PROVE  /\ InLog(<<r, t>>) <=> atomic[r][t] = 0 \/ (InBatch(r, t) /\ ~NotAppended(pc[r], ex[r]))
         /\ InLog(<<r, t>>)' <=> atomic'[r][t] = 0 \/ (InBatch(r, t)' /\ ~NotAppended(pc'[r], ex'[r]))
BY DEF InLog, Placed, NotAppended

(* An update of which nothing changes that its token shows. *)
LEMMA UpdateKept ==
  ASSUME NEW r \in Replica, NEW t \in Thread,
         InLog(<<r, t>>)' <=> InLog(<<r, t>>),
         InLog(<<r, t>>) => atomic'[r][t] = atomic[r][t] /\ Position(<<r, t>>)' = Position(<<r, t>>),
         InLog(<<r, t>>) /\ atomic[r][t] = 0 => resp'[r][t] = resp[r][t],
         InLog(<<r, t>>) /\ atomic[r][t] # 0 =>
            /\ current_local_version(r)' = current_local_version(r)
            /\ operations'[r] = operations[r] /\ responses'[r] = responses[r]
  PROVE  unbounded_update(<<r, t>>)' = unbounded_update(<<r, t>>)
<1>1. UpdateOf(r, t)' = UpdateToken(<<r, t>>, InLog(<<r, t>>)', Position(<<r, t>>)' - 1, atomic'[r][t],
                          resp'[r][t], current_local_version(r)', operations'[r], responses'[r])
  BY DEF UpdateOf, UpdateToken
<1>2. CASE ~InLog(<<r, t>>)
  <2>1. UpdateOf(r, t) = Unbounded!UpdateInit(<<r, t>>) /\ UpdateOf(r, t)' = Unbounded!UpdateInit(<<r, t>>)
    BY <1>1, <1>2, UpdateCases DEF UpdateOf
  <2> QED BY <2>1, UpdateIs
<1>3. CASE InLog(<<r, t>>) /\ atomic[r][t] = 0
  <2>1. UpdateOf(r, t) = Unbounded!UpdateDone(resp[r][t], Position(<<r, t>>) - 1)
    BY <1>3 DEF UpdateOf, UpdateToken, Unbounded!UpdateDone
  <2>2. UpdateOf(r, t)' = Unbounded!UpdateDone(resp[r][t], Position(<<r, t>>) - 1)
    BY <1>1, <1>3 DEF UpdateToken, Unbounded!UpdateDone
  <2> QED BY <2>1, <2>2, UpdateIs
<1>4. CASE InLog(<<r, t>>) /\ atomic[r][t] # 0
  <2> DEFINE p == Position(<<r, t>>) - 1
             v == current_local_version(r)
             w == atomic[r][t]
             a == resp[r][t]
             b == resp'[r][t]
             ops == operations[r]
             answers == responses[r]
  <2>1. UpdateOf(r, t) = UpdateToken(<<r, t>>, TRUE, p, w, a, v, ops, answers)
    BY <1>4, UpdateCases DEF UpdateOf, UpdateToken
  <2>2. UpdateOf(r, t)' = UpdateToken(<<r, t>>, TRUE, p, w, b, v, ops, answers)
    BY <1>1, <1>4 DEF UpdateToken
  <2>3. w # 0
    BY <1>4
  <2> HIDE DEF p, v, w, a, b, ops, answers
  <2>4. UpdateToken(<<r, t>>, TRUE, p, w, a, v, ops, answers) = UpdateToken(<<r, t>>, TRUE, p, w, b, v, ops, answers)
    BY <2>3 DEF UpdateToken
  <2> QED BY <2>1, <2>2, <2>4, UpdateIs
<1> QED BY <1>2, <1>3, <1>4

LEMMA PositionKept ==
  ASSUME NEW rid, log' = log
  PROVE  Position(rid)' = Position(rid)
BY DEF Position, LastPlace

LEMMA Pairs ==
  ASSUME NEW rid \in Request
  PROVE  \E r \in Replica, t \in Thread : rid = <<r, t>>
BY DEF Request

LEMMA SameUpdates ==
  ASSUME \A r \in Replica, t \in Thread :
           /\ client'[r][t] \in {"try_update", "dequeue"} <=> client[r][t] \in {"try_update", "dequeue"}
           /\ <<r, t>> \in Updating => unbounded_update(<<r, t>>)' = unbounded_update(<<r, t>>)
  PROVE  unbounded_updates' = unbounded_updates
<1>1. Updating' = Updating /\ Updating \subseteq Request
  BY DEF Updating, Request
<1>2. \A rid \in Updating : unbounded_update(rid)' = unbounded_update(rid)
  BY <1>1, Pairs
<1> QED BY <1>1, <1>2 DEF unbounded_updates

(* What the token of a read shows of its thread. *)
ReadView(c) == IF c \in {"load_bound", "acquire_read"} THEN c
               ELSE IF c \in {"check_synced", "try_read"} THEN "check_synced" ELSE "none"

ReadKept(r, t) == ReadView(client'[r][t]) = ReadView(client[r][t]) /\ bound'[r][t] = bound[r][t]

LEMMA ReadTokenKept ==
  ASSUME NEW r \in Replica, NEW t \in Thread, ReadKept(r, t)
  PROVE  /\ <<r, t>> \in Reading' <=> <<r, t>> \in Reading
         /\ <<r, t>> \in Reading => unbounded_read(<<r, t>>)' = unbounded_read(<<r, t>>)
BY DEF ReadKept, ReadView, unbounded_read, Reading, Request

LEMMA SameReads ==
  ASSUME \A r \in Replica, t \in Thread : ReadKept(r, t)
  PROVE  unbounded_reads' = unbounded_reads
<1>1. Reading \subseteq Request /\ Reading' \subseteq Request
  BY DEF Reading, Request
<1>2. Reading' = Reading
  BY <1>1, Pairs, ReadTokenKept
<1>3. \A rid \in Reading : unbounded_read(rid)' = unbounded_read(rid)
  BY <1>1, Pairs, ReadTokenKept
<1> QED BY <1>2, <1>3 DEF unbounded_reads

LEMMA CombinerKept ==
  ASSUME NEW r \in Replica, pc'[r] = pc[r], ex'[r] = ex[r], responses'[r] = responses[r],
         queued_ops(r)' = queued_ops(r)
  PROVE  unbounded_combiner(r)' = unbounded_combiner(r)
BY DEF unbounded_combiner

LEMMA QueueKept ==
  ASSUME NEW r \in Replica, BatchPending(r)' <=> BatchPending(r),
         BatchPending(r) => operations'[r] = operations[r]
  PROVE  queued_ops(r)' = queued_ops(r)
BY DEF queued_ops

LEMMA PendingKept ==
  ASSUME NEW r \in Replica, log' = log, local_versions'[r] = local_versions[r]
  PROVE  BatchPending(r)' <=> BatchPending(r)
BY DEF BatchPending

LEMMA SameCombiners ==
  ASSUME \A r \in Replica : unbounded_combiner(r)' = unbounded_combiner(r)
  PROVE  unbounded_combiners' = unbounded_combiners
BY DEF unbounded_combiners

(* The log is at rest. *)
LEMMA LogAtRest ==
  ASSUME UNCHANGED vars
  PROVE  /\ unbounded_log' = unbounded_log /\ unbounded_combiners' = unbounded_combiners
         /\ UNCHANGED <<log, tail, replicas, local_versions, version_upper_bound, pc, ex, operations, responses>>
         /\ \A rid : Position(rid)' = Position(rid)
         /\ \A r \in Replica : current_local_version(r)' = current_local_version(r)
<1>1. UNCHANGED <<log, tail, replicas, local_versions, version_upper_bound, pc, ex, operations, responses>>
  BY DEF vars, shared
<1>2. \A r \in Replica : unbounded_combiner(r)' = unbounded_combiner(r)
  BY <1>1, CombinerKept, QueueKept, PendingKept
<1> QED BY <1>1, <1>2, SameCombiners, PositionKept DEF unbounded_log, current_local_version

LEMMA Viewed ==
  ASSUME UNCHANGED <<tail, replicas, local_versions, version_upper_bound>>, unbounded_log' = unbounded_log,
         unbounded_reads' = unbounded_reads, unbounded_updates' = unbounded_updates,
         unbounded_combiners' = unbounded_combiners, Silent
  PROVE  Unbounded!BatchNext
BY DEF Unbounded!BatchNext, Unbounded!Next, Unbounded!readonly_view_oob, Unbounded!Internal, Silent, Internal

-----------------------------------------------------------------------------
(* Steps of the clients *)

(* The updates of all threads but t, when only t does something. *)
LEMMA OtherUpdates ==
  ASSUME UNCHANGED vars, UNCHANGED <<num_ops, thread_idx>>, NEW r \in Replica, NEW t \in Thread,
         atomic' = [atomic EXCEPT ![r][t] = atomic'[r][t]], resp' = [resp EXCEPT ![r][t] = resp'[r][t]],
         ThreadTypes, NEW q \in Replica, NEW u \in Thread, <<q, u>> # <<r, t>>
  PROVE  unbounded_update(<<q, u>>)' = unbounded_update(<<q, u>>)
<1>1. atomic'[q][u] = atomic[q][u] /\ resp'[q][u] = resp[q][u]
  <2>1. \A x : [atomic EXCEPT ![r][t] = x][q][u] = atomic[q][u]
    BY DEF ThreadTypes
  <2>2. \A x : [resp EXCEPT ![r][t] = x][q][u] = resp[q][u]
    BY DEF ThreadTypes
  <2> QED BY <2>1, <2>2
<1>2. InLog(<<q, u>>)' <=> InLog(<<q, u>>)
  BY <1>1, InLogIs, LogAtRest DEF InBatch
<1> QED BY <1>1, <1>2, LogAtRest, UpdateKept

(* No token changes but the reads' and updates'. *)
LEMMA QuietClients ==
  ASSUME NodeInv, NEW r \in Replica, NEW t \in Thread, UNCHANGED <<vars, contexts, num_ops, thread_idx>>,
         Silent, \A q \in Replica, u \in Thread : ReadKept(q, u),
         \A q \in Replica, u \in Thread :
            client'[q][u] \in {"try_update", "dequeue"} <=> client[q][u] \in {"try_update", "dequeue"}
  PROVE  Unbounded!BatchNext
<1>1. ASSUME NEW q \in Replica, NEW u \in Thread
      PROVE  unbounded_update(<<q, u>>)' = unbounded_update(<<q, u>>)
  <2>1. UNCHANGED <<vars, atomic, resp>>
    BY DEF contexts
  <2>2. InLog(<<q, u>>)' <=> InLog(<<q, u>>)
    BY <2>1, InLogIs, LogAtRest DEF InBatch
  <2> QED BY <2>1, <2>2, LogAtRest, UpdateKept
<1> QED BY <1>1, SameUpdates, SameReads, LogAtRest, Viewed

LEMMA ThreadTyped ==
  ASSUME NodeInv
  PROVE  ThreadTypes /\ ThreadsOK
BY DEF NodeInv, SystemInv, ThreadInv

LEMMA ViewSilentThread ==
  ASSUME NodeInv, NEW r \in Replica, NEW t \in Thread,
         \/ register(r, t) \/ DequeueNothing(r, t) \/ AcquireCombinerLock(r, t) \/ CombinerLockBusy(r, t)
         \/ CheckSynced(r, t) /\ client'[r][t] # "acquire_read"
  PROVE  Unbounded!BatchNext
<1>1. PICK c : /\ client' = [client EXCEPT ![r][t] = c] /\ ReadView(c) = ReadView(client[r][t])
               /\ c \in {"try_update", "dequeue"} <=> client[r][t] \in {"try_update", "dequeue"}
  <2>1. CASE AcquireCombinerLock(r, t)
    <3>1. client' = client
      BY <2>1 DEF AcquireCombinerLock
    <3>2. client' = [client EXCEPT ![r][t] = client[r][t]]
      BY <3>1, ThreadTyped DEF ThreadTypes
    <3> QED BY <3>2
  <2>2. CASE register(r, t) \/ DequeueNothing(r, t) \/ CombinerLockBusy(r, t)
    BY <2>2 DEF register, DequeueNothing, CombinerLockBusy, Client, Becomes, AfterTry, ReadView
  <2>3. CASE CheckSynced(r, t) /\ client'[r][t] # "acquire_read"
    <3>1. PICK c \in {"acquire_read", "try_read"} :
            client' = [client EXCEPT ![r][t] = c] /\ client[r][t] = "check_synced"
      BY <2>3 DEF CheckSynced, Client, Becomes
    <3>2. client'[r][t] = c
      BY <3>1, ThreadTyped DEF ThreadTypes
    <3> QED BY <2>3, <3>1, <3>2 DEF ReadView
  <2> QED BY <2>1, <2>2, <2>3
<1>2. UNCHANGED <<vars, contexts, num_ops, thread_idx, bound>> /\ Silent
  BY DEF register, DequeueNothing, AcquireCombinerLock, CombinerLockBusy, CheckSynced, combining,
         collected, progress
<1>3. \A q \in Replica, u \in Thread : client'[q][u] = IF <<q, u>> = <<r, t>> THEN c ELSE client[q][u]
  BY <1>1, ThreadTyped DEF ThreadTypes
<1>4. \A q \in Replica, u \in Thread :
         /\ ReadKept(q, u)
         /\ client'[q][u] \in {"try_update", "dequeue"} <=> client[q][u] \in {"try_update", "dequeue"}
  BY <1>1, <1>2, <1>3 DEF ReadKept
<1> QED BY <1>2, <1>4, QuietClients

(* A request id that nobody knows. *)
LEMMA IdleIsFresh ==
  ASSUME NodeInv, NEW r \in Replica, NEW t \in Thread, client[r][t] \notin {"try_update", "dequeue"},
         <<r, t>> \notin Reading
  PROVE  Unbounded!Fresh(<<r, t>>)
<1>1. <<r, t>> \notin Updating
  BY UpdatingIs
<1>2. DOMAIN unbounded_reads = Reading /\ DOMAIN unbounded_updates = Updating
  BY DEF unbounded_reads, unbounded_updates
<1>3. ASSUME NEW n \in Replica, NEW i \in DOMAIN queued_ops(n), queued_ops(n)[i] = <<r, t>>
      PROVE  FALSE
  <2>1. BatchPending(n) /\ queued_ops(n) = operations[n]
    <3>1. DOMAIN << >> = {}
      OBVIOUS
    <3> QED BY <1>3, <3>1 DEF queued_ops
  <2>2. phase[n] = "log" /\ i \in 1 .. NumOps(n)
    BY <1>3, <2>1, NothingPending, NodeTypes
  <2>3. PICK u \in Thread : operations[n][i] = <<n, u>> /\ <<n, u>> \in Updating
    BY <2>2, BatchOf
  <2> QED BY <1>1, <1>3, <2>1, <2>3
<1>4. \A n \in Replica : unbounded_combiners[n].queued_ops = queued_ops(n)
  BY DEF unbounded_combiners, unbounded_combiner, CombinerToken
<1>5. Unbounded!NodeId = Replica
  BY DEF Unbounded!NodeId, Replica
<1> QED BY <1>1, <1>2, <1>3, <1>4, <1>5 DEF Unbounded!Fresh

LEMMA ViewEnqueue ==
  ASSUME NodeInv, NEW r \in Replica, NEW t \in Thread, EnqueueOp(r, t)
  PROVE  Unbounded!BatchNext
<1> DEFINE rid == <<r, t>>
<1>0. rid \in Request
  BY DEF Request
<1>1. /\ client[r][t] = "idle" /\ client' = [client EXCEPT ![r][t] = "try_update"]
      /\ atomic' = [atomic EXCEPT ![r][t] = 1] /\ resp' = [resp EXCEPT ![r][t] = NoResp]
      /\ UNCHANGED <<vars, bound, num_ops, thread_idx>> /\ label' = [kind |-> "Start", rid |-> rid]
  BY DEF EnqueueOp, Client, Becomes, Started, combining, collected, progress
<1>2. ThreadTypes /\ ThreadsOK
  BY ThreadTyped
<1>3. /\ \A q \in Replica, u \in Thread : client'[q][u] = IF <<q, u>> = rid THEN "try_update" ELSE client[q][u]
      /\ atomic'[r][t] = 1 /\ atomic' = [atomic EXCEPT ![r][t] = atomic'[r][t]]
      /\ resp' = [resp EXCEPT ![r][t] = resp'[r][t]]
  BY <1>1, <1>2 DEF ThreadTypes
<1>4. Unbounded!Fresh(rid)
  <2>1. rid \notin Reading
    BY <1>1, UpdatingIs
  <2> QED BY <1>1, <2>1, IdleIsFresh
<1>5. unbounded_reads' = unbounded_reads
  <2>1. \A q \in Replica, u \in Thread : ReadKept(q, u)
    BY <1>1, <1>3 DEF ReadKept, ReadView
  <2> QED BY <2>1, SameReads
<1>6. unbounded_update(rid)' = Unbounded!UpdateInit(rid)
  <2>1. ~InBatch(r, t)'
    <3>1. atomic[r][t] # 1
      BY <1>1, <1>2 DEF ThreadsOK, FlatOK
    <3>2. ~InBatch(r, t)
      BY <3>1, BatchOf
    <3> QED BY <1>1, <3>2 DEF InBatch
  <2>2. ~InLog(rid)'
    BY <1>3, <2>1, InLogIs
  <2>3. UpdateOf(r, t)' = Unbounded!UpdateInit(rid)
    BY <2>2 DEF UpdateOf, UpdateToken, Unbounded!UpdateInit
  <2> QED BY <2>3, UpdateIs
<1>7. Updating' = Updating \cup {rid}
  <2>1. Updating' \subseteq Request /\ Updating \subseteq Request
    BY DEF Updating, Request
  <2>2. ASSUME NEW q \in Replica, NEW u \in Thread
        PROVE  <<q, u>> \in Updating' <=> <<q, u>> \in Updating \cup {rid}
    <3>1. client'[q][u] = IF <<q, u>> = rid THEN "try_update" ELSE client[q][u]
      BY <1>3
    <3>2. /\ <<q, u>> \in Updating <=> client[q][u] \in {"try_update", "dequeue"}
          /\ <<q, u>> \in Updating' <=> client'[q][u] \in {"try_update", "dequeue"}
      BY UpdatingIs, UpdatingIsNext
    <3> HIDE DEF rid
    <3> QED BY <3>1, <3>2
  <2> QED BY <1>0, <2>1, <2>2, Pairs
<1>8. \A x \in Updating : x # rid => unbounded_update(x)' = unbounded_update(x)
  <2>1. ASSUME NEW q \in Replica, NEW u \in Thread, <<q, u>> # rid
        PROVE  unbounded_update(<<q, u>>)' = unbounded_update(<<q, u>>)
    <3>1. UNCHANGED vars /\ UNCHANGED <<num_ops, thread_idx>> /\ <<q, u>> # <<r, t>>
      BY <1>1, <2>1
    <3> QED BY <1>2, <1>3, <3>1, OtherUpdates
  <2> QED BY <2>1, Pairs DEF Updating
<1>9. unbounded_updates' = Unbounded!insert(unbounded_updates, rid, Unbounded!UpdateInit(RequestIsOp(rid)))
  <2>1. rid \notin Updating
    BY <1>1, UpdatingIs
  <2> HIDE DEF rid
  <2> QED BY <1>6, <1>7, <1>8, <2>1 DEF unbounded_updates, Unbounded!insert, RequestIsOp
<1>10. Unbounded!add_ticket_write(rid)
  BY <1>1, <1>4, <1>5, <1>9, LogAtRest DEF Unbounded!add_ticket_write, Unbounded!Start
<1> QED BY <1>0, <1>10 DEF Unbounded!BatchNext, Unbounded!Next, Unbounded!RequestStep

LEMMA ViewDequeue ==
  ASSUME NodeInv, NEW r \in Replica, NEW t \in Thread, DequeueResponse(r, t)
  PROVE  Unbounded!BatchNext
<1> DEFINE rid == <<r, t>>
<1>0. rid \in Request
  BY DEF Request
<1>1. /\ client[r][t] = "dequeue" /\ client' = [client EXCEPT ![r][t] = "idle"] /\ atomic[r][t] = 0
      /\ atomic' = atomic /\ resp' = [resp EXCEPT ![r][t] = NoResp]
      /\ UNCHANGED <<vars, bound, num_ops, thread_idx>>
      /\ label' = [kind |-> "End", rid |-> rid, ret |-> resp[r][t]]
  BY DEF DequeueResponse, Client, Becomes, Ended, combining, collected, progress
<1>2. ThreadTypes /\ ThreadsOK
  BY ThreadTyped
<1>3. /\ \A q \in Replica, u \in Thread : client'[q][u] = IF <<q, u>> = rid THEN "idle" ELSE client[q][u]
      /\ atomic' = [atomic EXCEPT ![r][t] = atomic'[r][t]]
      /\ resp' = [resp EXCEPT ![r][t] = resp'[r][t]]
  BY <1>1, <1>2 DEF ThreadTypes
<1>5. unbounded_reads' = unbounded_reads
  <2>1. \A q \in Replica, u \in Thread : ReadKept(q, u)
    BY <1>1, <1>3 DEF ReadKept, ReadView
  <2> QED BY <2>1, SameReads
<1>6. unbounded_update(rid) = Unbounded!UpdateDone(resp[r][t], Position(rid) - 1)
  <2>1. InLog(rid)
    BY <1>1, InLogIs
  <2>2. UpdateOf(r, t) = Unbounded!UpdateDone(resp[r][t], Position(rid) - 1)
    BY <1>1, <2>1 DEF UpdateOf, UpdateToken, Unbounded!UpdateDone
  <2> QED BY <2>2, UpdateIs
<1>7. Updating' = Updating \ {rid} /\ rid \in Updating
  <2>1. Updating' \subseteq Request /\ Updating \subseteq Request
    BY DEF Updating, Request
  <2>2. ASSUME NEW q \in Replica, NEW u \in Thread
        PROVE  <<q, u>> \in Updating' <=> <<q, u>> \in Updating \ {rid}
    <3>1. client'[q][u] = IF <<q, u>> = rid THEN "idle" ELSE client[q][u]
      BY <1>3
    <3>2. /\ <<q, u>> \in Updating <=> client[q][u] \in {"try_update", "dequeue"}
          /\ <<q, u>> \in Updating' <=> client'[q][u] \in {"try_update", "dequeue"}
      BY UpdatingIs, UpdatingIsNext
    <3> HIDE DEF rid
    <3> QED BY <3>1, <3>2
  <2>3. rid \in Updating
    BY <1>1, UpdatingIs
  <2> QED BY <1>0, <2>1, <2>2, <2>3, Pairs
<1>8. \A x \in Updating : x # rid => unbounded_update(x)' = unbounded_update(x)
  <2>1. ASSUME NEW q \in Replica, NEW u \in Thread, <<q, u>> # rid
        PROVE  unbounded_update(<<q, u>>)' = unbounded_update(<<q, u>>)
    <3>1. UNCHANGED vars /\ UNCHANGED <<num_ops, thread_idx>> /\ <<q, u>> # <<r, t>>
      BY <1>1, <2>1
    <3> QED BY <1>2, <1>3, <3>1, OtherUpdates
  <2> QED BY <2>1, Pairs DEF Updating
<1>9. unbounded_updates' = Unbounded!remove(unbounded_updates, rid)
  <2> HIDE DEF rid
  <2> QED BY <1>7, <1>8 DEF unbounded_updates, Unbounded!remove
<1>10. /\ rid \in DOMAIN unbounded_updates
       /\ unbounded_updates[rid] = Unbounded!UpdateDone(resp[r][t], Position(rid) - 1)
  BY <1>6, <1>7 DEF unbounded_updates
<1>11. Unbounded!consume_stub_write(rid)
  BY <1>1, <1>5, <1>9, <1>10, LogAtRest DEF Unbounded!consume_stub_write, Unbounded!UpdateDone, Unbounded!End
<1> QED BY <1>0, <1>11 DEF Unbounded!BatchNext, Unbounded!Next, Unbounded!RequestStep

ReadPCs == {"idle", "load_bound", "check_synced", "acquire_read"}

(* Thread t of r goes on to c with the read of which b is the bound. *)
ReadGoesOn(r, t, c, b) ==
  /\ client[r][t] \in ReadPCs /\ c \in ReadPCs
  /\ client' = [client EXCEPT ![r][t] = c] /\ bound' = [bound EXCEPT ![r][t] = b]
  /\ UNCHANGED <<vars, contexts, num_ops, thread_idx>>

(* What that changes. *)
ReadGone(r, t, c, b) ==
  /\ <<r, t>> \in Request
  /\ client'[r][t] = c /\ bound'[r][t] = b
  /\ UNCHANGED <<unbounded_log, unbounded_updates, unbounded_combiners, tail, replicas, local_versions,
                 version_upper_bound>>
  /\ \A x : x # <<r, t>> => /\ x \in Reading' <=> x \in Reading
                            /\ x \in Reading => unbounded_read(x)' = unbounded_read(x)
  /\ <<r, t>> \in Reading <=> client[r][t] # "idle"
  /\ <<r, t>> \in Reading' <=> c # "idle"

LEMMA ReadSteps ==
  ASSUME NodeInv, NEW r \in Replica, NEW t \in Thread, NEW c, NEW b, ReadGoesOn(r, t, c, b)
  PROVE  ReadGone(r, t, c, b)
<1> USE DEF ReadGoesOn, ReadPCs
<1>1. ThreadTypes
  BY ThreadTyped
<1>2. \A q \in Replica, u \in Thread :
        /\ client'[q][u] = IF <<q, u>> = <<r, t>> THEN c ELSE client[q][u]
        /\ bound'[q][u] = IF <<q, u>> = <<r, t>> THEN b ELSE bound[q][u]
  BY <1>1 DEF ThreadTypes
<1>3. ASSUME NEW q \in Replica, NEW u \in Thread
      PROVE  /\ client'[q][u] \in {"try_update", "dequeue"} <=> client[q][u] \in {"try_update", "dequeue"}
             /\ unbounded_update(<<q, u>>)' = unbounded_update(<<q, u>>)
  <2>1. UNCHANGED vars /\ UNCHANGED <<atomic, resp, num_ops, thread_idx>>
    BY DEF contexts
  <2>2. InLog(<<q, u>>)' <=> InLog(<<q, u>>)
    BY <2>1, InLogIs, LogAtRest DEF InBatch
  <2>3. unbounded_update(<<q, u>>)' = unbounded_update(<<q, u>>)
    BY <2>1, <2>2, LogAtRest, UpdateKept
  <2>4. client'[q][u] \in {"try_update", "dequeue"} <=> client[q][u] \in {"try_update", "dequeue"}
    BY <1>2
  <2> QED BY <2>3, <2>4
<1>4. unbounded_updates' = unbounded_updates
  BY <1>3, SameUpdates
<1>5. UNCHANGED vars
  OBVIOUS
<1>6. UNCHANGED <<unbounded_log, unbounded_combiners, tail, replicas, local_versions, version_upper_bound>>
  BY <1>5, LogAtRest
<1>7. <<r, t>> \in Request /\ client'[r][t] = c /\ bound'[r][t] = b
  BY <1>2 DEF Request
<1>8. ASSUME NEW x, x # <<r, t>>
      PROVE  /\ x \in Reading' <=> x \in Reading
             /\ x \in Reading => unbounded_read(x)' = unbounded_read(x)
  <2>1. CASE x \notin Request
    BY <2>1 DEF Reading, Request
  <2>2. CASE x \in Request
    <3>1. PICK q \in Replica, u \in Thread : x = <<q, u>>
      BY <2>2, Pairs
    <3>2. ReadKept(q, u)
      BY <1>2, <1>8, <3>1 DEF ReadKept
    <3> QED BY <3>1, <3>2, ReadTokenKept
  <2> QED BY <2>1, <2>2
<1>9. /\ <<r, t>> \in Reading <=> client[r][t] # "idle"
      /\ <<r, t>> \in Reading' <=> c # "idle"
  BY <1>7, UpdatingIs, UpdatingIsNext
<1> QED BY <1>4, <1>6, <1>7, <1>8, <1>9 DEF ReadGone

LEMMA ViewReadStart ==
  ASSUME NodeInv, NEW r \in Replica, NEW t \in Thread, ReadStart(r, t)
  PROVE  Unbounded!BatchNext
<1> DEFINE rid == <<r, t>>
<1>1. /\ client[r][t] = "idle" /\ client' = [client EXCEPT ![r][t] = "load_bound"]
      /\ UNCHANGED <<vars, contexts, num_ops, thread_idx>> /\ bound' = bound
      /\ label' = [kind |-> "Start", rid |-> rid]
  BY DEF ReadStart, Client, Becomes, Started, combining, collected, progress
<1>2. bound' = [bound EXCEPT ![r][t] = bound[r][t]]
  BY <1>1, ThreadTyped DEF ThreadTypes
<1>3. /\ rid \in Request /\ client'[r][t] = "load_bound"
      /\ UNCHANGED <<unbounded_log, unbounded_updates, unbounded_combiners, tail, replicas, local_versions,
                     version_upper_bound>>
      /\ \A x : x # rid => /\ x \in Reading' <=> x \in Reading
                           /\ x \in Reading => unbounded_read(x)' = unbounded_read(x)
      /\ rid \notin Reading /\ rid \in Reading'
  <2>1. ReadGoesOn(r, t, "load_bound", bound[r][t])
    BY <1>1, <1>2 DEF ReadGoesOn, ReadPCs
  <2>2. ReadGone(r, t, "load_bound", bound[r][t])
    BY <2>1, ReadSteps
  <2> QED BY <1>1, <2>2 DEF ReadGone
<1>4. Unbounded!Fresh(rid)
  BY <1>1, <1>3, IdleIsFresh
<1>5. unbounded_read(rid)' = Unbounded!ReadInit(r)
  BY <1>3 DEF unbounded_read, Unbounded!ReadInit
<1> HIDE DEF rid
<1>6. unbounded_reads' = Unbounded!insert(unbounded_reads, rid, Unbounded!ReadInit(r))
  <2>1. Reading' = Reading \cup {rid}
    BY <1>3
  <2> QED BY <1>3, <1>5, <2>1 DEF unbounded_reads, Unbounded!insert
<1>7. Unbounded!add_ticket_read(rid, r)
  BY <1>1, <1>3, <1>4, <1>6 DEF Unbounded!add_ticket_read, Unbounded!Start
<1>8. r \in Unbounded!NodeId
  BY DEF Unbounded!NodeId, Replica
<1> QED BY <1>3, <1>7, <1>8 DEF Unbounded!BatchNext, Unbounded!Next, Unbounded!RequestStep

LEMMA ViewVersionUpperBound ==
  ASSUME NodeInv, NEW r \in Replica, NEW t \in Thread, GetVersionUpperBound(r, t)
  PROVE  Unbounded!BatchNext
<1> DEFINE rid == <<r, t>>
           new == Unbounded!VersionUpperBound(r, version_upper_bound)
<1>1. /\ client[r][t] = "load_bound" /\ client' = [client EXCEPT ![r][t] = "check_synced"]
      /\ UNCHANGED <<vars, contexts, num_ops, thread_idx>>
      /\ bound' = [bound EXCEPT ![r][t] = version_upper_bound] /\ label' = [kind |-> "Internal"]
  BY DEF GetVersionUpperBound, Client, Becomes, combining, collected, progress, Silent, Internal
<1>3. /\ rid \in Request /\ client'[r][t] = "check_synced" /\ bound'[r][t] = version_upper_bound
      /\ UNCHANGED <<unbounded_log, unbounded_updates, unbounded_combiners, tail, replicas, local_versions,
                     version_upper_bound>>
      /\ \A x : x # rid => /\ x \in Reading' <=> x \in Reading
                           /\ x \in Reading => unbounded_read(x)' = unbounded_read(x)
      /\ rid \in Reading /\ rid \in Reading'
  <2>1. ReadGoesOn(r, t, "check_synced", version_upper_bound)
    BY <1>1 DEF ReadGoesOn, ReadPCs
  <2>2. ReadGone(r, t, "check_synced", version_upper_bound)
    BY <2>1, ReadSteps
  <2> QED BY <1>1, <2>2 DEF ReadGone
<1>4. unbounded_read(rid) = Unbounded!ReadInit(r) /\ unbounded_read(rid)' = new
  BY <1>1, <1>3 DEF unbounded_read, Unbounded!ReadInit, Unbounded!VersionUpperBound
<1>5. Unbounded!ReadInit(r).state = "Init" /\ Unbounded!ReadInit(r).node_id = r
  BY DEF Unbounded!ReadInit
<1> HIDE DEF rid, new
<1>6. unbounded_reads' = [unbounded_reads EXCEPT ![rid] = new]
  <2>1. Reading' = Reading
    BY <1>3
  <2> QED BY <1>3, <1>4, <2>1 DEF unbounded_reads
<1>7. rid \in DOMAIN unbounded_reads /\ unbounded_reads[rid] = Unbounded!ReadInit(r)
  BY <1>3, <1>4 DEF unbounded_reads
<1>8. Unbounded!readonly_version_upper_bound(rid)
  BY <1>1, <1>3, <1>5, <1>6, <1>7 DEF Unbounded!readonly_version_upper_bound, Unbounded!Internal, new
<1> QED BY <1>3, <1>8 DEF Unbounded!BatchNext, Unbounded!Next, Unbounded!RequestStep

LEMMA ViewSynced ==
  ASSUME NodeInv, NEW r \in Replica, NEW t \in Thread, CheckSynced(r, t), client'[r][t] = "acquire_read"
  PROVE  Unbounded!BatchNext
<1> DEFINE rid == <<r, t>>
           b == bound[r][t]
           old == Unbounded!VersionUpperBound(r, b)
           new == Unbounded!ReadyToRead(r, b)
<1>1. /\ client[r][t] = "check_synced"
      /\ client' = [client EXCEPT ![r][t] = IF local_versions[r] >= b THEN "acquire_read" ELSE "try_read"]
      /\ UNCHANGED <<vars, contexts, num_ops, thread_idx>> /\ bound' = bound
      /\ label' = [kind |-> "Internal"]
  BY DEF CheckSynced, Client, Becomes, combining, collected, progress, Silent, Internal
<1>2. bound' = [bound EXCEPT ![r][t] = b]
  BY <1>1, ThreadTyped DEF ThreadTypes
<1>9. /\ local_versions[r] >= b
      /\ client' = [client EXCEPT ![r][t] = "acquire_read"]
  <2>1. client'[r][t] = IF local_versions[r] >= b THEN "acquire_read" ELSE "try_read"
    BY <1>1, ThreadTyped DEF ThreadTypes
  <2>2. local_versions[r] >= b
    BY <2>1
  <2> QED BY <1>1, <2>2
<1>3. /\ rid \in Request /\ client'[r][t] = "acquire_read" /\ bound'[r][t] = b
      /\ UNCHANGED <<unbounded_log, unbounded_updates, unbounded_combiners, tail, replicas, local_versions,
                     version_upper_bound>>
      /\ \A x : x # rid => /\ x \in Reading' <=> x \in Reading
                           /\ x \in Reading => unbounded_read(x)' = unbounded_read(x)
      /\ rid \in Reading /\ rid \in Reading'
  <2>1. ReadGoesOn(r, t, "acquire_read", b)
    BY <1>1, <1>2, <1>9 DEF ReadGoesOn, ReadPCs
  <2>2. ReadGone(r, t, "acquire_read", b)
    BY <2>1, ReadSteps
  <2> QED BY <1>1, <2>2 DEF ReadGone
<1>4. unbounded_read(rid) = old /\ unbounded_read(rid)' = new
  BY <1>1, <1>3 DEF unbounded_read, Unbounded!VersionUpperBound, Unbounded!ReadyToRead
<1>5. old.state = "VersionUpperBound" /\ old.node_id = r /\ old.version_upper_bound = b
  BY DEF Unbounded!VersionUpperBound
<1> HIDE DEF rid, new, old, b
<1>6. unbounded_reads' = [unbounded_reads EXCEPT ![rid] = new]
  <2>1. Reading' = Reading
    BY <1>3
  <2> QED BY <1>3, <1>4, <2>1 DEF unbounded_reads
<1>7. rid \in DOMAIN unbounded_reads /\ unbounded_reads[rid] = old
  BY <1>3, <1>4 DEF unbounded_reads
<1>8. Unbounded!readonly_ready_to_read(rid)
  BY <1>1, <1>3, <1>5, <1>6, <1>7, <1>9 DEF Unbounded!readonly_ready_to_read, Unbounded!Internal, new
<1> QED BY <1>3, <1>8 DEF Unbounded!BatchNext, Unbounded!Next, Unbounded!RequestStep

LEMMA ViewRead ==
  ASSUME NodeInv, NEW r \in Replica, NEW t \in Thread, Read(r, t)
  PROVE  Unbounded!BatchNext
<1> DEFINE rid == <<r, t>>
           old == Unbounded!ReadyToRead(r, bound[r][t])
<1>1. /\ client[r][t] = "acquire_read" /\ phase[r] # "log"
      /\ client' = [client EXCEPT ![r][t] = "idle"] /\ bound' = [bound EXCEPT ![r][t] = 0]
      /\ UNCHANGED <<vars, contexts, num_ops, thread_idx>>
      /\ label' = [kind |-> "End", rid |-> rid, ret |-> dispatch_spec(replicas[r])]
  BY DEF Read, Client, Becomes, Ended, combining, collected, progress
<1>3. /\ rid \in Request
      /\ UNCHANGED <<unbounded_log, unbounded_updates, unbounded_combiners, tail, replicas, local_versions,
                     version_upper_bound>>
      /\ \A x : x # rid => /\ x \in Reading' <=> x \in Reading
                           /\ x \in Reading => unbounded_read(x)' = unbounded_read(x)
      /\ rid \in Reading /\ rid \notin Reading'
  <2>1. ReadGoesOn(r, t, "idle", 0)
    BY <1>1 DEF ReadGoesOn, ReadPCs
  <2>2. ReadGone(r, t, "idle", 0)
    BY <2>1, ReadSteps
  <2> QED BY <1>1, <2>2 DEF ReadGone
<1>4. unbounded_read(rid) = old
  BY <1>1, <1>3 DEF unbounded_read, Unbounded!ReadyToRead
<1>5. old.state = "ReadyToRead" /\ old.node_id = r
  BY DEF Unbounded!ReadyToRead
<1>2. Unbounded!Combining(r, "Ready")
  <2>1. pc[r] \in {"ready", "done"}
    BY <1>1, BatchOf
  <2>2. queued_ops(r) = << >>
    BY <2>1, NothingPending DEF queued_ops, NotAppended
  <2> QED BY <2>1, <2>2 DEF Unbounded!Combining, unbounded_combiners, unbounded_combiner, CombinerToken
<1> HIDE DEF rid, old
<1>6. unbounded_reads' = Unbounded!remove(unbounded_reads, rid)
  <2>1. Reading' = Reading \ {rid}
    BY <1>3
  <2> QED BY <1>3, <2>1 DEF unbounded_reads, Unbounded!remove
<1>7. rid \in DOMAIN unbounded_reads /\ unbounded_reads[rid] = old
  BY <1>3, <1>4 DEF unbounded_reads
<1>8. Unbounded!read_and_return(rid)
  BY <1>1, <1>2, <1>3, <1>5, <1>6, <1>7
     DEF Unbounded!read_and_return, Unbounded!End, Unbounded!Combining, Unbounded!dispatch_spec,
         dispatch_spec
<1> QED BY <1>3, <1>8 DEF Unbounded!BatchNext

-----------------------------------------------------------------------------
(* Steps of a combiner among its threads *)

LEMMA NodeSteps ==
  ASSUME NodeInv, NEW r \in Replica, combine(r)
  PROVE  ThreadTypes' /\ ElsewhereSame(r) /\ LogElsewhereSame(r) /\ ThreadTypes
<1>1. ThreadInv /\ version_upper_bound \in Nat /\ CombinersOK /\ ControlInv /\ AnswerTyped
  <2>1. ControlInv /\ ControlTypes
    BY DEF NodeInv, SystemInv, ControlInv
  <2> QED BY <2>1, NrLogAssumption DEF NodeInv, SystemInv, ControlTypes, AnswersOK, AnswerTyped
<1>2. ThreadTypes' /\ ElsewhereSame(r)
  BY <1>1, TypesNext
<1>3. LogElsewhereSame(r)
  BY <1>1, CombinerCombines
<1> QED BY <1>1, <1>2, <1>3 DEF ThreadInv

(* The updates of another replica. *)
LEMMA UpdatesElsewhere ==
  ASSUME NEW r \in Replica, ElsewhereSame(r), LogElsewhereSame(r), log' = log,
         NEW q \in Replica \ {r}, NEW u \in Thread
  PROVE  unbounded_update(<<q, u>>)' = unbounded_update(<<q, u>>)
<1>1. /\ atomic'[q] = atomic[q] /\ resp'[q] = resp[q] /\ num_ops'[q] = num_ops[q]
      /\ thread_idx'[q] = thread_idx[q]
      /\ pc'[q] = pc[q] /\ ex'[q] = ex[q] /\ operations'[q] = operations[q]
      /\ responses'[q] = responses[q] /\ local_versions'[q] = local_versions[q]
  BY DEF ElsewhereSame, LogElsewhereSame
<1>2. InLog(<<q, u>>)' <=> InLog(<<q, u>>)
  BY <1>1, InLogIs DEF InBatch
<1>3. current_local_version(q)' = current_local_version(q)
  BY <1>1 DEF current_local_version
<1> QED BY <1>1, <1>2, <1>3, PositionKept, UpdateKept

(* No token changes, if the updates of r keep theirs. *)
LEMMA QuietCombine ==
  ASSUME NodeInv, NEW r \in Replica, combine(r), UNCHANGED vars, Silent,
         client' = client, bound' = bound, atomic' = atomic,
         \A u \in Thread : InLog(<<r, u>>)' <=> InLog(<<r, u>>),
         \A u \in Thread : atomic[r][u] = 0 => resp'[r][u] = resp[r][u]
  PROVE  Unbounded!BatchNext
<1>1. ElsewhereSame(r) /\ LogElsewhereSame(r) /\ UNCHANGED vars
  BY NodeSteps
<1>2. ASSUME NEW q \in Replica, NEW u \in Thread
      PROVE  unbounded_update(<<q, u>>)' = unbounded_update(<<q, u>>)
  <2>1. CASE q = r
    BY <1>1, <2>1, LogAtRest, UpdateKept
  <2>2. CASE q # r
    <3>1. q \in Replica \ {r} /\ log' = log
      BY <1>1, <2>2, LogAtRest
    <3> QED BY <1>1, <3>1, UpdatesElsewhere
  <2> QED BY <2>1, <2>2
<1>3. unbounded_updates' = unbounded_updates
  BY <1>2, SameUpdates
<1>4. unbounded_reads' = unbounded_reads
  BY SameReads DEF ReadKept
<1> QED BY <1>1, <1>3, <1>4, LogAtRest, Viewed

LEMMA UpdateIsApplied ==
  ASSUME NEW r \in Replica, NEW t \in Thread, NEW k \in DOMAIN operations[r],
         InLog(<<r, t>>), atomic[r][t] # 0, Position(<<r, t>>) - 1 < current_local_version(r),
         \A x \in DOMAIN operations[r] : operations[r][x] = <<r, t>> <=> x = k
  PROVE  unbounded_update(<<r, t>>) = Unbounded!UpdateApplied(responses[r][k], Position(<<r, t>>) - 1)
<1>1. UpdateToken(<<r, t>>, TRUE, Position(<<r, t>>) - 1, atomic[r][t], resp[r][t],
                  current_local_version(r), operations[r], responses[r])
        = Unbounded!UpdateApplied(responses[r][k], Position(<<r, t>>) - 1)
  <2> DEFINE rid == <<r, t>>
             place == Position(<<r, t>>) - 1
             waiting == atomic[r][t]
             ret == resp[r][t]
             version == current_local_version(r)
             ops == operations[r]
             answers == responses[r]
  <2>1. k \in DOMAIN ops /\ waiting # 0 /\ place < version /\ \A x \in DOMAIN ops : ops[x] = rid <=> x = k
    OBVIOUS
  <2> HIDE DEF rid, place, waiting, ret, version, ops, answers
  <2>2. UpdateToken(rid, TRUE, place, waiting, ret, version, ops, answers)
           = Unbounded!UpdateApplied(answers[k], place)
    <3>1. (CHOOSE x \in DOMAIN ops : ops[x] = rid) = k
      BY <2>1
    <3> QED BY <2>1, <3>1 DEF UpdateToken, Unbounded!UpdateApplied
  <2> QED BY <2>2 DEF rid, place, waiting, ret, version, ops, answers
<1>2. InLog(<<r, t>>) = TRUE
  BY DEF InLog
<1>3. UpdateOf(r, t) = UpdateToken(<<r, t>>, TRUE, Position(<<r, t>>) - 1, atomic[r][t], resp[r][t],
                  current_local_version(r), operations[r], responses[r])
  BY <1>2 DEF UpdateOf
<1> QED BY <1>1, <1>3, UpdateIs

LEMMA ViewQuietCombine ==
  ASSUME NodeInv, NEW r \in Replica, CollectThreadOp(r) \/ ReleaseWrite(r) \/ SkipThread(r) \/ PutResponse(r)
  PROVE  Unbounded!BatchNext
<1>0. combine(r)
  BY DEF combine
<1>1. /\ UNCHANGED vars /\ Silent /\ client' = client /\ bound' = bound /\ atomic' = atomic
  BY DEF CollectThreadOp, ReleaseWrite, SkipThread, PutResponse, contexts
<1>2. ThreadTypes /\ FlatOK(phase[r], combiner[r], client[r], atomic[r], num_ops[r], thread_idx[r])
  BY ThreadTyped DEF ThreadsOK
<1>3. num_ops[r] \in Seq({0, 1}) /\ thread_idx[r] \in Nat
  BY <1>2, ThreadNumbers DEF ThreadTypes
<1>4. pc'[r] = pc[r] /\ ex'[r] = ex[r]
  BY <1>1, LogAtRest
<1>5. CASE CollectThreadOp(r)
  <2>1. resp' = resp /\ phase[r] = "collect"
    BY <1>5 DEF CollectThreadOp, contexts
  <2>2. pc[r] = "ready"
    BY <2>1 DEF NodeInv, CombinersOK, PhaseOK
  <2>3. \A u \in Thread : InLog(<<r, u>>)' <=> InLog(<<r, u>>)
    BY <1>1, <1>4, <2>2, InLogIs DEF NotAppended
  <2> QED BY <1>0, <1>1, <2>1, <2>3, QuietCombine
<1>6. CASE ReleaseWrite(r) \/ SkipThread(r)
  <2>1. resp' = resp
    BY <1>6 DEF ReleaseWrite, SkipThread, contexts
  <2>2. ASSUME NEW u \in Thread PROVE InBatch(r, u)' <=> InBatch(r, u)
    <3>1. CASE ReleaseWrite(r)
      BY <3>1 DEF ReleaseWrite, collected, progress, InBatch
    <3>2. CASE SkipThread(r)
      <4>1. /\ num_ops' = num_ops /\ num_ops[r][thread_idx[r] + 1] = 0 /\ thread_idx'[r] = thread_idx[r] + 1
        BY <1>2, <3>2 DEF SkipThread, collected, ThreadTypes
      <4>2. u \in Nat
        BY ThreadNumbers
      <4>3. u = thread_idx[r] => num_ops[r][u + 1] # 1
        BY <4>1
      <4> QED BY <1>3, <4>1, <4>2, <4>3 DEF InBatch
    <3> QED BY <1>6, <3>1, <3>2
  <2>3. \A u \in Thread : InLog(<<r, u>>)' <=> InLog(<<r, u>>)
    BY <1>1, <1>4, <2>2, InLogIs
  <2> QED BY <1>0, <1>1, <2>1, <2>3, QuietCombine
<1>7. CASE PutResponse(r)
  <2>1. /\ UNCHANGED <<num_ops, thread_idx>> /\ RespondingTo(r) /\ num_ops[r][thread_idx[r] + 1] = 1
        /\ resp' = [resp EXCEPT ![r][thread_idx[r]] = responses[r][resp_idx[r] + 1]]
    BY <1>7 DEF PutResponse, collected, progress
  <2>2. InBatch(r, thread_idx[r]) /\ thread_idx[r] \in Thread
    BY <1>2, <1>3, <2>1, ThreadNumbers DEF RespondingTo, FlatOK, InBatch
  <2>3. atomic[r][thread_idx[r]] = 1
    BY <2>2, BatchOf
  <2>4. \A u \in Thread : atomic[r][u] = 0 => resp'[r][u] = resp[r][u]
    BY <1>2, <2>1, <2>3 DEF ThreadTypes
  <2>5. \A u \in Thread : InLog(<<r, u>>)' <=> InLog(<<r, u>>)
    BY <1>1, <1>4, <2>1, InLogIs DEF InBatch
  <2> QED BY <1>0, <1>1, <2>4, <2>5, QuietCombine
<1> QED BY <1>5, <1>6, <1>7

(* The answer that a thread is about to get. *)
LEMMA NextAnswer ==
  ASSUME NodeInv, NEW r \in Replica, PublishResponse(r)
  PROVE  /\ thread_idx[r] \in Thread /\ InBatch(r, thread_idx[r])
         /\ resp_idx[r] + 1 \in 1 .. NumOps(r)
         /\ operations[r][resp_idx[r] + 1] = <<r, thread_idx[r]>>
         /\ resp[r][thread_idx[r]] = responses[r][resp_idx[r] + 1]
         /\ pc[r] = "done" /\ ~NotAppended(pc[r], ex[r])
<1> DEFINE c == collected_operations[r]
           n == num_ops[r]
           i == thread_idx[r]
           k == resp_idx[r]
<1>1. /\ GatherOK(c, n, i, k, r)
      /\ PhaseOK(phase[r], pc[r], c, operations[r], resp[r], responses[r], i, k)
      /\ FlatOK(phase[r], combiner[r], client[r], atomic[r], n, i)
      /\ n \in Seq({0, 1}) /\ c \in Seq(Request) /\ i \in Nat
  BY ThreadNumbers DEF NodeInv, SystemInv, ThreadInv, ThreadTypes, ThreadsOK, CombinersOK
<1>2. phase[r] = "publish"
  BY DEF PublishResponse
<1> HIDE DEF c, n, i, k
<1>3. i \in Thread /\ i < Len(n) /\ n[i + 1] = 1
  BY <1>1, <1>2, ThreadNumbers DEF FlatOK
<1>4. k + 1 \in 1 .. Len(c) /\ c[k + 1] = <<r, i>>
  BY <1>1, <1>3, GatherPublish
<1>5. operations[r] = c /\ pc[r] = "done" /\ resp[r][i] = responses[r][k + 1]
  BY <1>1, <1>2 DEF PhaseOK
<1>6. ~NotAppended(pc[r], ex[r])
  <2>1. ex[r].caller = "none"
    BY <1>5, NodeTypes DEF Locals, ExecutePCs, LoopPCs
  <2> QED BY <1>5, <2>1 DEF NotAppended
<1>7. NumOps(r) = Len(c)
  BY <1>5, NodeTypes
<1>8. InBatch(r, i)
  BY <1>1, <1>3 DEF InBatch, i, n
<1> QED BY <1>3, <1>4, <1>5, <1>6, <1>7, <1>8 DEF i, k

LEMMA ViewPublish ==
  ASSUME NodeInv, NEW r \in Replica, PublishResponse(r)
  PROVE  Unbounded!BatchNext
<1>0. combine(r)
  BY DEF combine
<1>1. /\ UNCHANGED vars /\ Silent /\ client' = client /\ bound' = bound /\ resp' = resp /\ num_ops' = num_ops
      /\ atomic' = [atomic EXCEPT ![r][thread_idx[r]] = 0] /\ thread_idx' = [thread_idx EXCEPT ![r] = @ + 1]
  BY DEF PublishResponse, collected
<1>2. PICK i \in Thread, k \in 1 .. NumOps(r) :
        /\ i = thread_idx[r] /\ k = resp_idx[r] + 1 /\ InBatch(r, i) /\ operations[r][k] = <<r, i>>
        /\ resp[r][i] = responses[r][k] /\ pc[r] = "done" /\ ~NotAppended(pc[r], ex[r])
  BY NextAnswer
<1> DEFINE rid == <<r, i>>
           place == Position(rid) - 1
           old == Unbounded!UpdateApplied(resp[r][i], place)
           new == Unbounded!UpdateDone(resp[r][i], place)
<1>3. ThreadTypes /\ ElsewhereSame(r) /\ LogElsewhereSame(r) /\ UNCHANGED vars
  BY <1>0, <1>1, NodeSteps
<1>4. /\ \A q \in Replica, u \in Thread : atomic'[q][u] = IF <<q, u>> = rid THEN 0 ELSE atomic[q][u]
      /\ thread_idx'[r] = i + 1
  BY <1>1, <1>2, <1>3 DEF ThreadTypes
<1>5. atomic[r][i] = 1 /\ rid \in Updating /\ rid \in Request
  BY <1>2, BatchOf DEF Request
<1>6. /\ Position(rid) \in Nat /\ place < current_local_version(r)
      /\ place < version_upper_bound
  <2>1. PICK at \in Nat : Placement(r, at)
    BY <1>2, Placements
  <2>2. Position(rid) = at + k /\ at + NumOps(r) <= local_versions[r]
    BY <1>2, <2>1 DEF Placement
  <2>3. /\ local_versions[r] <= current_local_version(r) /\ local_versions[r] <= version_upper_bound
        /\ local_versions[r] \in Nat /\ current_local_version(r) \in Nat /\ version_upper_bound \in Nat
        /\ NumOps(r) \in Nat
    BY NodeTypes
  <2> HIDE DEF rid
  <2> QED BY <2>2, <2>3
<1>7. unbounded_update(rid) = old
  <2>1. InLog(rid)
    BY <1>2, InLogIs
  <2>2. k \in DOMAIN operations[r] /\ \A x \in DOMAIN operations[r] : operations[r][x] = <<r, i>> <=> x = k
    <3>1. DOMAIN operations[r] = 1 .. NumOps(r)
      BY NodeTypes
    <3> QED BY <1>2, <3>1, BatchOf
  <2>3. atomic[r][i] # 0 /\ Position(<<r, i>>) - 1 < current_local_version(r) /\ InLog(<<r, i>>)
    BY <1>5, <1>6, <2>1
  <2>4. unbounded_update(<<r, i>>) = Unbounded!UpdateApplied(responses[r][k], Position(<<r, i>>) - 1)
    BY <2>2, <2>3, UpdateIsApplied
  <2> QED BY <1>2, <2>4
<1>8. unbounded_update(rid)' = new
  <2>1. atomic'[r][i] = 0 /\ resp'[r][i] = resp[r][i] /\ Position(rid)' = Position(rid)
    BY <1>1, <1>4, LogAtRest
  <2>2. InLog(rid)'
    BY <2>1, InLogIs
  <2>3. UpdateOf(r, i)' = Unbounded!UpdateDone(resp[r][i], Position(rid) - 1)
    BY <2>1, <2>2 DEF UpdateOf, UpdateToken, Unbounded!UpdateDone
  <2> QED BY <2>3, UpdateIs
<1>9. ASSUME NEW q \in Replica, NEW u \in Thread, <<q, u>> # rid
      PROVE  unbounded_update(<<q, u>>)' = unbounded_update(<<q, u>>)
  <2>1. CASE q = r
    <3>1. atomic'[r][u] = atomic[r][u] /\ u # i
      BY <1>4, <1>9, <2>1
    <3>2. InBatch(r, u)' <=> InBatch(r, u)
      <4>1. u \in Nat /\ i \in Nat
        BY ThreadNumbers
      <4> QED BY <1>1, <1>2, <1>4, <3>1, <4>1 DEF InBatch
    <3>3. InLog(<<r, u>>)' <=> InLog(<<r, u>>)
      BY <1>3, <3>1, <3>2, LogAtRest, InLogIs
    <3> QED BY <1>1, <1>3, <2>1, <3>1, <3>3, LogAtRest, UpdateKept
  <2>2. CASE q # r
    <3>1. q \in Replica \ {r} /\ log' = log
      BY <1>3, <2>2, LogAtRest
    <3> QED BY <1>3, <3>1, UpdatesElsewhere
  <2> QED BY <2>1, <2>2
<1>10. Updating' = Updating
  BY <1>1 DEF Updating
<1>11. \A x \in Updating : x # rid => unbounded_update(x)' = unbounded_update(x)
  BY <1>9, Pairs DEF Updating
<1>12. old.state = "Applied" /\ old.ret = resp[r][i] /\ old.idx = place
  BY DEF Unbounded!UpdateApplied
<1>13. unbounded_reads' = unbounded_reads
  BY <1>1, SameReads DEF ReadKept
<1>14. version_upper_bound > place
  BY <1>6, NodeTypes
<1> HIDE DEF rid, place, old
<1>15. unbounded_updates' = [unbounded_updates EXCEPT ![rid] = new]
  <2> HIDE DEF new
  <2> QED BY <1>5, <1>8, <1>10, <1>11 DEF unbounded_updates
<1>16. rid \in DOMAIN unbounded_updates /\ unbounded_updates[rid] = old
  BY <1>5, <1>7 DEF unbounded_updates
<1>17. Unbounded!update_done(rid)
  BY <1>1, <1>3, <1>12, <1>13, <1>14, <1>15, <1>16, LogAtRest
     DEF Unbounded!update_done, Unbounded!Internal, Silent, Internal
<1> QED BY <1>5, <1>17 DEF Unbounded!BatchNext, Unbounded!Next, Unbounded!RequestStep

-----------------------------------------------------------------------------
(* The tokens of the combiners *)

LEMMA TokenCases ==
  ASSUME NEW p, NEW queue, NEW answered, NEW e
  PROVE  LET c == CombinerToken(p, queue, answered, e)
         IN  /\ p = "load_version" => c = Unbounded!Placed(queue)
             /\ p = "load_exec_tail" => c = Unbounded!LoadedLocalVersion(queue, e.local_version)
             /\ p \in {"wait_alive", "dispatch", "bump_version"} =>
                  c = Unbounded!Loop(queue, e.local_version, IF queue = << >> THEN 0 ELSE answered, e.global_tail)
             /\ p = "store_version" => c = Unbounded!UpdatedVersion(queue, e.global_tail)
             /\ p \notin ExecutePCs /\ queue = << >> => c = Unbounded!Ready
             /\ p \notin ExecutePCs /\ queue # << >> => c = Unbounded!Placed(queue)
BY DEF CombinerToken, ExecutePCs, LoopPCs, Unbounded!Placed, Unbounded!LoadedLocalVersion, Unbounded!Loop,
       Unbounded!UpdatedVersion, Unbounded!Ready

TokenOf(r) == CombinerToken(pc[r], queued_ops(r), Len(responses[r]), ex[r])

LEMMA TokenIs ==
  ASSUME NEW r \in Replica
  PROVE  /\ unbounded_combiners[r] = TokenOf(r)
         /\ TokenOf(r)' = CombinerToken(pc'[r], queued_ops(r)', Len(responses'[r]), ex'[r])
BY DEF unbounded_combiners, unbounded_combiner, TokenOf, CombinerToken

(* The token of r is all that changes of the combiners'. *)
LEMMA CombinerMoves ==
  ASSUME NEW r \in Replica, LogElsewhereSame(r), NEW c, TokenOf(r)' = c,
         \A q \in Replica \ {r} : BatchPending(q)' <=> BatchPending(q)
  PROVE  Unbounded!Become(r, c)
<1>1. ASSUME NEW q \in Replica, q # r PROVE unbounded_combiner(q)' = unbounded_combiner(q)
  <2>1. /\ pc'[q] = pc[q] /\ ex'[q] = ex[q] /\ responses'[q] = responses[q] /\ operations'[q] = operations[q]
        /\ BatchPending(q)' <=> BatchPending(q)
    BY <1>1 DEF LogElsewhereSame
  <2> QED BY <2>1, CombinerKept, QueueKept
<1>2. unbounded_combiner(r)' = c
  BY DEF unbounded_combiner, TokenOf
<1>3. \A q \in Replica : unbounded_combiner(q)' = IF q = r THEN c ELSE unbounded_combiner(q)
  BY <1>1, <1>2
<1> HIDE DEF TokenOf
<1>4. unbounded_combiners' = [unbounded_combiners EXCEPT ![r] = c]
  BY <1>3 DEF unbounded_combiners
<1> QED BY <1>4 DEF Unbounded!Become

LEMMA PendingElsewhere ==
  ASSUME NEW r \in Replica, LogElsewhereSame(r), log' = log
  PROVE  \A q \in Replica \ {r} : BatchPending(q)' <=> BatchPending(q)
BY PendingKept DEF LogElsewhereSame

LEMMA CombinerStays ==
  ASSUME NEW r \in Replica, LogElsewhereSame(r), log' = log, TokenOf(r)' = TokenOf(r)
  PROVE  unbounded_combiners' = unbounded_combiners
<1>1. ASSUME NEW q \in Replica, q # r PROVE unbounded_combiner(q)' = unbounded_combiner(q)
  <2>1. /\ pc'[q] = pc[q] /\ ex'[q] = ex[q] /\ responses'[q] = responses[q] /\ operations'[q] = operations[q]
        /\ BatchPending(q)' <=> BatchPending(q)
    BY <1>1, PendingElsewhere DEF LogElsewhereSame
  <2> QED BY <2>1, CombinerKept, QueueKept
<1>2. unbounded_combiner(r)' = unbounded_combiner(r)
  BY DEF unbounded_combiner, TokenOf
<1> QED BY <1>1, <1>2, SameCombiners

-----------------------------------------------------------------------------
(* The start and the end of a batch *)

(* The updates of r when none of them is in a batch that is in the log. *)
LEMMA Unbatched ==
  ASSUME NodeInv, NEW r \in Replica, combine(r), log' = log, resp' = resp, atomic' = atomic,
         \A u \in Thread : (InLog(<<r, u>>) <=> atomic[r][u] = 0) /\ (InLog(<<r, u>>)' <=> atomic[r][u] = 0)
  PROVE  \A q \in Replica, u \in Thread : unbounded_update(<<q, u>>)' = unbounded_update(<<q, u>>)
<1>1. ElsewhereSame(r) /\ LogElsewhereSame(r)
  BY NodeSteps
<1>2. ASSUME NEW u \in Thread PROVE unbounded_update(<<r, u>>)' = unbounded_update(<<r, u>>)
  BY PositionKept, UpdateKept
<1>3. ASSUME NEW q \in Replica, NEW u \in Thread, q # r
      PROVE  unbounded_update(<<q, u>>)' = unbounded_update(<<q, u>>)
  <2>1. q \in Replica \ {r}
    BY <1>3
  <2> QED BY <1>1, <2>1, UpdatesElsewhere
<1> QED BY <1>2, <1>3

LEMMA ViewAcquireWrite ==
  ASSUME NodeInv, NEW r \in Replica, AcquireWrite(r)
  PROVE  Unbounded!BatchNext
<1>0. combine(r)
  BY DEF combine
<1>1. /\ client' = client /\ bound' = bound /\ atomic' = atomic /\ resp' = resp /\ Silent
      /\ append_start(r, collected_operations[r])
  BY DEF AcquireWrite, contexts
<1>2. ControlInv /\ AnswerTyped
  BY NodeTypes DEF NodeInv, SystemInv
<1>3. /\ UNCHANGED <<log, tail, local_versions, version_upper_bound, replicas, ex, responses>>
      /\ pc[r] = "ready" /\ pc'[r] = "load_tail" /\ LogElsewhereSame(r)
  BY <1>1, <1>2, BatchEnds
<1>4. NotAppended(pc[r], ex[r]) /\ NotAppended(pc'[r], ex'[r])
  BY <1>3 DEF NotAppended
<1>5. \A u \in Thread : (InLog(<<r, u>>) <=> atomic[r][u] = 0) /\ (InLog(<<r, u>>)' <=> atomic[r][u] = 0)
  BY <1>1, <1>4, InLogIs
<1>6. unbounded_updates' = unbounded_updates
  <2>1. \A q \in Replica, u \in Thread : unbounded_update(<<q, u>>)' = unbounded_update(<<q, u>>)
    BY <1>0, <1>1, <1>3, <1>5, Unbatched
  <2> QED BY <1>1, <2>1, SameUpdates
<1>7. TokenOf(r)' = TokenOf(r)
  <2>1. ~BatchPending(r) /\ ~BatchPending(r)'
    BY <1>3, <1>4, NothingPending, PendingKept
  <2>2. queued_ops(r) = << >> /\ queued_ops(r)' = << >>
    BY <2>1 DEF queued_ops
  <2>3. pc[r] \notin ExecutePCs /\ pc'[r] \notin ExecutePCs
    BY <1>3 DEF ExecutePCs, LoopPCs
  <2>4. TokenOf(r) = Unbounded!Ready
    BY <2>2, <2>3, TokenCases DEF TokenOf
  <2>5. TokenOf(r)' = Unbounded!Ready
    BY <2>2, <2>3, TokenCases, TokenIs
  <2> QED BY <2>4, <2>5
<1>8. unbounded_combiners' = unbounded_combiners
  BY <1>3, <1>7, CombinerStays
<1>9. unbounded_reads' = unbounded_reads /\ unbounded_log' = unbounded_log
  BY <1>1, <1>3, SameReads DEF ReadKept, unbounded_log
<1> QED BY <1>1, <1>3, <1>6, <1>8, <1>9, Viewed

LEMMA ViewRelease ==
  ASSUME NodeInv, NEW r \in Replica, ReleaseCombinerLock(r)
  PROVE  Unbounded!BatchNext
<1>0. combine(r)
  BY DEF combine
<1>1. /\ bound' = bound /\ atomic' = atomic /\ resp' = resp /\ Silent /\ finish(r)
      /\ client' = [client EXCEPT ![r][combiner[r]] = AfterTry(@)]
      /\ num_ops' = [num_ops EXCEPT ![r] = << >>] /\ thread_idx[r] = num_threads
      /\ phase[r] = "distribute"
  BY DEF ReleaseCombinerLock, contexts
<1>2. ControlInv /\ AnswerTyped /\ ThreadTypes
      /\ FlatOK(phase[r], combiner[r], client[r], atomic[r], num_ops[r], thread_idx[r])
  BY NodeTypes, ThreadTyped DEF NodeInv, SystemInv, ThreadsOK
<1>3. /\ UNCHANGED <<log, tail, local_versions, version_upper_bound, replicas, ex>>
      /\ pc[r] = "done" /\ pc'[r] = "ready" /\ LogElsewhereSame(r)
  BY <1>1, <1>2, BatchEnds
<1>4. PICK l \in Thread : l = combiner[r] /\ client[r][l] \in {"try_update", "try_read"}
  BY <1>1, <1>2 DEF FlatOK
<1>5. \A q \in Replica, u \in Thread :
        client'[q][u] = IF <<q, u>> = <<r, l>> THEN AfterTry(client[r][l]) ELSE client[q][u]
  BY <1>1, <1>2, <1>4 DEF ThreadTypes
<1>6. \A u \in Thread : (InLog(<<r, u>>) <=> atomic[r][u] = 0) /\ (InLog(<<r, u>>)' <=> atomic[r][u] = 0)
  <2>1. num_ops'[r] = << >> /\ num_ops[r] \in Seq({0, 1})
    BY <1>1, <1>2 DEF ThreadTypes
  <2>2. Len(num_ops[r]) <= num_threads
    BY <1>2 DEF FlatOK
  <2>3. \A u \in Thread : ~InBatch(r, u) /\ ~InBatch(r, u)'
    BY <1>1, <2>1, <2>2, ThreadNumbers DEF InBatch
  <2> QED BY <1>1, <2>3, InLogIs
<1>7. \A q \in Replica, u \in Thread :
         /\ ReadKept(q, u)
         /\ client'[q][u] \in {"try_update", "dequeue"} <=> client[q][u] \in {"try_update", "dequeue"}
  <2>1. /\ ReadView(AfterTry(client[r][l])) = ReadView(client[r][l])
        /\ AfterTry(client[r][l]) \in {"try_update", "dequeue"} <=> client[r][l] \in {"try_update", "dequeue"}
    BY <1>4 DEF ReadView, AfterTry
  <2>2. ASSUME NEW q \in Replica, NEW u \in Thread
        PROVE  /\ ReadView(client'[q][u]) = ReadView(client[q][u])
               /\ client'[q][u] \in {"try_update", "dequeue"} <=> client[q][u] \in {"try_update", "dequeue"}
    <3>1. CASE <<q, u>> = <<r, l>>
      <4>1. q = r /\ u = l
        BY <3>1
      <4>2. client'[r][l] = AfterTry(client[r][l])
        BY <1>5
      <4> QED BY <2>1, <4>1, <4>2
    <3>2. CASE <<q, u>> # <<r, l>>
      <4>1. client'[q][u] = client[q][u]
        BY <1>5, <3>2
      <4> QED BY <4>1
    <3> QED BY <3>1, <3>2
  <2> QED BY <1>1, <2>2 DEF ReadKept
<1>8. unbounded_updates' = unbounded_updates
  <2>1. \A q \in Replica, u \in Thread : unbounded_update(<<q, u>>)' = unbounded_update(<<q, u>>)
    BY <1>0, <1>1, <1>3, <1>6, Unbatched
  <2> QED BY <1>7, <2>1, SameUpdates
<1>9. TokenOf(r)' = TokenOf(r)
  <2>1. ~BatchPending(r) /\ ~BatchPending(r)'
    BY <1>3, NothingPending, PendingKept
  <2>2. queued_ops(r) = << >> /\ queued_ops(r)' = << >>
    BY <2>1 DEF queued_ops
  <2>3. pc[r] \notin ExecutePCs /\ pc'[r] \notin ExecutePCs
    BY <1>3 DEF ExecutePCs, LoopPCs
  <2>4. TokenOf(r) = Unbounded!Ready
    BY <2>2, <2>3, TokenCases DEF TokenOf
  <2>5. TokenOf(r)' = Unbounded!Ready
    BY <2>2, <2>3, TokenCases, TokenIs
  <2> QED BY <2>4, <2>5
<1>10. unbounded_combiners' = unbounded_combiners
  BY <1>3, <1>9, CombinerStays
<1>11. unbounded_reads' = unbounded_reads /\ unbounded_log' = unbounded_log
  BY <1>3, <1>7, SameReads DEF unbounded_log
<1> QED BY <1>1, <1>3, <1>8, <1>10, <1>11, Viewed

-----------------------------------------------------------------------------
(* Steps within the log *)

(* What a step of r's combiner within the log leaves alone. *)
AtWork(r) ==
  /\ client' = client /\ bound' = bound /\ atomic' = atomic /\ resp' = resp
  /\ num_ops' = num_ops /\ thread_idx' = thread_idx
  /\ operations' = operations /\ label' = [kind |-> "Internal"]
  /\ ElsewhereSame(r) /\ LogElsewhereSame(r)
  /\ unbounded_reads' = unbounded_reads
  /\ ControlInv /\ AnswerTyped /\ LogStep(r)

LEMMA Working ==
  ASSUME NodeInv, NEW r \in Replica, WorkOnLog(r)
  PROVE  /\ AtWork(r)
         /\ \/ JustMoves(r) \/ CasTail(r)
            \/ LoadLocalVersion(r) \/ LoadExecTail_NoWork(r) \/ LoadExecTail_Work(r)
            \/ WaitAlive(r) \/ DispatchEntry(r) \/ BumpVersionUpperBound(r) \/ StoreLocalVersion(r)
<1>1. combine(r)
  BY DEF combine
<1>2. /\ client' = client /\ bound' = bound /\ atomic' = atomic /\ resp' = resp
      /\ num_ops' = num_ops /\ thread_idx' = thread_idx /\ LogStep(r) /\ label' = [kind |-> "Internal"]
  BY DEF WorkOnLog, nrvars, contexts, combining, collected, progress, Silent, Internal
<1>3. ControlInv /\ AnswerTyped
  BY NodeTypes DEF NodeInv, SystemInv
<1>4. ElsewhereSame(r) /\ LogElsewhereSame(r)
  BY <1>1, NodeSteps
<1>5. unbounded_reads' = unbounded_reads
  BY <1>2, SameReads DEF ReadKept
<1>6. /\ operations' = operations
      /\ \/ JustMoves(r) \/ CasTail(r)
         \/ LoadLocalVersion(r) \/ LoadExecTail_NoWork(r) \/ LoadExecTail_Work(r)
         \/ WaitAlive(r) \/ DispatchEntry(r) \/ BumpVersionUpperBound(r) \/ StoreLocalVersion(r)
  BY <1>2, <1>3, LogStepKinds
<1> QED BY <1>2, <1>3, <1>4, <1>5, <1>6 DEF AtWork

(* The updates keep their tokens while their replica's version stays.      *)
LEMMA QuietWork ==
  ASSUME NodeInv, NEW r \in Replica, AtWork(r), log' = log, responses'[r] = responses[r],
         NotAppended(pc'[r], ex'[r]) <=> NotAppended(pc[r], ex[r]),
         current_local_version(r)' = current_local_version(r)
  PROVE  unbounded_updates' = unbounded_updates
<1>1. ASSUME NEW u \in Thread PROVE unbounded_update(<<r, u>>)' = unbounded_update(<<r, u>>)
  <2>1. InLog(<<r, u>>)' <=> InLog(<<r, u>>)
    BY InLogIs DEF AtWork, InBatch
  <2> QED BY <2>1, PositionKept, UpdateKept DEF AtWork
<1>2. ASSUME NEW q \in Replica, NEW u \in Thread, q # r
      PROVE  unbounded_update(<<q, u>>)' = unbounded_update(<<q, u>>)
  <2>1. q \in Replica \ {r}
    BY <1>2
  <2> QED BY <2>1, UpdatesElsewhere DEF AtWork
<1>3. \A q \in Replica, u \in Thread : unbounded_update(<<q, u>>)' = unbounded_update(<<q, u>>)
  BY <1>1, <1>2
<1> QED BY <1>3, SameUpdates DEF AtWork

LEMMA NodeIds == Unbounded!NodeId = Replica
BY DEF Unbounded!NodeId, Replica

LEMMA ByCombiner ==
  ASSUME NEW r \in Replica, Unbounded!CombinerStep(r)
  PROVE  Unbounded!BatchNext
BY NodeIds DEF Unbounded!BatchNext, Unbounded!Next

(* No token changes. *)
LEMMA Oob ==
  ASSUME NEW r \in Replica, AtWork(r), log' = log, UNCHANGED <<tail, replicas, local_versions, version_upper_bound>>,
         unbounded_updates' = unbounded_updates, TokenOf(r)' = TokenOf(r)
  PROVE  Unbounded!BatchNext
<1>1. unbounded_combiners' = unbounded_combiners
  BY CombinerStays DEF AtWork
<1>2. unbounded_log' = unbounded_log
  BY DEF unbounded_log
<1> QED BY <1>1, <1>2 DEF AtWork, Unbounded!BatchNext, Unbounded!Next, Unbounded!readonly_view_oob, Unbounded!Internal

LEMMA ViewJustMoves ==
  ASSUME NodeInv, NEW r \in Replica, AtWork(r), JustMoves(r)
  PROVE  Unbounded!BatchNext
<1>1. /\ UNCHANGED <<log, tail, local_versions, version_upper_bound, replicas, operations, responses>>
      /\ pc[r] \in OutsidePCs \ {"ready"}
      /\ pc'[r] \in (OutsidePCs \ {"ready"}) \cup {"load_version"}
      /\ NotAppended(pc'[r], ex'[r]) <=> NotAppended(pc[r], ex[r])
  BY DEF JustMoves
<1>2. pc[r] \notin ExecutePCs /\ pc[r] \notin LoopPCs /\ pc'[r] \notin LoopPCs
  BY <1>1 DEF OutsidePCs, ExecutePCs, LoopPCs
<1>3. current_local_version(r)' = current_local_version(r)
  BY <1>1, <1>2 DEF current_local_version
<1>4. unbounded_updates' = unbounded_updates
  BY <1>1, <1>3, QuietWork
<1>5. queued_ops(r)' = queued_ops(r)
  BY <1>1, PendingKept, QueueKept
<1>6. CASE pc'[r] \notin ExecutePCs \/ queued_ops(r) # << >>
  <2>1. TokenOf(r)' = TokenOf(r)
    <3>1. pc'[r] \notin ExecutePCs \/ pc'[r] = "load_version"
      BY <1>1 DEF OutsidePCs
    <3>2. CASE queued_ops(r) = << >>
      <4>1. TokenOf(r) = Unbounded!Ready
        BY <1>2, <3>2, TokenCases DEF TokenOf
      <4>2. TokenOf(r)' = Unbounded!Ready
        BY <1>5, <1>6, <3>2, TokenCases, TokenIs
      <4> QED BY <4>1, <4>2
    <3>3. CASE queued_ops(r) # << >>
      <4>1. TokenOf(r) = Unbounded!Placed(queued_ops(r))
        BY <1>2, <3>3, TokenCases DEF TokenOf
      <4>2. TokenOf(r)' = Unbounded!Placed(queued_ops(r))
        BY <1>5, <3>1, <3>3, TokenCases, TokenIs
      <4> QED BY <4>1, <4>2
    <3> QED BY <3>2, <3>3
  <2> QED BY <1>1, <1>4, <2>1, Oob
<1>7. CASE pc'[r] = "load_version" /\ queued_ops(r) = << >>
  <2>1. TokenOf(r) = Unbounded!Ready
    BY <1>2, <1>7, TokenCases DEF TokenOf
  <2>2. TokenOf(r)' = Unbounded!Placed(<< >>)
    BY <1>5, <1>7, TokenCases, TokenIs
  <2>3. Unbounded!Become(r, Unbounded!Placed(<< >>))
    BY <1>1, <2>2, CombinerMoves, PendingElsewhere DEF AtWork
  <2>4. Unbounded!Combining(r, "Ready")
    BY <2>1, TokenIs DEF Unbounded!Combining, Unbounded!Ready
  <2>5. unbounded_log' = unbounded_log
    BY <1>1 DEF unbounded_log
  <2>6. Unbounded!exec_trivial_start(r)
    BY <1>1, <1>4, <2>3, <2>4, <2>5 DEF AtWork, Unbounded!exec_trivial_start, Unbounded!Internal
  <2> QED BY <2>6, ByCombiner DEF Unbounded!CombinerStep
<1> QED BY <1>1, <1>6, <1>7 DEF OutsidePCs

LEMMA ViewLoadLocalVersion ==
  ASSUME NodeInv, NEW r \in Replica, AtWork(r), LoadLocalVersion(r)
  PROVE  Unbounded!BatchNext
<1>1. /\ UNCHANGED <<log, tail, local_versions, version_upper_bound, replicas, operations, responses>>
      /\ pc[r] = "load_version" /\ pc'[r] = "load_exec_tail"
      /\ ex'[r].local_version = local_versions[r] /\ ex'[r].caller = ex[r].caller
  BY NodeTypes DEF LoadLocalVersion, At, Goto, shared, Executes
<1>3. /\ current_local_version(r)' = current_local_version(r)
      /\ NotAppended(pc'[r], ex'[r]) <=> NotAppended(pc[r], ex[r])
  BY <1>1 DEF current_local_version, LoopPCs, NotAppended
<1>4. unbounded_updates' = unbounded_updates
  BY <1>1, <1>3, QuietWork
<1>5. queued_ops(r)' = queued_ops(r)
  BY <1>1, PendingKept, QueueKept
<1>6. TokenOf(r) = Unbounded!Placed(queued_ops(r))
  BY <1>1, TokenCases DEF TokenOf
<1>7. TokenOf(r)' = Unbounded!LoadedLocalVersion(queued_ops(r), local_versions[r])
  BY <1>1, <1>5, TokenCases, TokenIs
<1>8. Unbounded!Become(r, Unbounded!LoadedLocalVersion(queued_ops(r), local_versions[r]))
  BY <1>1, <1>7, CombinerMoves, PendingElsewhere DEF AtWork
<1>9. Unbounded!Combining(r, "Placed") /\ unbounded_combiners[r].queued_ops = queued_ops(r)
  BY <1>6, TokenIs DEF Unbounded!Combining, Unbounded!Placed
<1>10. unbounded_log' = unbounded_log
  BY <1>1 DEF unbounded_log
<1>11. Unbounded!exec_load_local_version(r)
  BY <1>1, <1>4, <1>8, <1>9, <1>10 DEF AtWork, Unbounded!exec_load_local_version, Unbounded!Internal
<1> QED BY <1>11, ByCombiner DEF Unbounded!CombinerStep

LEMMA ViewLoadExecTail_NoWork ==
  ASSUME NodeInv, NEW r \in Replica, AtWork(r), LoadExecTail_NoWork(r)
  PROVE  Unbounded!BatchNext
<1>1. /\ UNCHANGED <<log, tail, local_versions, version_upper_bound, replicas, operations, responses>>
      /\ pc[r] = "load_exec_tail" /\ ex[r].local_version = tail
      /\ pc'[r] = ex[r].caller /\ ex'[r] = NoExecute
  BY NodeTypes DEF LoadExecTail_NoWork, ReturnFromExecute, At, Goto, shared
<1>2. pc'[r] \in {"load_tail", "load_global_head", "done"}
  BY <1>1, NodeTypes DEF Locals, Executes, ExecutePCs
<1>3. /\ current_local_version(r)' = current_local_version(r)
      /\ NotAppended(pc'[r], ex'[r]) <=> NotAppended(pc[r], ex[r])
  BY <1>1, <1>2 DEF current_local_version, LoopPCs, NotAppended, NoExecute
<1>4. unbounded_updates' = unbounded_updates
  BY <1>1, <1>3, QuietWork
<1>5. queued_ops(r) = << >> /\ queued_ops(r)' = << >>
  <2>1. ~BatchPending(r) /\ ~BatchPending(r)'
    BY <1>1, NothingPending, PendingKept
  <2> QED BY <2>1 DEF queued_ops
<1>6. TokenOf(r) = Unbounded!LoadedLocalVersion(<< >>, ex[r].local_version)
  BY <1>1, <1>5, TokenCases DEF TokenOf
<1>7. TokenOf(r)' = Unbounded!Ready
  <2>1. pc'[r] \notin ExecutePCs
    BY <1>2 DEF ExecutePCs, LoopPCs
  <2> QED BY <1>5, <2>1, TokenCases, TokenIs
<1>8. Unbounded!Become(r, Unbounded!Ready)
  BY <1>1, <1>7, CombinerMoves, PendingElsewhere DEF AtWork
<1>9. Unbounded!Combining(r, "LoadedLocalVersion") /\ unbounded_combiners[r].lversion = tail
  BY <1>1, <1>6, TokenIs DEF Unbounded!Combining, Unbounded!LoadedLocalVersion
<1>10. unbounded_log' = unbounded_log
  BY <1>1 DEF unbounded_log
<1>11. Unbounded!exec_finish_no_change(r)
  BY <1>1, <1>4, <1>8, <1>9, <1>10 DEF AtWork, Unbounded!exec_finish_no_change, Unbounded!Internal
<1> QED BY <1>11, ByCombiner DEF Unbounded!CombinerStep

(* Until it starts to apply the log, a replica has answered nothing that   *)
(* it has not yet recorded.                                                *)
LEMMA NothingAnswered ==
  ASSUME NodeInv, NEW r \in Replica, BatchPending(r), current_local_version(r) = local_versions[r]
  PROVE  Len(responses[r]) = 0
<1>1. PICK at \in Nat : Placement(r, at)
  BY NothingPending, Placements
<1>2. PICK i \in local_versions[r] + 1 .. Len(log) : log[i].node_id = r
  BY DEF BatchPending
<1>3. local_versions[r] \in Nat /\ NumOps(r) \in Nat /\ Len(log) = tail /\ tail \in Nat
  BY NodeTypes
<1>4. i \in 1 .. tail /\ i > local_versions[r]
  BY <1>2, <1>3
<1>5. i \in at + 1 .. at + NumOps(r)
  BY <1>1, <1>2, <1>4 DEF Placement
<1>6. local_versions[r] <= at
  BY <1>1, <1>3, <1>4, <1>5 DEF Placement
<1> QED BY <1>1, <1>6 DEF Placement, Applied

LEMMA ViewLoadExecTail_Work ==
  ASSUME NodeInv, NEW r \in Replica, AtWork(r), LoadExecTail_Work(r)
  PROVE  Unbounded!BatchNext
<1>1. /\ UNCHANGED <<log, tail, local_versions, version_upper_bound, replicas, operations, responses>>
      /\ pc[r] = "load_exec_tail" /\ pc'[r] = "wait_alive"
      /\ ex'[r].local_version = ex[r].local_version /\ ex'[r].caller = ex[r].caller
      /\ ex'[r].global_tail = tail
  BY NodeTypes DEF LoadExecTail_Work, At, Goto, shared, Executes
<1>2. ex[r].local_version = local_versions[r] /\ current_local_version(r) = local_versions[r]
  BY <1>1, NodeTypes DEF Version, LoopPCs
<1>3. /\ current_local_version(r)' = current_local_version(r)
      /\ NotAppended(pc'[r], ex'[r]) <=> NotAppended(pc[r], ex[r])
  BY <1>1, <1>2 DEF current_local_version, LoopPCs, NotAppended
<1>4. unbounded_updates' = unbounded_updates
  BY <1>1, <1>3, QuietWork
<1>5. queued_ops(r)' = queued_ops(r)
  BY <1>1, PendingKept, QueueKept
<1>6. TokenOf(r) = Unbounded!LoadedLocalVersion(queued_ops(r), ex[r].local_version)
  BY <1>1, TokenCases DEF TokenOf
<1>7. TokenOf(r)' = Unbounded!Loop(queued_ops(r), ex[r].local_version, 0, tail)
  <2>1. queued_ops(r) # << >> => Len(responses'[r]) = 0
    BY <1>1, <1>2, NothingAnswered DEF queued_ops
  <2>2. (IF queued_ops(r) = << >> THEN 0 ELSE Len(responses'[r])) = 0
    BY <2>1
  <2> QED BY <1>1, <1>5, <2>2, TokenCases, TokenIs
<1>8. Unbounded!Become(r, Unbounded!Loop(queued_ops(r), ex[r].local_version, 0, tail))
  BY <1>1, <1>7, CombinerMoves, PendingElsewhere DEF AtWork
<1>9. /\ Unbounded!Combining(r, "LoadedLocalVersion") /\ unbounded_combiners[r].lversion = ex[r].local_version
      /\ unbounded_combiners[r].queued_ops = queued_ops(r)
  BY <1>6, TokenIs DEF Unbounded!Combining, Unbounded!LoadedLocalVersion
<1>10. unbounded_log' = unbounded_log
  BY <1>1 DEF unbounded_log
<1>11. Unbounded!exec_load_global_head(r)
  BY <1>1, <1>4, <1>8, <1>9, <1>10 DEF AtWork, Unbounded!exec_load_global_head, Unbounded!Internal
<1> QED BY <1>11, ByCombiner DEF Unbounded!CombinerStep

LEMMA ViewWaitAlive ==
  ASSUME NodeInv, NEW r \in Replica, AtWork(r), WaitAlive(r)
  PROVE  Unbounded!BatchNext
<1>1. /\ UNCHANGED <<log, tail, local_versions, version_upper_bound, replicas, operations, responses, ex>>
      /\ pc[r] = "wait_alive" /\ pc'[r] = "dispatch"
  BY NodeTypes DEF WaitAlive, At, Goto, shared
<1>2. /\ current_local_version(r)' = current_local_version(r)
      /\ NotAppended(pc'[r], ex'[r]) <=> NotAppended(pc[r], ex[r])
  BY <1>1 DEF current_local_version, LoopPCs, NotAppended
<1>3. unbounded_updates' = unbounded_updates
  BY <1>1, <1>2, QuietWork
<1>4. queued_ops(r)' = queued_ops(r)
  BY <1>1, PendingKept, QueueKept
<1>5. TokenOf(r)' = TokenOf(r)
  BY <1>1, <1>4, TokenIs, TokenCases DEF TokenOf
<1> QED BY <1>1, <1>3, <1>5, Oob

LEMMA ViewBump ==
  ASSUME NodeInv, NEW r \in Replica, AtWork(r), BumpVersionUpperBound(r)
  PROVE  Unbounded!BatchNext
<1>1. /\ UNCHANGED <<log, tail, local_versions, replicas, operations, responses, ex>>
      /\ pc[r] = "bump_version" /\ pc'[r] = "store_version"
      /\ version_upper_bound' =
           IF ex[r].global_tail > version_upper_bound THEN ex[r].global_tail ELSE version_upper_bound
  BY NodeTypes DEF BumpVersionUpperBound, At, Goto, shared
<1>2. /\ current_local_version(r)' = current_local_version(r)
      /\ NotAppended(pc'[r], ex'[r]) <=> NotAppended(pc[r], ex[r])
  BY <1>1 DEF current_local_version, LoopPCs, NotAppended
<1>3. unbounded_updates' = unbounded_updates
  BY <1>1, <1>2, QuietWork
<1>4. queued_ops(r)' = queued_ops(r)
  BY <1>1, PendingKept, QueueKept
<1> DEFINE idx == IF queued_ops(r) = << >> THEN 0 ELSE Len(responses[r])
<1>5. TokenOf(r) = Unbounded!Loop(queued_ops(r), ex[r].local_version, idx, ex[r].global_tail)
  BY <1>1, TokenCases DEF TokenOf
<1>6. TokenOf(r)' = Unbounded!UpdatedVersion(queued_ops(r), ex[r].global_tail)
  BY <1>1, <1>4, TokenCases, TokenIs
<1>7. Unbounded!Become(r, Unbounded!UpdatedVersion(queued_ops(r), ex[r].global_tail))
  BY <1>1, <1>6, CombinerMoves, PendingElsewhere DEF AtWork
<1>8. /\ Unbounded!Combining(r, "Loop") /\ unbounded_combiners[r].lversion = ex[r].local_version
      /\ unbounded_combiners[r].queued_ops = queued_ops(r)
      /\ unbounded_combiners[r].tail = ex[r].global_tail
  BY <1>5, TokenIs DEF Unbounded!Combining, Unbounded!Loop
<1>9. /\ ex[r].local_version = ex[r].global_tail /\ ex[r].global_tail \in Nat /\ version_upper_bound \in Nat
  BY <1>1, NodeTypes DEF Locals
<1>10. unbounded_log' = unbounded_log
  BY <1>1 DEF unbounded_log
<1>11. version_upper_bound' =
         IF version_upper_bound >= ex[r].global_tail THEN version_upper_bound ELSE ex[r].global_tail
  BY <1>1, <1>9
<1>12. Unbounded!exec_update_version_upper_bound(r)
  BY <1>1, <1>3, <1>7, <1>8, <1>9, <1>10, <1>11
     DEF AtWork, Unbounded!exec_update_version_upper_bound, Unbounded!Internal
<1> QED BY <1>12, ByCombiner DEF Unbounded!CombinerStep

LEMMA ViewStoreLocalVersion ==
  ASSUME NodeInv, NEW r \in Replica, AtWork(r), StoreLocalVersion(r)
  PROVE  Unbounded!BatchNext
<1>1. /\ UNCHANGED <<log, tail, version_upper_bound, replicas, operations, responses>>
      /\ pc[r] = "store_version" /\ pc'[r] = ex[r].caller /\ ex'[r] = NoExecute
      /\ local_versions' = [local_versions EXCEPT ![r] = ex[r].global_tail]
      /\ local_versions'[r] = ex[r].global_tail
  BY NodeTypes DEF StoreLocalVersion, ReturnFromExecute, At, Goto, shared
<1>2. pc'[r] \in {"load_tail", "load_global_head", "done"}
  BY <1>1, NodeTypes DEF Locals, Executes, ExecutePCs, LoopPCs
<1>3. /\ current_local_version(r)' = current_local_version(r)
      /\ NotAppended(pc'[r], ex'[r]) <=> NotAppended(pc[r], ex[r])
  <2>1. ex[r].local_version = ex[r].global_tail
    BY <1>1, NodeTypes DEF Locals
  <2> QED BY <1>1, <1>2, <2>1 DEF current_local_version, LoopPCs, NotAppended, NoExecute
<1>4. unbounded_updates' = unbounded_updates
  BY <1>1, <1>3, QuietWork
<1>5. queued_ops(r)' = << >>
  <2>1. \A i \in ex[r].global_tail + 1 .. tail : log[i].node_id # r
    BY <1>1, NothingPending DEF LoopPCs
  <2>2. ~BatchPending(r)'
    BY <1>1, <2>1, NodeTypes DEF BatchPending
  <2> QED BY <2>2 DEF queued_ops
<1>6. TokenOf(r) = Unbounded!UpdatedVersion(queued_ops(r), ex[r].global_tail)
  BY <1>1, TokenCases DEF TokenOf
<1>7. TokenOf(r)' = Unbounded!Ready
  <2>1. pc'[r] \notin ExecutePCs
    BY <1>2 DEF ExecutePCs, LoopPCs
  <2> QED BY <1>5, <2>1, TokenCases, TokenIs
<1>8. Unbounded!Become(r, Unbounded!Ready)
  BY <1>1, <1>7, CombinerMoves, PendingElsewhere DEF AtWork
<1>9. Unbounded!Combining(r, "UpdatedVersion") /\ unbounded_combiners[r].tail = ex[r].global_tail
  BY <1>6, TokenIs DEF Unbounded!Combining, Unbounded!UpdatedVersion
<1>10. unbounded_log' = unbounded_log
  BY <1>1 DEF unbounded_log
<1>11. Unbounded!exec_finish(r)
  BY <1>1, <1>4, <1>8, <1>9, <1>10 DEF AtWork, Unbounded!exec_finish, Unbounded!Internal
<1> QED BY <1>11, ByCombiner DEF Unbounded!CombinerStep

-----------------------------------------------------------------------------
(* The next entry of the log is applied *)

(* Where the next entry is, and that it may be applied. *)
LEMMA Dispatching ==
  ASSUME NodeInv, NEW r \in Replica, AtWork(r), DispatchEntry(r)
  PROVE  LET v     == ex[r].local_version
             entry == log[v + 1]
         IN  /\ UNCHANGED <<log, tail, local_versions, version_upper_bound, operations>>
             /\ pc[r] = "dispatch" /\ pc'[r] \in {"wait_alive", "bump_version"}
             /\ v \in Nat /\ v < ex[r].global_tail /\ v + 1 \in 1 .. tail
             /\ local_versions[r] <= v /\ local_versions[r] \in Nat
             /\ entry \in Entry
             /\ ex'[r].local_version = v + 1 /\ ex'[r].caller = ex[r].caller
             /\ ex'[r].global_tail = ex[r].global_tail
             /\ replicas' = [replicas EXCEPT ![r] = dispatch_mut_spec(replicas[r], entry.op).view]
             /\ responses'[r] = IF entry.node_id = r
                                THEN Append(responses[r], dispatch_mut_spec(replicas[r], entry.op).ret)
                                ELSE responses[r]
<1> DEFINE v == ex[r].local_version
           entry == log[v + 1]
<1>1. pc[r] = "dispatch" /\ pc[r] \in LoopPCs
  BY DEF DispatchEntry, At, LoopPCs
<1>2. /\ v \in Nat /\ v < ex[r].global_tail /\ ex[r].global_tail <= tail
      /\ ex[r].global_tail \in Nat /\ tail \in Nat /\ log \in Seq(Entry) /\ Len(log) = tail
      /\ local_versions[r] <= v /\ local_versions[r] \in Nat
  BY <1>1, NodeTypes DEF Locals
<1>3. v + 1 \in 1 .. tail /\ entry \in Entry
  BY <1>2
<1>4. slog[index(v)].log_entry = entry
  <2>1. ControlInv /\ LogInv
    BY DEF NodeInv, SystemInv
  <2>2. v \in interp_contents
    BY <1>1, <2>1, Holding
  <2> QED BY <1>2, <2>1, <2>2 DEF LogInv, CellsOK
<1> HIDE DEF entry
<1>5. /\ replicas' = [replicas EXCEPT ![r] = dispatch_mut_spec(replicas[r], entry.op).view]
      /\ responses' = IF entry.node_id = r
                      THEN [responses EXCEPT ![r] = Append(@, dispatch_mut_spec(replicas[r], entry.op).ret)]
                      ELSE responses
      /\ ex' = [ex EXCEPT ![r].local_version = @ + 1]
      /\ pc' = [pc EXCEPT ![r] = IF v + 1 < ex[r].global_tail THEN "wait_alive" ELSE "bump_version"]
      /\ UNCHANGED <<log, tail, local_versions, version_upper_bound, operations>>
  BY <1>4 DEF DispatchEntry, Goto, shared
<1>6. responses \in [Replica -> Seq(Seq(AllOps))]
  BY NodeTypes DEF AnswerTyped
<1>7. /\ pc'[r] \in {"wait_alive", "bump_version"}
      /\ ex'[r].local_version = v + 1 /\ ex'[r].caller = ex[r].caller
      /\ ex'[r].global_tail = ex[r].global_tail
  BY <1>5, NodeTypes DEF Executes
<1>8. responses'[r] = IF entry.node_id = r
                      THEN Append(responses[r], dispatch_mut_spec(replicas[r], entry.op).ret)
                      ELSE responses[r]
  BY <1>5, <1>6
<1> QED BY <1>1, <1>2, <1>3, <1>5, <1>7, <1>8 DEF entry

(* An update in the log that waits for its answer is in its combiner's     *)
(* batch.                                                                  *)
LEMMA WaitingUpdate ==
  ASSUME NodeInv, NEW r \in Replica, NEW u \in Thread, InLog(<<r, u>>), atomic[r][u] # 0
  PROVE  \E x \in 1 .. NumOps(r) : operations[r][x] = <<r, u>>
<1>1. InBatch(r, u) /\ pc[r] # "ready"
  BY InLogIs DEF NotAppended
<1> QED BY <1>1, BatchOf

(* An update keeps its token when its replica goes from version v to w, if *)
(* its place is not between them, and its answer stays.                    *)
LEMMA PassedBy ==
  ASSUME NEW rid, NEW place, NEW waiting, NEW ret, NEW v, NEW w, NEW ops, NEW answers, NEW more,
         place < v <=> place < w,
         place < v => answers[CHOOSE k \in DOMAIN ops : ops[k] = rid] = more[CHOOSE k \in DOMAIN ops : ops[k] = rid],
         NEW in_log
  PROVE  UpdateToken(rid, in_log, place, waiting, ret, v, ops, answers)
           = UpdateToken(rid, in_log, place, waiting, ret, w, ops, more)
<1> DEFINE k == CHOOSE k \in DOMAIN ops : ops[k] = rid
<1>1. place < v => answers[k] = more[k]
  OBVIOUS
<1> HIDE DEF k
<1>2. UpdateToken(rid, in_log, place, waiting, ret, v, ops, answers) =
        CASE ~in_log -> [state |-> "Init", op |-> rid]
          [] in_log /\ waiting = 0 -> [state |-> "Done", ret |-> ret, idx |-> place]
          [] in_log /\ waiting # 0 /\ place < v -> [state |-> "Applied", ret |-> answers[k], idx |-> place]
          [] OTHER -> [state |-> "Placed", op |-> rid, idx |-> place]
  BY DEF UpdateToken, k
<1>3. UpdateToken(rid, in_log, place, waiting, ret, w, ops, more) =
        CASE ~in_log -> [state |-> "Init", op |-> rid]
          [] in_log /\ waiting = 0 -> [state |-> "Done", ret |-> ret, idx |-> place]
          [] in_log /\ waiting # 0 /\ place < w -> [state |-> "Applied", ret |-> more[k], idx |-> place]
          [] OTHER -> [state |-> "Placed", op |-> rid, idx |-> place]
  BY DEF UpdateToken, k
<1> QED BY <1>1, <1>2, <1>3

LEMMA AppendKeeps ==
  ASSUME NEW S, NEW s \in Seq(S), NEW y
  PROVE  /\ Len(Append(s, y)) = Len(s) + 1 /\ Append(s, y)[Len(s) + 1] = y
         /\ \A x \in 1 .. Len(s) : Append(s, y)[x] = s[x]
<1> DEFINE T == S \cup {y}
<1>1. s \in Seq(T) /\ y \in T
  OBVIOUS
<1> HIDE DEF T
<1> QED BY <1>1, AppendProperties

(* What the dispatch of the entry at v leaves of the other updates of r.   *)
LEMMA OthersOfBatch ==
  ASSUME NodeInv, NEW r \in Replica, AtWork(r), DispatchEntry(r), NEW u \in Thread,
         log[ex[r].local_version + 1].op # <<r, u>>
  PROVE  unbounded_update(<<r, u>>)' = unbounded_update(<<r, u>>)
<1> DEFINE v == ex[r].local_version
<1>1. /\ log' = log /\ pc[r] = "dispatch" /\ pc'[r] \in {"wait_alive", "bump_version"}
      /\ v \in Nat /\ v + 1 \in 1 .. tail /\ ex'[r].local_version = v + 1 /\ ex'[r].caller = ex[r].caller
      /\ operations' = operations /\ atomic' = atomic /\ resp' = resp
      /\ num_ops' = num_ops /\ thread_idx' = thread_idx
      /\ \/ responses'[r] = responses[r]
         \/ responses'[r] = Append(responses[r], dispatch_mut_spec(replicas[r], log[v + 1].op).ret)
  BY Dispatching DEF AtWork
<1>2. current_local_version(r) = v /\ current_local_version(r)' = v + 1
  BY <1>1 DEF current_local_version, LoopPCs
<1>3. /\ InLog(<<r, u>>)' <=> InLog(<<r, u>>)
      /\ Position(<<r, u>>)' = Position(<<r, u>>)
  BY <1>1, InLogIs, PositionKept DEF InBatch, NotAppended
<1>4. CASE ~(InLog(<<r, u>>) /\ atomic[r][u] # 0)
  BY <1>1, <1>3, <1>4, UpdateKept
<1>5. CASE InLog(<<r, u>>) /\ atomic[r][u] # 0
  <2>1. PICK x \in 1 .. NumOps(r) : operations[r][x] = <<r, u>>
    BY <1>5, WaitingUpdate
  <2>2. PICK at \in Nat : Placement(r, at)
    <3>1. ~NotAppended(pc[r], ex[r])
      BY <1>5, InLogIs
    <3> QED BY <3>1, Placements
  <2>3. /\ Position(<<r, u>>) = at + x /\ log[at + x] = [op |-> <<r, u>>, node_id |-> r]
        /\ Len(responses[r]) = Applied(v, at, NumOps(r))
    BY <1>2, <2>1, <2>2 DEF Placement
  <2>4. NumOps(r) \in Nat /\ x \in Nat /\ responses[r] \in Seq(Seq(AllOps)) /\ DOMAIN operations[r] = 1 .. NumOps(r)
    BY NodeTypes
  <2>5. at + x # v + 1
    <3>1. log[at + x].op = <<r, u>>
      BY <2>3
    <3> QED BY <3>1
  <2>6. at + x - 1 < v <=> at + x - 1 < v + 1
    <3>1. v \in Nat /\ at \in Nat /\ x \in Nat
      BY <1>1, <2>2, <2>4
    <3> HIDE DEF v
    <3> QED BY <2>5, <3>1
  <2>7. (CHOOSE k \in DOMAIN operations[r] : operations[r][k] = <<r, u>>) = x
    <3>1. \A y, z \in 1 .. NumOps(r) : operations[r][y] = operations[r][z] => y = z
      BY BatchOf
    <3>2. \A k \in DOMAIN operations[r] : operations[r][k] = <<r, u>> <=> k = x
      BY <2>1, <2>4, <3>1
    <3> QED BY <2>4, <3>2
  <2>8. at + x - 1 < v => responses[r][x] = responses'[r][x]
    <3>1. CASE at + x - 1 < v
      <4>1. x \in 1 .. Len(responses[r])
        <5>1. /\ v \in Nat /\ at \in Nat /\ x \in Nat /\ NumOps(r) \in Nat /\ x \in 1 .. NumOps(r)
              /\ Len(responses[r]) = Applied(v, at, NumOps(r))
          BY <1>1, <2>1, <2>2, <2>3, <2>4
        <5> HIDE DEF v
        <5> QED BY <3>1, <5>1 DEF Applied
      <4>2. \A y : Append(responses[r], y)[x] = responses[r][x]
        <5>1. responses[r] \in Seq(Seq(AllOps))
          BY <2>4
        <5> QED BY <4>1, <5>1, AppendKeeps
      <4> QED BY <1>1, <4>2
    <3> QED BY <3>1
  <2>9. UpdateOf(r, u) = UpdateToken(<<r, u>>, InLog(<<r, u>>), at + x - 1, atomic[r][u], resp[r][u],
                                     v, operations[r], responses[r])
    BY <1>2, <2>3 DEF UpdateOf
  <2>10. UpdateOf(r, u)' = UpdateToken(<<r, u>>, InLog(<<r, u>>), at + x - 1, atomic[r][u], resp[r][u],
                                      v + 1, operations[r], responses'[r])
    <3>1. UpdateOf(r, u)' = UpdateToken(<<r, u>>, InLog(<<r, u>>)', Position(<<r, u>>)' - 1, atomic'[r][u],
                                        resp'[r][u], current_local_version(r)', operations'[r], responses'[r])
      BY DEF UpdateOf, UpdateToken
    <3>2. InLog(<<r, u>>)' = InLog(<<r, u>>)
      BY <1>3 DEF InLog
    <3> QED BY <1>1, <1>2, <1>3, <2>3, <3>1, <3>2
  <2> DEFINE place == at + x - 1
             w == v + 1
             a == responses[r]
             b == responses'[r]
             ops == operations[r]
             rid == <<r, u>>
             in_log == InLog(<<r, u>>)
             waiting == atomic[r][u]
             ret == resp[r][u]
  <2>11. UpdateToken(rid, in_log, place, waiting, ret, v, ops, a) = UpdateToken(rid, in_log, place, waiting, ret, w, ops, b)
    <3>1. /\ place < v <=> place < w
          /\ place < v => a[CHOOSE k \in DOMAIN ops : ops[k] = rid] = b[CHOOSE k \in DOMAIN ops : ops[k] = rid]
      BY <2>6, <2>7, <2>8
    <3> HIDE DEF place, v, w, a, b, ops, rid, in_log, waiting, ret
    <3> QED BY <3>1, PassedBy
  <2> QED BY <2>9, <2>10, <2>11, UpdateIs
<1> QED BY <1>4, <1>5

LEMMA SameNextUpdates ==
  ASSUME NodeInv, NEW r \in Replica, AtWork(r), DispatchEntry(r),
         NEW t \in Thread, NEW new, unbounded_update(<<r, t>>)' = new, <<r, t>> \in Updating,
         \A u \in Thread : u # t => log[ex[r].local_version + 1].op # <<r, u>>
  PROVE  unbounded_updates' = [unbounded_updates EXCEPT ![<<r, t>>] = new]
<1>1. Updating' = Updating /\ Updating \subseteq Request
  BY DEF AtWork, Updating, Request
<1>2. ASSUME NEW q \in Replica, NEW u \in Thread, <<q, u>> # <<r, t>>
      PROVE  unbounded_update(<<q, u>>)' = unbounded_update(<<q, u>>)
  <2>1. CASE q = r
    <3>1. u # t
      BY <1>2, <2>1
    <3> QED BY <2>1, <3>1, OthersOfBatch
  <2>2. CASE q # r
    <3>1. q \in Replica \ {r} /\ log' = log
      BY <2>2, Dispatching
    <3> QED BY <3>1, UpdatesElsewhere DEF AtWork
  <2> QED BY <2>1, <2>2
<1> DEFINE rid == <<r, t>>
<1>3. unbounded_update(rid)' = new /\ rid \in Updating
  OBVIOUS
<1>4. \A x \in Updating : x # rid => unbounded_update(x)' = unbounded_update(x)
  BY <1>1, <1>2, Pairs
<1> HIDE DEF rid
<1>5. unbounded_updates' = [unbounded_updates EXCEPT ![rid] = new]
  BY <1>1, <1>3, <1>4 DEF unbounded_updates
<1> QED BY <1>5 DEF rid

(* The token of r's combiner at an entry. *)
LEMMA AtEntry ==
  ASSUME NodeInv, NEW r \in Replica, AtWork(r), DispatchEntry(r)
  PROVE  LET v     == ex[r].local_version
             queue == queued_ops(r)
             c     == unbounded_combiners[r]
         IN  /\ Unbounded!Combining(r, "Loop")
             /\ c.queued_ops = queue /\ c.lversion = v /\ c.tail = ex[r].global_tail
             /\ c.idx = IF queue = << >> THEN 0 ELSE Len(responses[r])
             /\ unbounded_log' = unbounded_log /\ unbounded_log[v] = log[v + 1]
             /\ Unbounded!Become(r, Unbounded!Loop(queue, v + 1,
                                      IF queue = << >> THEN 0 ELSE Len(responses'[r]), ex[r].global_tail))
<1> DEFINE v == ex[r].local_version
           queue == queued_ops(r)
           idx == IF queue = << >> THEN 0 ELSE Len(responses[r])
           idx1 == IF queue = << >> THEN 0 ELSE Len(responses'[r])
<1>1. /\ log' = log /\ pc[r] = "dispatch" /\ pc'[r] \in {"wait_alive", "bump_version"}
      /\ local_versions' = local_versions /\ operations' = operations
      /\ v \in Nat /\ v + 1 \in 1 .. tail /\ ex'[r].local_version = v + 1
      /\ ex'[r].global_tail = ex[r].global_tail
  BY Dispatching
<1>2. queued_ops(r)' = queue
  BY <1>1, PendingKept, QueueKept
<1>3. TokenOf(r) = Unbounded!Loop(queue, v, idx, ex[r].global_tail)
  BY <1>1, TokenCases DEF TokenOf
<1>4. TokenOf(r)' = Unbounded!Loop(queue, v + 1, idx1, ex[r].global_tail)
  BY <1>1, <1>2, TokenCases, TokenIs
<1>5. Unbounded!Become(r, Unbounded!Loop(queue, v + 1, idx1, ex[r].global_tail))
  BY <1>1, <1>4, CombinerMoves, PendingElsewhere DEF AtWork
<1>6. unbounded_log' = unbounded_log /\ unbounded_log[v] = log[v + 1]
  <2>1. Len(log) = tail /\ tail \in Nat
    BY NodeTypes
  <2>2. v \in 0 .. Len(log) - 1
    BY <1>1, <2>1
  <2> QED BY <1>1, <2>2 DEF unbounded_log
<1>7. unbounded_combiners[r] = Unbounded!Loop(queue, v, idx, ex[r].global_tail)
  BY <1>3, TokenIs
<1> QED BY <1>5, <1>6, <1>7 DEF Unbounded!Combining, Unbounded!Loop

LEMMA ViewDispatchRemote ==
  ASSUME NodeInv, NEW r \in Replica, AtWork(r), DispatchEntry(r), log[ex[r].local_version + 1].node_id # r
  PROVE  Unbounded!BatchNext
<1> DEFINE v == ex[r].local_version
           entry == log[v + 1]
           out == dispatch_mut_spec(replicas[r], entry.op)
<1>1. /\ UNCHANGED <<log, tail, local_versions, version_upper_bound>>
      /\ v < ex[r].global_tail /\ entry \in Entry
      /\ replicas' = [replicas EXCEPT ![r] = out.view]
      /\ responses'[r] = responses[r]
  BY Dispatching
<1>2. entry.op[1] # r
  BY <1>1, EntryOps
<1>3. \A u \in Thread : entry.op # <<r, u>>
  BY <1>2
<1>4. unbounded_updates' = unbounded_updates
  <2>1. ASSUME NEW q \in Replica, NEW u \in Thread
        PROVE  unbounded_update(<<q, u>>)' = unbounded_update(<<q, u>>)
    <3>1. CASE q = r
      BY <1>3, <3>1, OthersOfBatch
    <3>2. CASE q # r
      <4>1. q \in Replica \ {r}
        BY <3>2
      <4> QED BY <1>1, <4>1, UpdatesElsewhere DEF AtWork
    <3> QED BY <3>1, <3>2
  <2> QED BY <2>1, SameUpdates DEF AtWork
<1> DEFINE c == unbounded_combiners[r]
<1>5. /\ Unbounded!Combining(r, "Loop")
      /\ c.lversion = v /\ c.tail = ex[r].global_tail
      /\ unbounded_log' = unbounded_log /\ unbounded_log[v] = entry
      /\ Unbounded!Become(r, Unbounded!Loop(c.queued_ops, v + 1, c.idx, c.tail))
  BY <1>1, AtEntry
<1>6. /\ unbounded_reads' = unbounded_reads /\ label' = [kind |-> "Internal"]
  BY DEF AtWork
<1> HIDE DEF v, entry, c
<1>7. Unbounded!exec_dispatch_remote(r)
  <2>1. out = Unbounded!dispatch_mut_spec(replicas[r], entry.op)
    BY DEF dispatch_mut_spec, Unbounded!dispatch_mut_spec
  <2>2. entry.node_id # r
    BY DEF entry, v
  <2> HIDE DEF out
  <2> QED BY <1>1, <1>4, <1>5, <1>6, <2>1, <2>2 DEF Unbounded!exec_dispatch_remote, Unbounded!Internal, c
<1> QED BY <1>7, ByCombiner DEF Unbounded!CombinerStep

LEMMA ViewDispatchLocal ==
  ASSUME NodeInv, NEW r \in Replica, AtWork(r), DispatchEntry(r), log[ex[r].local_version + 1].node_id = r
  PROVE  Unbounded!BatchNext
<1> DEFINE v == ex[r].local_version
           entry == log[v + 1]
           out == dispatch_mut_spec(replicas[r], entry.op)
           ops == operations[r]
<1>1. /\ UNCHANGED <<log, tail, local_versions, version_upper_bound>>
      /\ v \in Nat /\ v + 1 \in 1 .. tail /\ v < ex[r].global_tail
      /\ local_versions[r] <= v /\ local_versions[r] \in Nat /\ pc[r] = "dispatch"
      /\ pc'[r] \in {"wait_alive", "bump_version"} /\ ex'[r].caller = ex[r].caller
      /\ replicas' = [replicas EXCEPT ![r] = out.view]
      /\ responses'[r] = Append(responses[r], out.ret)
      /\ ex'[r].local_version = v + 1 /\ operations' = operations
  BY Dispatching
<1>2. /\ Len(log) = tail /\ tail \in Nat /\ NumOps(r) = Len(ops) /\ NumOps(r) \in Nat
      /\ ops \in Seq(AllOps) /\ responses[r] \in Seq(Seq(AllOps))
      /\ current_local_version(r) = v /\ current_local_version(r)' = v + 1
  BY <1>1, NodeTypes DEF current_local_version, LoopPCs
<1>3. BatchPending(r)
  <2>1. v + 1 \in local_versions[r] + 1 .. Len(log)
    BY <1>1, <1>2
  <2> QED BY <2>1 DEF BatchPending
<1>4. PICK at \in Nat : Placement(r, at)
  BY <1>3, NothingPending, Placements
<1>5. /\ \A x \in 1 .. NumOps(r) :
            log[at + x] = [op |-> ops[x], node_id |-> r] /\ Position(ops[x]) = at + x
      /\ v + 1 \in at + 1 .. at + NumOps(r)
      /\ Len(responses[r]) = Applied(v, at, NumOps(r))
  <2>1. /\ \A x \in 1 .. NumOps(r) :
              log[at + x] = [op |-> ops[x], node_id |-> r] /\ Position(ops[x]) = at + x
        /\ \A i \in 1 .. tail : log[i].node_id = r /\ i > local_versions[r] => i \in at + 1 .. at + NumOps(r)
        /\ Len(responses[r]) = Applied(current_local_version(r), at, NumOps(r))
    BY <1>4 DEF Placement
  <2>2. v + 1 > local_versions[r]
    <3>1. v \in Nat /\ local_versions[r] \in Nat /\ local_versions[r] <= v
      BY <1>1
    <3> HIDE DEF v
    <3> QED BY <3>1
  <2>3. v + 1 \in 1 .. tail /\ log[v + 1].node_id = r
    BY <1>1
  <2> HIDE DEF v, ops, out
  <2> QED BY <1>2, <2>1, <2>2, <2>3
<1>6. PICK k \in 1 .. NumOps(r) : v + 1 = at + k /\ Len(responses[r]) = k - 1
  <2>1. v \in Nat /\ at \in Nat /\ NumOps(r) \in Nat /\ v + 1 \in at + 1 .. at + NumOps(r)
    BY <1>1, <1>2, <1>4, <1>5
  <2>2. /\ v + 1 - at \in 1 .. NumOps(r) /\ v + 1 = at + (v + 1 - at)
        /\ at <= v /\ v < at + NumOps(r)
    <3> HIDE DEF v
    <3> QED BY <2>1
  <2>3. Applied(v, at, NumOps(r)) = (v + 1 - at) - 1
    <3> HIDE DEF v
    <3> QED BY <2>1, <2>2 DEF Applied
  <2> QED BY <1>5, <2>2, <2>3
<1>7. PICK t \in Thread : ops[k] = <<r, t>> /\ InBatch(r, t) /\ atomic[r][t] = 1 /\ <<r, t>> \in Updating
  BY <1>3, NothingPending, BatchOf
<1>8. entry.op = <<r, t>> /\ Position(<<r, t>>) = v + 1
  <2>1. entry = [op |-> ops[k], node_id |-> r] /\ Position(ops[k]) = v + 1
    BY <1>5, <1>6
  <2> QED BY <1>7, <2>1
<1>9. \A x \in DOMAIN ops : ops[x] = <<r, t>> <=> x = k
  <2>1. DOMAIN ops = 1 .. NumOps(r)
    BY <1>2
  <2>2. \A x, y \in 1 .. NumOps(r) : ops[x] = ops[y] => x = y
    BY BatchOf
  <2> HIDE DEF ops
  <2> QED BY <1>6, <1>7, <2>1, <2>2
<1>10. k \in DOMAIN ops /\ ops # << >>
  BY <1>2
<1> DEFINE rid == <<r, t>>
           new == Unbounded!UpdateApplied(out.ret, v)
<1>11. unbounded_update(rid)' = new
  <2>1. ~NotAppended(pc[r], ex[r])
    BY <1>3, NothingPending
  <2>2. ~NotAppended(pc'[r], ex'[r])
    BY <1>1, <2>1 DEF NotAppended
  <2>3. /\ atomic' = atomic /\ num_ops' = num_ops /\ thread_idx' = thread_idx
    BY DEF AtWork
  <2>4. InLog(<<r, t>>)'
    BY <1>7, <2>2, <2>3, InLogIs DEF InBatch
  <2>5. responses'[r][k] = out.ret
    <3> HIDE DEF out
    <3> QED BY <1>1, <1>2, <1>6, AppendKeeps
  <2>6. Position(<<r, t>>)' = v + 1
    BY <1>1, <1>8, PositionKept
  <2>7. UpdateOf(r, t)' = UpdateToken(<<r, t>>, InLog(<<r, t>>)', v + 1 - 1, atomic'[r][t],
                                        resp'[r][t], v + 1, ops, responses'[r])
    <3>1. UpdateOf(r, t)' = UpdateToken(<<r, t>>, InLog(<<r, t>>)', Position(<<r, t>>)' - 1, atomic'[r][t],
                                        resp'[r][t], current_local_version(r)', operations'[r], responses'[r])
      BY DEF UpdateOf, UpdateToken
    <3>2. operations'[r] = ops
      BY <1>1
    <3>3. Position(<<r, t>>)' - 1 = v + 1 - 1
      BY <1>1, <2>6
    <3>4. current_local_version(r)' = v + 1
      BY <1>2
    <3> HIDE DEF ops, v
    <3> QED BY <3>1, <3>2, <3>3, <3>4
  <2>8. InLog(<<r, t>>)' = TRUE /\ v + 1 - 1 = v /\ v < v + 1 /\ atomic'[r][t] # 0
    BY <1>1, <1>7, <2>3, <2>4 DEF InLog
  <2>9. (CHOOSE x \in DOMAIN ops : ops[x] = <<r, t>>) = k
    BY <1>9, <1>10
  <2>10. UpdateOf(r, t)' = new
    <3> HIDE DEF v, out, ops
    <3> QED BY <2>5, <2>7, <2>8, <2>9 DEF UpdateToken, Unbounded!UpdateApplied
  <2> QED BY <2>10, UpdateIs
<1>12. unbounded_updates' = [unbounded_updates EXCEPT ![rid] = new]
  <2>1. \A u \in Thread : u # t => log[ex[r].local_version + 1].op # <<r, u>>
    BY <1>8
  <2>2. unbounded_update(<<r, t>>)' = new
    BY <1>11
  <2> HIDE DEF new
  <2> QED BY <1>7, <2>1, <2>2, SameNextUpdates
<1>13. queued_ops(r) = ops
  BY <1>3 DEF queued_ops
<1> DEFINE c == unbounded_combiners[r]
<1>14. Len(responses[r]) = k - 1 /\ Len(responses'[r]) = k
  <2> HIDE DEF out
  <2> QED BY <1>1, <1>2, <1>6, AppendKeeps
<1>15. /\ Unbounded!Combining(r, "Loop") /\ c.queued_ops = ops
       /\ c.lversion = v /\ c.tail = ex[r].global_tail /\ c.idx = k - 1
       /\ unbounded_log' = unbounded_log /\ unbounded_log[v] = entry
       /\ Unbounded!Become(r, Unbounded!Loop(ops, v + 1, k, ex[r].global_tail))
  BY <1>10, <1>13, <1>14, AtEntry
<1>16. /\ unbounded_reads' = unbounded_reads /\ label' = [kind |-> "Internal"]
  BY DEF AtWork
<1>17. k - 1 + 1 = k /\ ops[k] = rid /\ rid \in DOMAIN unbounded_updates /\ entry.node_id = r
  BY <1>2, <1>7 DEF unbounded_updates
<1>18. out = Unbounded!dispatch_mut_spec(replicas[r], entry.op)
  BY DEF dispatch_mut_spec, Unbounded!dispatch_mut_spec
<1> HIDE DEF v, entry, c, rid, ops, out
<1>19. Unbounded!exec_dispatch_local(r)
  BY <1>1, <1>12, <1>15, <1>16, <1>17, <1>18 DEF Unbounded!exec_dispatch_local, Unbounded!Internal, c, new
<1> QED BY <1>19, ByCombiner DEF Unbounded!CombinerStep

-----------------------------------------------------------------------------
(* A batch enters the log *)

(* What the reservation does. *)
Reserves(r) ==
  /\ pc[r] = "cas_tail" /\ pc'[r] = IF NumOps(r) = 0 THEN "append_return" ELSE "write_entry"
  /\ tail' = tail + NumOps(r) /\ tail + NumOps(r) < MAX_IDX
  /\ log' \in Seq(Entry) /\ Len(log') = tail + NumOps(r)
  /\ \A i \in 1 .. tail : log'[i] = log[i]
  /\ \A x \in 1 .. NumOps(r) : log'[tail + x] = [op |-> operations[r][x], node_id |-> r]
  /\ \A i \in 1 .. Len(log') : i > tail => \E x \in 1 .. NumOps(r) : i = tail + x
  /\ UNCHANGED <<local_versions, version_upper_bound, replicas, operations, responses, ex>>
  /\ NotAppended(pc[r], ex[r]) /\ ~NotAppended(pc'[r], ex'[r])
  /\ ~BatchPending(r)

LEMMA Appending ==
  ASSUME NodeInv, NEW r \in Replica, AtWork(r), CasTail(r)
  PROVE  Reserves(r)
<1>1. /\ pc[r] = "cas_tail" /\ pc'[r] = IF NumOps(r) = 0 THEN "append_return" ELSE "write_entry"
      /\ tail = ap[r].tail /\ tail' = new_tail(r)
      /\ UNCHANGED <<local_versions, version_upper_bound, replicas, operations, responses, ex>>
  BY NodeTypes DEF CasTail, At, Goto
<1>2. /\ log \in Seq(Entry) /\ Len(log) = tail /\ tail \in Nat /\ NumOps(r) \in Nat
      /\ NumOps(r) = Len(operations[r]) /\ Locals(pc[r], ap[r], ah[r], ex[r], NumOps(r))
  BY NodeTypes
<1>3. tail' = tail + NumOps(r) /\ tail + NumOps(r) < MAX_IDX
  BY <1>1, <1>2 DEF new_tail, Locals
<1>4. /\ log' \in Seq(Entry) /\ BatchAt(log', operations[r], tail, r)
      /\ \E m \in Seq(Entry) : log' = log \o m /\ Len(m) = NumOps(r)
  BY CasTailCells DEF NodeInv, SystemInv
<1>5. PICK m \in Seq(Entry) : log' = log \o m /\ Len(m) = NumOps(r)
  BY <1>4
<1>6. Len(log') = tail + NumOps(r) /\ \A i \in 1 .. tail : log'[i] = log[i]
  <2>1. /\ Len(log \o m) = Len(log) + Len(m)
        /\ \A i \in 1 .. Len(log) : (log \o m)[i] = log[i]
    BY <1>2, Concat
  <2> QED BY <1>2, <1>5, <2>1
<1>7. \A x \in 1 .. NumOps(r) : log'[tail + x] = [op |-> operations[r][x], node_id |-> r]
  BY <1>2, <1>4 DEF BatchAt
<1>8. ASSUME NEW i \in 1 .. Len(log'), i > tail PROVE \E x \in 1 .. NumOps(r) : i = tail + x
  <2>1. i - tail \in 1 .. NumOps(r) /\ i = tail + (i - tail)
    BY <1>2, <1>6, <1>8
  <2> QED BY <2>1
<1>9. NotAppended(pc[r], ex[r]) /\ ~NotAppended(pc'[r], ex'[r])
  <2>1. ex[r].caller = "none"
    BY <1>1, <1>2 DEF Locals, ExecutePCs, LoopPCs
  <2> QED BY <1>1, <2>1 DEF NotAppended
<1>10. ~BatchPending(r)
  BY <1>9, NothingPending
<1> QED BY <1>1, <1>3, <1>4, <1>6, <1>7, <1>8, <1>9, <1>10 DEF Reserves

LEMMA OldPosition ==
  ASSUME NodeInv, NEW r \in Replica, Reserves(r), NEW rid, \A x \in 1 .. NumOps(r) : operations[r][x] # rid
  PROVE  Position(rid)' = Position(rid)
<1>1. /\ log \in Seq(Entry) /\ Len(log) = tail /\ tail \in Nat /\ NumOps(r) \in Nat
  BY NodeTypes
<1>2. /\ log' \in Seq(Entry) /\ Len(log') = tail + NumOps(r)
      /\ \A i \in 1 .. tail : log'[i] = log[i]
  BY DEF Reserves
<1>3. ASSUME NEW i \in 1 .. Len(log'), i > tail PROVE log'[i].op # rid
  <2>1. PICK x \in 1 .. NumOps(r) : i = tail + x
    BY <1>3 DEF Reserves
  <2>2. log'[i] = [op |-> operations[r][x], node_id |-> r]
    BY <2>1 DEF Reserves
  <2>3. log'[i].op = operations[r][x]
    BY <2>2
  <2> QED BY <2>3
<1>4. ASSUME NEW i PROVE i \in LastPlace(log', rid) <=> i \in LastPlace(log, rid)
  <2>1. DOMAIN log = 1 .. tail /\ DOMAIN log' = 1 .. Len(log')
    BY <1>1, <1>2
  <2>2. ASSUME i \in LastPlace(log', rid) PROVE i \in LastPlace(log, rid)
    <3>1. i \in 1 .. Len(log') /\ log'[i].op = rid /\ \A j \in i + 1 .. Len(log') : log'[j].op # rid
      BY <2>1, <2>2 DEF LastPlace
    <3>2. i \in 1 .. tail
      BY <1>1, <1>2, <1>3, <3>1
    <3>3. \A j \in i + 1 .. Len(log) : log[j].op # rid
      <4> SUFFICES ASSUME NEW j \in i + 1 .. Len(log) PROVE log[j].op # rid
        OBVIOUS
      <4>1. j \in i + 1 .. Len(log') /\ j \in 1 .. tail
        BY <1>1, <1>2, <3>2
      <4> QED BY <1>2, <3>1, <4>1
    <3> QED BY <1>2, <2>1, <3>1, <3>2, <3>3 DEF LastPlace
  <2>3. ASSUME i \in LastPlace(log, rid) PROVE i \in LastPlace(log', rid)
    <3>1. i \in 1 .. tail /\ log[i].op = rid /\ \A j \in i + 1 .. tail : log[j].op # rid
      BY <1>1, <2>1, <2>3 DEF LastPlace
    <3>2. i \in 1 .. Len(log') /\ log'[i].op = rid
      BY <1>1, <1>2, <3>1
    <3>3. \A j \in i + 1 .. Len(log') : log'[j].op # rid
      <4> SUFFICES ASSUME NEW j \in i + 1 .. Len(log') PROVE log'[j].op # rid
        OBVIOUS
      <4>1. CASE j <= tail
        <5>1. j \in i + 1 .. tail /\ j \in 1 .. tail
          BY <1>1, <3>1, <4>1
        <5> QED BY <1>2, <3>1, <5>1
      <4>2. CASE ~(j <= tail)
        <5>1. j \in 1 .. Len(log') /\ j > tail
          BY <1>1, <1>2, <3>1, <4>2
        <5> QED BY <1>3, <5>1
      <4> QED BY <4>1, <4>2
    <3> QED BY <2>1, <3>2, <3>3 DEF LastPlace
  <2> QED BY <2>2, <2>3
<1>5. LastPlace(log', rid) = LastPlace(log, rid)
  <2>1. LastPlace(log', rid) \subseteq LastPlace(log, rid) /\ LastPlace(log, rid) \subseteq LastPlace(log', rid)
    BY <1>4
  <2> QED BY <2>1
<1> HIDE DEF LastPlace
<1>6. Position(rid)' = (CHOOSE i \in LastPlace(log', rid) : TRUE)
  BY DEF Position, LastPlace
<1> QED BY <1>5, <1>6 DEF Position

LEMMA NewPosition ==
  ASSUME NodeInv, NEW r \in Replica, Reserves(r), NEW x \in 1 .. NumOps(r)
  PROVE  Position(operations[r][x])' = tail + x
<1> DEFINE rid == operations[r][x]
<1>0. operations' = operations
  BY DEF Reserves
<1>1. tail \in Nat /\ NumOps(r) \in Nat
  BY NodeTypes
<1>2. /\ log' \in Seq(Entry) /\ Len(log') = tail + NumOps(r)
      /\ \A y \in 1 .. NumOps(r) : log'[tail + y] = [op |-> operations[r][y], node_id |-> r]
  BY DEF Reserves
<1>3. \A y \in 1 .. NumOps(r) : operations[r][y] = rid => y = x
  BY BatchOf
<1>4. ASSUME NEW i PROVE i \in LastPlace(log', rid) <=> i = tail + x
  <2>1. DOMAIN log' = 1 .. tail + NumOps(r) /\ tail + x \in 1 .. tail + NumOps(r)
    BY <1>1, <1>2
  <2>2. log'[tail + x].op = rid
    <3>1. log'[tail + x] = [op |-> operations[r][x], node_id |-> r]
      BY <1>2
    <3> QED BY <3>1
  <2>3. ASSUME NEW j \in tail + x + 1 .. Len(log'), log'[j].op = rid PROVE FALSE
    <3>1. j - tail \in 1 .. NumOps(r) /\ j = tail + (j - tail) /\ j - tail # x
      BY <1>1, <1>2
    <3>2. log'[j] = [op |-> operations[r][j - tail], node_id |-> r]
      BY <1>2, <3>1
    <3>3. log'[j].op = operations[r][j - tail]
      BY <3>2
    <3> QED BY <1>3, <2>3, <3>1, <3>3
  <2>4. ASSUME i \in LastPlace(log', rid) PROVE i = tail + x
    <3>1. i \in 1 .. tail + NumOps(r) /\ log'[i].op = rid /\ \A j \in i + 1 .. Len(log') : log'[j].op # rid
      BY <2>1, <2>4 DEF LastPlace
    <3>2. ~(i < tail + x)
      <4>1. i < tail + x => tail + x \in i + 1 .. Len(log')
        BY <1>1, <1>2, <2>1, <3>1
      <4> QED BY <2>2, <3>1, <4>1
    <3>3. ~(tail + x < i)
      <4>1. tail + x < i => i \in tail + x + 1 .. Len(log')
        BY <1>1, <1>2, <2>1, <3>1
      <4> QED BY <2>3, <3>1, <4>1
    <3> QED BY <1>1, <3>1, <3>2, <3>3
  <2>5. tail + x \in LastPlace(log', rid)
    BY <2>1, <2>2, <2>3 DEF LastPlace
  <2> QED BY <2>4, <2>5
<1>5. (CHOOSE i \in LastPlace(log', rid) : TRUE) = tail + x
  <2> HIDE DEF LastPlace, rid
  <2> QED BY <1>4
<1> QED BY <1>0, <1>5 DEF Position, LastPlace

(* The updates that do not enter the log now. *)
LEMMA NotEntering ==
  ASSUME NodeInv, NEW r \in Replica, AtWork(r), Reserves(r), NEW q \in Replica, NEW u \in Thread,
         \A x \in 1 .. NumOps(r) : operations[r][x] # <<q, u>>
  PROVE  unbounded_update(<<q, u>>)' = unbounded_update(<<q, u>>)
<1>1. Position(<<q, u>>)' = Position(<<q, u>>)
  BY OldPosition
<1>2. CASE q = r
  <2>1. NotAppended(pc[r], ex[r]) /\ pc[r] = "cas_tail"
    BY DEF Reserves
  <2>2. ~InBatch(r, u)
    <3>1. InBatch(r, u) => (pc[r] # "ready" => \E x \in 1 .. NumOps(r) : operations[r][x] = <<r, u>>)
      BY BatchOf
    <3> QED BY <1>2, <2>1, <3>1
  <2>3. ~InBatch(r, u)'
    BY <2>2 DEF InBatch, AtWork
  <2>4. (InLog(<<r, u>>) <=> atomic[r][u] = 0) /\ (InLog(<<r, u>>)' <=> atomic[r][u] = 0)
    BY <2>2, <2>3, InLogIs DEF AtWork
  <2> QED BY <1>1, <1>2, <2>4, UpdateKept DEF AtWork
<1>3. CASE q # r
  <2>1. q \in Replica \ {r}
    BY <1>3
  <2>2. /\ atomic'[q] = atomic[q] /\ resp'[q] = resp[q] /\ num_ops'[q] = num_ops[q]
        /\ thread_idx'[q] = thread_idx[q]
        /\ pc'[q] = pc[q] /\ ex'[q] = ex[q] /\ operations'[q] = operations[q]
        /\ responses'[q] = responses[q] /\ local_versions'[q] = local_versions[q]
    BY <2>1 DEF AtWork, ElsewhereSame, LogElsewhereSame
  <2>3. InLog(<<q, u>>)' <=> InLog(<<q, u>>)
    BY <2>2, InLogIs DEF InBatch
  <2>4. current_local_version(q)' = current_local_version(q)
    BY <2>2 DEF current_local_version
  <2> QED BY <1>1, <2>2, <2>3, <2>4, UpdateKept
<1> QED BY <1>2, <1>3

(* The updates that do. *)
LEMMA Entering ==
  ASSUME NodeInv, NEW r \in Replica, AtWork(r), Reserves(r), NEW x \in 1 .. NumOps(r)
  PROVE  LET rid == operations[r][x]
         IN  /\ rid \in Updating
             /\ unbounded_update(rid) = Unbounded!UpdateInit(rid)
             /\ unbounded_update(rid)' = Unbounded!UpdatePlaced(rid, tail + x - 1)
<1>1. pc[r] = "cas_tail" /\ NotAppended(pc[r], ex[r]) /\ ~NotAppended(pc'[r], ex'[r])
  BY DEF Reserves
<1>2. phase[r] = "log"
  BY <1>1, BatchOf
<1>3. PICK t \in Thread : operations[r][x] = <<r, t>> /\ InBatch(r, t) /\ atomic[r][t] = 1 /\ <<r, t>> \in Updating
  BY <1>2, BatchOf
<1>4. ~InLog(<<r, t>>)
  BY <1>1, <1>3, InLogIs
<1>5. InLog(<<r, t>>)'
  <2>1. InBatch(r, t)'
    BY <1>3 DEF InBatch, AtWork
  <2> QED BY <1>1, <2>1, InLogIs
<1>6. UpdateOf(r, t) = Unbounded!UpdateInit(<<r, t>>)
  BY <1>4 DEF UpdateOf, UpdateToken, Unbounded!UpdateInit
<1>7. Position(<<r, t>>)' = tail + x
  <2>1. Position(operations[r][x])' = tail + x /\ operations' = operations
    BY NewPosition DEF Reserves
  <2> QED BY <1>3, <2>1
<1>8. tail \in Nat /\ local_versions[r] <= tail /\ local_versions[r] \in Nat
  BY NodeTypes
<1>9. current_local_version(r)' = local_versions[r]
  BY <1>1 DEF current_local_version, LoopPCs, Reserves
<1>10. UpdateOf(r, t)' = Unbounded!UpdatePlaced(<<r, t>>, tail + x - 1)
  <2>1. UpdateOf(r, t)' = UpdateToken(<<r, t>>, InLog(<<r, t>>)', Position(<<r, t>>)' - 1, atomic'[r][t],
                                        resp'[r][t], current_local_version(r)', operations'[r], responses'[r])
    BY DEF UpdateOf, UpdateToken
  <2>2. /\ InLog(<<r, t>>)' = TRUE /\ Position(<<r, t>>)' - 1 = tail + x - 1 /\ atomic'[r][t] # 0
        /\ ~(tail + x - 1 < current_local_version(r)')
    BY <1>3, <1>5, <1>7, <1>8, <1>9 DEF InLog, AtWork
  <2> QED BY <2>1, <2>2 DEF UpdateToken, Unbounded!UpdatePlaced
<1>11. /\ unbounded_update(<<r, t>>) = Unbounded!UpdateInit(<<r, t>>)
       /\ unbounded_update(<<r, t>>)' = Unbounded!UpdatePlaced(<<r, t>>, tail + x - 1)
  BY <1>6, <1>10, UpdateIs
<1>12. operations' = operations
  BY DEF Reserves
<1> QED BY <1>3, <1>11, <1>12

(* Nothing to append: the reservation reserves nothing. *)
LEMMA ViewCasTailEmpty ==
  ASSUME NodeInv, NEW r \in Replica, AtWork(r), Reserves(r), NumOps(r) = 0
  PROVE  Unbounded!BatchNext
<1>1. /\ log \in Seq(Entry) /\ Len(log) = tail /\ tail \in Nat
  BY NodeTypes
<1>2. log' = log /\ tail' = tail
  <2>1. /\ log' \in Seq(Entry) /\ Len(log') = tail /\ tail' = tail
        /\ \A i \in 1 .. tail : log'[i] = log[i]
    BY <1>1 DEF Reserves
  <2>2. log = [i \in 1 .. tail |-> log[i]] /\ log' = [i \in 1 .. tail |-> log'[i]]
    BY <1>1, <2>1
  <2>3. [i \in 1 .. tail |-> log[i]] = [i \in 1 .. tail |-> log'[i]]
    BY <2>1
  <2> QED BY <2>1, <2>2, <2>3
<1>3. UNCHANGED <<tail, replicas, local_versions, version_upper_bound>>
  BY <1>2 DEF Reserves
<1>4. unbounded_updates' = unbounded_updates
  <2>1. ASSUME NEW q \in Replica, NEW u \in Thread
        PROVE  unbounded_update(<<q, u>>)' = unbounded_update(<<q, u>>)
    <3>1. \A x \in 1 .. NumOps(r) : operations[r][x] # <<q, u>>
      OBVIOUS
    <3> QED BY <3>1, NotEntering
  <2> QED BY <2>1, SameUpdates DEF AtWork
<1>5. TokenOf(r)' = TokenOf(r)
  <2>1. ~BatchPending(r) /\ ~BatchPending(r)'
    BY <1>2, <1>3, PendingKept DEF Reserves
  <2>2. queued_ops(r) = << >> /\ queued_ops(r)' = << >>
    BY <2>1 DEF queued_ops
  <2>3. pc[r] \notin ExecutePCs /\ pc'[r] \notin ExecutePCs
    BY DEF Reserves, ExecutePCs, LoopPCs
  <2>4. TokenOf(r) = Unbounded!Ready
    BY <2>2, <2>3, TokenCases DEF TokenOf
  <2>5. TokenOf(r)' = Unbounded!Ready
    BY <2>2, <2>3, TokenCases, TokenIs
  <2> QED BY <2>4, <2>5
<1> QED BY <1>2, <1>3, <1>4, <1>5, Oob

(* A list without repetitions has as many members as entries. *)
LEMMA Listed ==
  ASSUME NEW n \in Nat, NEW s, \A x, y \in 1 .. n : s[x] = s[y] => x = y
  PROVE  Cardinality({s[x] : x \in 1 .. n}) = n
<1> DEFINE listed == {s[x] : x \in 1 .. n}
           f == [x \in 1 .. n |-> s[x]]
<1>1. IsFiniteSet(1 .. n) /\ Cardinality(1 .. n) = n
  BY FS_Interval
<1>2. /\ f \in [1 .. n -> listed] /\ \A y \in listed : \E x \in 1 .. n : f[x] = y
      /\ \A x, y \in 1 .. n : f[x] = f[y] => x = y
  OBVIOUS
<1> HIDE DEF f, listed
<1>3. f \in Surjection(1 .. n, listed) /\ f \in Injection(1 .. n, listed)
  BY <1>2 DEF Surjection, Injection, IsInjective
<1>4. Cardinality(listed) = n
  BY <1>1, <1>3, FS_Surjection
<1> QED BY <1>4 DEF listed

LEMMA UnboundedCardinality == \A S : Unbounded!Cardinality(S) = Cardinality(S)
BY DEF Unbounded!Cardinality, Cardinality

(* The batch is one of the batches that may enter the log. *)
LEMMA BatchWaits ==
  ASSUME NodeInv, NEW r \in Replica, AtWork(r), Reserves(r), NumOps(r) # 0
  PROVE  LET ops == operations[r]
             added == {ops[i] : i \in DOMAIN ops}
         IN  /\ Cardinality(added) = Len(ops)
             /\ \A rid \in added : rid \in DOMAIN unbounded_updates /\ unbounded_updates[rid].state = "Init"
             /\ ops \in Unbounded!Batches
<1> DEFINE ops == operations[r]
           added == {ops[i] : i \in DOMAIN ops}
           fresh == {rid \in DOMAIN unbounded_updates : unbounded_updates[rid].state = "Init"}
<1>1. ops \in Seq(AllOps) /\ NumOps(r) = Len(ops) /\ NumOps(r) \in Nat /\ DOMAIN ops = 1 .. NumOps(r)
  BY NodeTypes
<1>2. \A x, y \in 1 .. NumOps(r) : ops[x] = ops[y] => x = y
  BY BatchOf
<1>3. ASSUME NEW x \in 1 .. NumOps(r) PROVE ops[x] \in fresh
  <2>1. ops[x] \in Updating /\ unbounded_update(ops[x]) = Unbounded!UpdateInit(ops[x])
    BY Entering
  <2> HIDE DEF ops
  <2> QED BY <2>1 DEF unbounded_updates, Unbounded!UpdateInit
<1>4. IsFiniteSet(fresh)
  <2>1. fresh \subseteq Replica \X Thread
    BY DEF unbounded_updates, Updating, Request
  <2>2. IsFiniteSet(Replica) /\ IsFiniteSet(Thread)
    BY FS_Interval, NodeReplicationAssumption, NrLogAssumption DEF Replica, Thread
  <2> HIDE DEF fresh
  <2> QED BY <2>1, <2>2, FS_Product, FS_Subset
<1>5. Cardinality(added) = NumOps(r)
  <2>1. added = {ops[x] : x \in 1 .. NumOps(r)}
    BY <1>1
  <2>2. PICK k \in Nat : k = NumOps(r)
    BY <1>1
  <2> HIDE DEF added, ops
  <2>3. Cardinality({ops[x] : x \in 1 .. k}) = k
    <3>1. \A x, y \in 1 .. k : ops[x] = ops[y] => x = y
      BY <1>2, <2>2
    <3> QED BY <2>2, <3>1, Listed
  <2> QED BY <2>1, <2>2, <2>3
<1>6. added \subseteq fresh
  BY <1>1, <1>3
<1>7. ops \in [1 .. NumOps(r) -> fresh]
  BY <1>1, <1>3
<1>8. ops \in Unbounded!Batches
  <2> HIDE DEF added, fresh, ops
  <2>1. NumOps(r) <= Cardinality(fresh) /\ Cardinality(fresh) \in Nat
    BY <1>4, <1>5, <1>6, FS_Subset, FS_CardinalityType
  <2>2. NumOps(r) \in 1 .. Cardinality(fresh)
    BY <1>1, <2>1
  <2>3. Unbounded!Batches = UNION {[1 .. k -> fresh] : k \in 1 .. Cardinality(fresh)}
    BY UnboundedCardinality DEF Unbounded!Batches, fresh
  <2> QED BY <1>7, <2>2, <2>3
<1>9. \A rid \in added : rid \in DOMAIN unbounded_updates /\ unbounded_updates[rid].state = "Init"
  BY <1>6
<1> QED BY <1>1, <1>5, <1>8, <1>9

(* The entries of the batch, by index. *)
LEMMA EntriesAdded ==
  ASSUME NodeInv, NEW r \in Replica, AtWork(r), Reserves(r), NumOps(r) # 0
  PROVE  LET ops == operations[r]
             reserved == tail .. tail + Len(ops) - 1
         IN  unbounded_log' = [i \in DOMAIN unbounded_log \cup reserved |->
               IF i \in reserved THEN [op |-> unbounded_updates[ops[i - tail + 1]].op, node_id |-> r]
               ELSE unbounded_log[i]]
<1> DEFINE ops == operations[r]
           n == NumOps(r)
           reserved == tail .. tail + Len(ops) - 1
           new(i) == IF i \in reserved THEN [op |-> unbounded_updates[ops[i - tail + 1]].op, node_id |-> r]
                     ELSE unbounded_log[i]
<1>1. n = Len(ops) /\ n \in Nat /\ tail \in Nat /\ Len(log) = tail
  BY NodeTypes
<1>2. /\ Len(log') = tail + n /\ \A i \in 1 .. tail : log'[i] = log[i]
      /\ \A x \in 1 .. n : log'[tail + x] = [op |-> ops[x], node_id |-> r]
  BY DEF Reserves
<1>3. \A x \in 1 .. n : unbounded_updates[ops[x]].op = ops[x]
  <2> SUFFICES ASSUME NEW x \in 1 .. n PROVE unbounded_updates[ops[x]].op = ops[x]
    OBVIOUS
  <2>1. ops[x] \in Updating /\ unbounded_update(ops[x]) = Unbounded!UpdateInit(ops[x])
    BY Entering
  <2> HIDE DEF ops
  <2> QED BY <2>1 DEF unbounded_updates, Unbounded!UpdateInit
<1>4. DOMAIN unbounded_log \cup reserved = 0 .. tail + n - 1
  BY <1>1 DEF unbounded_log
<1>5. ASSUME NEW i \in 0 .. tail + n - 1 PROVE log'[i + 1] = new(i)
  <2>1. CASE i < tail
    <3>1. i + 1 \in 1 .. tail /\ i \notin reserved /\ i \in 0 .. Len(log) - 1
      BY <1>1, <1>5, <2>1
    <3>2. unbounded_log[i] = log[i + 1]
      BY <3>1 DEF unbounded_log
    <3> QED BY <1>2, <3>1, <3>2
  <2>2. CASE ~(i < tail)
    <3>1. PICK x \in 1 .. n : i - tail + 1 = x /\ i + 1 = tail + x /\ i \in reserved
      <4>1. i - tail + 1 \in 1 .. n /\ i + 1 = tail + (i - tail + 1) /\ i \in reserved
        BY <1>1, <1>5, <2>2
      <4> QED BY <4>1
    <3>2. new(i) = [op |-> ops[x], node_id |-> r]
      <4>1. new(i) = [op |-> unbounded_updates[ops[x]].op, node_id |-> r]
        BY <3>1
      <4> HIDE DEF new
      <4> QED BY <1>3, <4>1
    <3>3. log'[i + 1] = [op |-> ops[x], node_id |-> r]
      BY <1>2, <3>1
    <3> QED BY <3>2, <3>3
  <2> QED BY <2>1, <2>2
<1> HIDE DEF new
<1>6. unbounded_log' = [i \in 0 .. tail + n - 1 |-> log'[i + 1]]
  <2>0. Len(log') = tail + NumOps(r)
    BY DEF Reserves
  <2>1. Len(log') - 1 = tail + n - 1
    BY <1>1, <2>0
  <2>2. unbounded_log' = [i \in 0 .. Len(log') - 1 |-> log'[i + 1]]
    BY DEF unbounded_log
  <2> HIDE DEF n
  <2> QED BY <2>1, <2>2
<1>7. unbounded_log' = [i \in DOMAIN unbounded_log \cup reserved |-> new(i)]
  BY <1>4, <1>5, <1>6
<1> QED BY <1>7 DEF new

(* The updates of the batch have got their places. *)
LEMMA UpdatesPlaced ==
  ASSUME NodeInv, NEW r \in Replica, AtWork(r), Reserves(r), NumOps(r) # 0
  PROVE  LET ops == operations[r]
             added == {ops[i] : i \in DOMAIN ops}
             place(rid) == CHOOSE i \in DOMAIN ops : ops[i] = rid
         IN  unbounded_updates' = [rid \in DOMAIN unbounded_updates |->
               IF rid \in added
               THEN Unbounded!UpdatePlaced(unbounded_updates[rid].op, tail + place(rid) - 1)
               ELSE unbounded_updates[rid]]
<1> DEFINE ops == operations[r]
           n == NumOps(r)
           added == {ops[i] : i \in DOMAIN ops}
           place(rid) == CHOOSE i \in DOMAIN ops : ops[i] = rid
           new(rid) == IF rid \in added
                       THEN Unbounded!UpdatePlaced(unbounded_updates[rid].op, tail + place(rid) - 1)
                       ELSE unbounded_updates[rid]
<1>1. ops \in Seq(AllOps) /\ n = Len(ops) /\ n \in Nat /\ DOMAIN ops = 1 .. n
  BY NodeTypes
<1>2. \A x, y \in 1 .. n : ops[x] = ops[y] => x = y
  BY BatchOf
<1>3. Updating' = Updating /\ Updating \subseteq Request /\ DOMAIN unbounded_updates = Updating
  BY DEF AtWork, Updating, Request, unbounded_updates
<1>4. ASSUME NEW rid \in Updating PROVE unbounded_update(rid)' = new(rid)
  <2>1. CASE rid \in added
    <3>1. PICK x \in 1 .. n : ops[x] = rid
      BY <1>1, <2>1
    <3>2. place(rid) = x
      <4>1. \A y \in DOMAIN ops : ops[y] = rid <=> y = x
        BY <1>1, <1>2, <3>1
      <4>2. x \in DOMAIN ops
        BY <1>1
      <4> HIDE DEF ops
      <4> QED BY <4>1, <4>2
    <3>3. /\ unbounded_update(rid) = Unbounded!UpdateInit(rid)
          /\ unbounded_update(rid)' = Unbounded!UpdatePlaced(rid, tail + x - 1)
      <4>1. /\ unbounded_update(ops[x]) = Unbounded!UpdateInit(ops[x])
            /\ unbounded_update(ops[x])' = Unbounded!UpdatePlaced(ops[x], tail + x - 1)
        BY Entering
      <4>2. ops' = ops
        BY DEF Reserves
      <4>3. PICK q \in Replica, u \in Thread : rid = <<q, u>>
        BY <1>3, Pairs
      <4> QED BY <3>1, <4>1, <4>2
    <3>4. unbounded_updates[rid].op = rid
      BY <3>3 DEF unbounded_updates, Unbounded!UpdateInit
    <3>5. new(rid) = Unbounded!UpdatePlaced(rid, tail + x - 1)
      <4>1. new(rid) = Unbounded!UpdatePlaced(unbounded_updates[rid].op, tail + place(rid) - 1)
        BY <2>1
      <4> HIDE DEF new, place
      <4> QED BY <3>2, <3>4, <4>1
    <3> QED BY <3>3, <3>5
  <2>2. CASE rid \notin added
    <3>1. PICK q \in Replica, u \in Thread : rid = <<q, u>>
      BY <1>3, Pairs
    <3>2. \A x \in 1 .. NumOps(r) : operations[r][x] # <<q, u>>
      BY <1>1, <2>2, <3>1
    <3>3. unbounded_update(<<q, u>>)' = unbounded_update(<<q, u>>)
      BY <3>2, NotEntering
    <3>4. unbounded_updates[rid] = unbounded_update(rid)
      BY DEF unbounded_updates
    <3>5. new(rid) = unbounded_updates[rid]
      BY <2>2
    <3> HIDE DEF new, added
    <3>6. unbounded_update(rid)' = unbounded_update(rid)
      BY <3>1, <3>3
    <3> QED BY <3>4, <3>5, <3>6
  <2> QED BY <2>1, <2>2
<1> HIDE DEF new
<1>5. unbounded_updates' = [rid \in DOMAIN unbounded_updates |-> new(rid)]
  BY <1>3, <1>4 DEF unbounded_updates
<1> QED BY <1>5 DEF new

LEMMA ViewCasTail ==
  ASSUME NodeInv, NEW r \in Replica, AtWork(r), CasTail(r)
  PROVE  Unbounded!BatchNext
<1>0. Reserves(r)
  BY Appending
<1>1. CASE NumOps(r) = 0
  BY <1>0, <1>1, ViewCasTailEmpty
<1>2. CASE NumOps(r) # 0
  <2> DEFINE ops == operations[r]
             added == {ops[i] : i \in DOMAIN ops}
             place(rid) == CHOOSE i \in DOMAIN ops : ops[i] = rid
             reserved == tail .. tail + Len(ops) - 1
  <2>1. /\ log \in Seq(Entry) /\ Len(log) = tail /\ tail \in Nat
        /\ ops \in Seq(AllOps) /\ NumOps(r) = Len(ops) /\ NumOps(r) \in Nat
        /\ local_versions[r] \in Nat /\ local_versions[r] <= tail
    BY NodeTypes
  <2>2. /\ pc[r] = "cas_tail" /\ pc'[r] = "write_entry" /\ ~BatchPending(r)
        /\ tail' = tail + Len(ops) /\ tail + Len(ops) <= MAX_IDX
        /\ Len(log') = tail + NumOps(r) /\ \A i \in 1 .. tail : log'[i] = log[i]
        /\ \A x \in 1 .. NumOps(r) : log'[tail + x] = [op |-> ops[x], node_id |-> r]
        /\ \A i \in 1 .. Len(log') : i > tail => \E x \in 1 .. NumOps(r) : i = tail + x
        /\ UNCHANGED <<local_versions, version_upper_bound, replicas, operations>>
    <3>1. tail + NumOps(r) < MAX_IDX /\ MAX_IDX \in Nat
      BY <1>0, NrLogAssumption DEF Reserves
    <3>2. tail + Len(ops) <= MAX_IDX
      BY <2>1, <3>1
    <3> QED BY <1>0, <1>2, <2>1, <3>2 DEF Reserves
  <2>3. ASSUME NEW q \in Replica \ {r} PROVE BatchPending(q)' <=> BatchPending(q)
    <3>1. local_versions'[q] = local_versions[q] /\ local_versions[q] \in Nat
      BY <2>2, NodeTypes
    <3>2. ASSUME NEW i \in 1 .. Len(log'), i > tail PROVE log'[i].node_id # q
      <4>1. PICK x \in 1 .. NumOps(r) : i = tail + x
        BY <2>2, <3>2
      <4>2. log'[i] = [op |-> ops[x], node_id |-> r]
        BY <2>2, <4>1
      <4>3. log'[i].node_id = r
        BY <4>2
      <4> QED BY <4>3
    <3>3. ASSUME BatchPending(q)' PROVE BatchPending(q)
      <4>1. PICK i \in local_versions[q] + 1 .. Len(log') : log'[i].node_id = q
        BY <3>1, <3>3 DEF BatchPending
      <4>2. i \in 1 .. Len(log')
        BY <2>1, <2>2, <3>1
      <4>3. i \in local_versions[q] + 1 .. Len(log) /\ i \in 1 .. tail
        BY <2>1, <2>2, <3>1, <3>2, <4>1, <4>2
      <4> QED BY <2>2, <4>1, <4>3 DEF BatchPending
    <3>4. ASSUME BatchPending(q) PROVE BatchPending(q)'
      <4>1. PICK i \in local_versions[q] + 1 .. Len(log) : log[i].node_id = q
        BY <3>4 DEF BatchPending
      <4>2. i \in local_versions[q] + 1 .. Len(log') /\ i \in 1 .. tail
        BY <2>1, <2>2, <3>1
      <4> QED BY <2>2, <3>1, <4>1, <4>2 DEF BatchPending
    <3> QED BY <3>3, <3>4
  <2>4. BatchPending(r)'
    <3>1. tail + 1 \in local_versions'[r] + 1 .. Len(log') /\ 1 \in 1 .. NumOps(r)
      BY <1>2, <2>1, <2>2
    <3>2. log'[tail + 1] = [op |-> ops[1], node_id |-> r]
      BY <2>2, <3>1
    <3>3. log'[tail + 1].node_id = r
      BY <3>2
    <3> QED BY <3>1, <3>3 DEF BatchPending
  <2>5. queued_ops(r) = << >> /\ queued_ops(r)' = ops /\ ops # << >>
    <3>1. queued_ops(r)' = operations'[r]
      BY <2>4 DEF queued_ops
    <3> QED BY <1>2, <2>1, <2>2, <3>1 DEF queued_ops
  <2>6. TokenOf(r) = Unbounded!Ready
    <3>1. pc[r] \notin ExecutePCs
      BY <2>2 DEF ExecutePCs, LoopPCs
    <3> QED BY <2>5, <3>1, TokenCases DEF TokenOf
  <2>7. TokenOf(r)' = Unbounded!Placed(ops)
    <3>1. pc'[r] \notin ExecutePCs
      BY <2>2 DEF ExecutePCs, LoopPCs
    <3> QED BY <2>5, <3>1, TokenCases, TokenIs
  <2>8. Unbounded!Become(r, Unbounded!Placed(ops))
    BY <2>3, <2>7, CombinerMoves DEF AtWork
  <2>9. Unbounded!Combining(r, "Ready")
    BY <2>6, TokenIs DEF Unbounded!Combining, Unbounded!Ready
  <2>10. /\ Unbounded!Cardinality(added) = Len(ops)
         /\ \A rid \in added : rid \in DOMAIN unbounded_updates /\ unbounded_updates[rid].state = "Init"
         /\ ops \in Unbounded!Batches
    BY <1>0, <1>2, BatchWaits, UnboundedCardinality
  <2>11. unbounded_log' = [i \in DOMAIN unbounded_log \cup reserved |->
           IF i \in reserved THEN [op |-> unbounded_updates[ops[i - tail + 1]].op, node_id |-> r]
           ELSE unbounded_log[i]]
    BY <1>0, <1>2, EntriesAdded
  <2>12. unbounded_updates' = [rid \in DOMAIN unbounded_updates |->
           IF rid \in added THEN Unbounded!UpdatePlaced(unbounded_updates[rid].op, tail + place(rid) - 1)
           ELSE unbounded_updates[rid]]
    BY <1>0, <1>2, UpdatesPlaced
  <2>13. unbounded_reads' = unbounded_reads /\ label' = [kind |-> "Internal"]
    BY DEF AtWork
  <2>14. Unbounded!append_entries(r, ops)
    BY <2>2, <2>8, <2>9, <2>10, <2>11, <2>12, <2>13 DEF Unbounded!append_entries, Unbounded!Internal
  <2> HIDE DEF ops
  <2> QED BY <2>10, <2>14, NodeIds DEF Unbounded!BatchNext
<1> QED BY <1>1, <1>2

-----------------------------------------------------------------------------
(* The whole step *)

LEMMA UnboundedInit == NRInit => Unbounded!Init
<1> SUFFICES ASSUME NRInit PROVE Unbounded!Init
  OBVIOUS
<1>1. /\ tail = 0 /\ log = << >> /\ version_upper_bound = 0
      /\ replicas = [r \in Replica |-> init_spec] /\ local_versions = [r \in Replica |-> 0]
      /\ pc = [r \in Replica |-> "ready"] /\ ex = [r \in Replica |-> NoExecute]
      /\ responses = [r \in Replica |-> << >>]
      /\ client = [r \in Replica |-> [t \in Thread |-> "unregistered"]]
      /\ label = [kind |-> "Internal"]
  BY DEF NRInit, Init, ReplicasInit, Internal
<1>2. Unbounded!init_spec = init_spec
  BY DEF Unbounded!init_spec, init_spec
<1>3. Updating = {} /\ Reading = {}
  <2>1. \A rid \in Request : client[rid[1]][rid[2]] = "unregistered"
    BY <1>1 DEF Request
  <2> QED BY <2>1 DEF Updating, Reading
<1>4. unbounded_reads = Unbounded!Empty /\ unbounded_updates = Unbounded!Empty
  BY <1>3 DEF unbounded_reads, unbounded_updates, Unbounded!Empty
<1>5. unbounded_log = Unbounded!Empty
  <2>1. Len(log) = 0
    BY <1>1
  <2>2. 0 .. Len(log) - 1 = {}
    BY <2>1
  <2> QED BY <2>2 DEF unbounded_log, Unbounded!Empty
<1>6. unbounded_combiners = [r \in Replica |-> Unbounded!Ready]
  <2>1. ASSUME NEW r \in Replica PROVE unbounded_combiners[r] = Unbounded!Ready
    <3>1. ~BatchPending(r)
      <4>1. Len(log) = 0 /\ local_versions[r] = 0
        BY <1>1
      <4>2. local_versions[r] + 1 .. Len(log) = {}
        BY <4>1
      <4> QED BY <4>2 DEF BatchPending
    <3>2. queued_ops(r) = << >> /\ pc[r] \notin ExecutePCs
      BY <1>1, <3>1 DEF queued_ops, ExecutePCs, LoopPCs
    <3>3. TokenOf(r) = Unbounded!Ready
      BY <3>2, TokenCases DEF TokenOf
    <3> QED BY <3>3, TokenIs
  <2> QED BY <2>1 DEF unbounded_combiners
<1> QED BY <1>1, <1>2, <1>4, <1>5, <1>6, NodeIds DEF Unbounded!Init, Unbounded!Internal

LEMMA UnboundedStutter ==
  ASSUME UNCHANGED allvars
  PROVE  UNCHANGED Unbounded!vars
<1>1. UNCHANGED <<vars, client, bound, contexts, num_ops, thread_idx, label>>
  BY DEF allvars, nrvars, combining, collected, progress
<1>2. ASSUME NEW q \in Replica, NEW u \in Thread
      PROVE  unbounded_update(<<q, u>>)' = unbounded_update(<<q, u>>)
  <2>1. UNCHANGED <<vars, atomic, resp>>
    BY <1>1 DEF contexts
  <2>2. InLog(<<q, u>>)' <=> InLog(<<q, u>>)
    BY <1>1, <2>1, InLogIs, LogAtRest DEF InBatch
  <2> QED BY <2>1, <2>2, LogAtRest, UpdateKept
<1>3. unbounded_updates' = unbounded_updates
  BY <1>1, <1>2, SameUpdates
<1>4. unbounded_reads' = unbounded_reads
  BY <1>1, SameReads DEF ReadKept
<1> QED BY <1>1, <1>3, <1>4, LogAtRest DEF Unbounded!vars

LEMMA UnboundedWork ==
  ASSUME NodeInv, NEW r \in Replica, WorkOnLog(r)
  PROVE  Unbounded!BatchNext
<1>1. /\ AtWork(r)
      /\ \/ JustMoves(r) \/ CasTail(r)
         \/ LoadLocalVersion(r) \/ LoadExecTail_NoWork(r) \/ LoadExecTail_Work(r)
         \/ WaitAlive(r) \/ DispatchEntry(r) \/ BumpVersionUpperBound(r) \/ StoreLocalVersion(r)
  BY Working
<1> QED BY <1>1, ViewJustMoves, ViewCasTail, ViewLoadLocalVersion, ViewLoadExecTail_NoWork,
           ViewLoadExecTail_Work, ViewWaitAlive, ViewDispatchLocal, ViewDispatchRemote, ViewBump,
           ViewStoreLocalVersion

LEMMA UnboundedNext == NodeInv /\ [NRNext]_allvars => [Unbounded!BatchNext]_(Unbounded!vars)
<1> SUFFICES ASSUME NodeInv, [NRNext]_allvars, ~UNCHANGED allvars PROVE Unbounded!BatchNext
  BY UnboundedStutter
<1>1. PICK r \in Replica :
        \/ \E t \in Thread : register(r, t) \/ EnqueueOp(r, t) \/ ReadStart(r, t) \/ ClientStep(r, t)
        \/ combine(r)
  BY DEF NRNext
<1>2. ASSUME NEW t \in Thread, register(r, t) \/ EnqueueOp(r, t) \/ ReadStart(r, t) \/ ClientStep(r, t)
      PROVE  Unbounded!BatchNext
  <2>1. CASE \/ register(r, t) \/ DequeueNothing(r, t) \/ AcquireCombinerLock(r, t) \/ CombinerLockBusy(r, t)
             \/ CheckSynced(r, t) /\ client'[r][t] # "acquire_read"
    BY <2>1, ViewSilentThread
  <2>2. CASE EnqueueOp(r, t)
    BY <2>2, ViewEnqueue
  <2>3. CASE DequeueResponse(r, t)
    BY <2>3, ViewDequeue
  <2>4. CASE ReadStart(r, t)
    BY <2>4, ViewReadStart
  <2>5. CASE GetVersionUpperBound(r, t)
    BY <2>5, ViewVersionUpperBound
  <2>6. CASE CheckSynced(r, t) /\ client'[r][t] = "acquire_read"
    BY <2>6, ViewSynced
  <2>7. CASE Read(r, t)
    BY <2>7, ViewRead
  <2> QED BY <1>2, <2>1, <2>2, <2>3, <2>4, <2>5, <2>6, <2>7 DEF ClientStep
<1>3. CASE combine(r)
  BY <1>3, ViewQuietCombine, ViewAcquireWrite, UnboundedWork, ViewPublish, ViewRelease DEF combine
<1> QED BY <1>1, <1>2, <1>3

(* Every step of the implementation is a transition of the unbounded log,  *)
(* or of several updates at once, or none: a batch enters the log in one   *)
(* piece, every update is answered from its own place in it, and a read    *)
(* waits for the version it was given (exec/log.rs, exec/replica.rs).      *)
THEOREM RefinesUnboundedLogCorrect == NRSpec => RefinesUnboundedLog
<1> QED BY UnboundedInit, UnboundedNext, NodeCorrect, PTL DEF NRSpec, RefinesUnboundedLog, Unbounded!BatchSpec

-----------------------------------------------------------------------------
(* Linearizability: node replication implements the unbounded log, and     *)
(* that, batches included, implements the simple log.                      *)

ULP == INSTANCE UnboundedLogProofs WITH
  ReqId         <- Request,
  WriteOp       <- RequestIsOp,
  MAX_LOG       <- MAX_IDX,
  log           <- unbounded_log,
  local_reads   <- unbounded_reads,
  local_updates <- unbounded_updates,
  combiner      <- unbounded_combiners

(* The transitions of the tokens are those of the refinement. *)
LEMMA SameInit == Unbounded!Init => ULP!Init
BY DEF Unbounded!Init, ULP!Init, Unbounded!Empty, ULP!Empty, Unbounded!NodeId, ULP!NodeId,
  Unbounded!init_spec, ULP!init_spec, Unbounded!Ready, ULP!Ready, Unbounded!Internal, ULP!Internal

LEMMA SameNext == Unbounded!BatchNext => ULP!BatchNext
BY Zenon DEF
  Unbounded!BatchNext, ULP!BatchNext, Unbounded!Next, ULP!Next,
  Unbounded!RequestStep, ULP!RequestStep, Unbounded!CombinerStep, ULP!CombinerStep,
  Unbounded!NodeId, ULP!NodeId,
  Unbounded!add_ticket_read, ULP!add_ticket_read, Unbounded!add_ticket_write, ULP!add_ticket_write,
  Unbounded!consume_stub_read, ULP!consume_stub_read, Unbounded!consume_stub_write, ULP!consume_stub_write,
  Unbounded!readonly_version_upper_bound, ULP!readonly_version_upper_bound,
  Unbounded!readonly_ready_to_read, ULP!readonly_ready_to_read,
  Unbounded!readonly_apply, ULP!readonly_apply, Unbounded!readonly_view_oob, ULP!readonly_view_oob,
  Unbounded!update_done, ULP!update_done, Unbounded!exec_trivial_start, ULP!exec_trivial_start,
  Unbounded!update_place_ops_in_log_one, ULP!update_place_ops_in_log_one,
  Unbounded!exec_load_local_version, ULP!exec_load_local_version,
  Unbounded!exec_load_global_head, ULP!exec_load_global_head,
  Unbounded!exec_dispatch_local, ULP!exec_dispatch_local,
  Unbounded!exec_dispatch_remote, ULP!exec_dispatch_remote,
  Unbounded!exec_update_version_upper_bound, ULP!exec_update_version_upper_bound,
  Unbounded!exec_finish, ULP!exec_finish, Unbounded!exec_finish_no_change, ULP!exec_finish_no_change,
  Unbounded!append_entries, ULP!append_entries, Unbounded!read_and_return, ULP!read_and_return,
  Unbounded!Batches, ULP!Batches, Unbounded!Cardinality, ULP!Cardinality,
  Unbounded!Fresh, ULP!Fresh, Unbounded!Combining, ULP!Combining, Unbounded!Become, ULP!Become,
  Unbounded!insert, ULP!insert, Unbounded!remove, ULP!remove,
  Unbounded!ReadInit, ULP!ReadInit, Unbounded!VersionUpperBound, ULP!VersionUpperBound,
  Unbounded!ReadyToRead, ULP!ReadyToRead, Unbounded!ReadDone, ULP!ReadDone,
  Unbounded!UpdateInit, ULP!UpdateInit, Unbounded!UpdatePlaced, ULP!UpdatePlaced,
  Unbounded!UpdateApplied, ULP!UpdateApplied, Unbounded!UpdateDone, ULP!UpdateDone,
  Unbounded!Ready, ULP!Ready, Unbounded!Placed, ULP!Placed,
  Unbounded!LoadedLocalVersion, ULP!LoadedLocalVersion, Unbounded!Loop, ULP!Loop,
  Unbounded!UpdatedVersion, ULP!UpdatedVersion, Unbounded!Internal, ULP!Internal,
  Unbounded!Start, ULP!Start, Unbounded!End, ULP!End,
  Unbounded!dispatch_spec, ULP!dispatch_spec, Unbounded!dispatch_mut_spec, ULP!dispatch_mut_spec

LEMMA SameSteps == NodeInv /\ [NRNext]_allvars => [ULP!BatchNext]_(ULP!vars)
<1> SUFFICES ASSUME NodeInv, [NRNext]_allvars PROVE [ULP!BatchNext]_(ULP!vars)
  OBVIOUS
<1>1. Unbounded!BatchNext \/ UNCHANGED Unbounded!vars
  BY UnboundedNext
<1>2. CASE Unbounded!BatchNext
  BY <1>2, SameNext
<1>3. CASE UNCHANGED Unbounded!vars
  BY <1>3 DEF Unbounded!vars, ULP!vars
<1> QED BY <1>1, <1>2, <1>3

LEMMA NRBatches == NRSpec => ULP!BatchSpec
<1>1. NRInit => ULP!Init
  BY SameInit, UnboundedInit
<1> QED BY <1>1, SameSteps, NodeCorrect, PTL DEF NRSpec, ULP!BatchSpec

LEMMA BatchesSimple == ULP!BatchSpec => ULP!Simple!BatchSpec
BY ULP!BatchesRefineSimpleLog, NrLogAssumption DEF ULP!UnboundedLogAssumption

(* What the simple log is as a function of the tokens of the unbounded log *)
(* is what it is as a function of the implementation's state.              *)
SimpleSeen ==
  /\ ULP!interp_log = simple_log
  /\ ULP!interp_replica_versions = simple_replica_versions
  /\ ULP!interp_readonly_reqs = simple_readonly_reqs
  /\ ULP!interp_update_reqs = simple_update_reqs
  /\ ULP!interp_update_resps = simple_update_resps

LEMMA SimpleLogSeen ==
  ASSUME NodeInv
  PROVE  ULP!interp_log = simple_log
<1>1. 0 \in Replica
  BY NrLogAssumption DEF Replica
<1>2. log \in Seq(Entry) /\ Len(log) = tail /\ tail \in Nat
  BY <1>1, NodeTypes
<1>3. \A i \in 1 .. tail : unbounded_log[i - 1] = log[i]
  <2> SUFFICES ASSUME NEW i \in 1 .. tail PROVE unbounded_log[i - 1] = log[i]
    OBVIOUS
  <2>1. i - 1 \in 0 .. Len(log) - 1 /\ i - 1 + 1 = i
    BY <1>2
  <2> QED BY <2>1 DEF unbounded_log
<1>4. DOMAIN log = 1 .. tail
  BY <1>2
<1> QED BY <1>3, <1>4 DEF ULP!interp_log, simple_log

LEMMA SimpleVersionsSeen ==
  ASSUME NodeInv
  PROVE  ULP!interp_replica_versions = simple_replica_versions
<1>1. ULP!NodeId = Replica
  BY DEF ULP!NodeId, Replica
<1>2. ASSUME NEW r \in Replica PROVE ULP!current_local_version(r) = current_local_version(r)
  <2> DEFINE c == unbounded_combiners[r]
  <2>1. c = TokenOf(r)
    BY TokenIs
  <2>2. Locals(pc[r], ap[r], ah[r], ex[r], NumOps(r))
    BY NodeTypes
  <2>3. CASE pc[r] \in {"wait_alive", "dispatch", "bump_version"}
    <3>1. c.state = "Loop" /\ c.lversion = ex[r].local_version
      BY <2>1, <2>3, TokenCases DEF TokenOf, Unbounded!Loop
    <3> HIDE DEF c
    <3>2. unbounded_combiners[r] = c
      BY DEF c
    <3>3. pc[r] \in LoopPCs
      BY <2>3 DEF LoopPCs
    <3> QED BY <3>1, <3>2, <3>3 DEF ULP!current_local_version, current_local_version
  <2>4. CASE pc[r] = "store_version"
    <3>1. c.state = "UpdatedVersion" /\ c.tail = ex[r].global_tail
      BY <2>1, <2>4, TokenCases DEF TokenOf, Unbounded!UpdatedVersion
    <3>2. ex[r].local_version = ex[r].global_tail
      BY <2>2, <2>4 DEF Locals
    <3> HIDE DEF c
    <3>3. unbounded_combiners[r] = c
      BY DEF c
    <3>4. pc[r] \in LoopPCs
      BY <2>4 DEF LoopPCs
    <3> QED BY <3>1, <3>2, <3>3, <3>4 DEF ULP!current_local_version, current_local_version
  <2>5. CASE pc[r] \notin LoopPCs
    <3>1. c.state \notin {"Loop", "UpdatedVersion"}
      BY <2>1, <2>5, TokenCases
         DEF TokenOf, ExecutePCs, LoopPCs, Unbounded!Placed, Unbounded!LoadedLocalVersion, Unbounded!Ready
    <3> HIDE DEF c
    <3>2. unbounded_combiners[r] = c
      BY DEF c
    <3> QED BY <2>5, <3>1, <3>2 DEF ULP!current_local_version, current_local_version
  <2> QED BY <2>3, <2>4, <2>5 DEF LoopPCs
<1> QED BY <1>1, <1>2 DEF ULP!interp_replica_versions, simple_replica_versions

LEMMA SimpleReadsSeen == ULP!interp_readonly_reqs = simple_readonly_reqs
<1>1. ASSUME NEW rid \in Reading
      PROVE  (IF unbounded_reads[rid].state = "Init"
              THEN [state |-> "Init", node_id |-> unbounded_reads[rid].node_id]
              ELSE [state |-> "Req", version |-> unbounded_reads[rid].version_upper_bound,
                    node_id |-> unbounded_reads[rid].node_id])
             = simple_read(rid)
  <2>1. unbounded_reads[rid] = unbounded_read(rid)
    BY DEF unbounded_reads
  <2>2. CASE client[rid[1]][rid[2]] = "load_bound"
    BY <2>1, <2>2 DEF unbounded_read, simple_read
  <2>3. CASE client[rid[1]][rid[2]] # "load_bound"
    BY <2>1, <2>3 DEF unbounded_read, simple_read
  <2> QED BY <2>2, <2>3
<1>2. DOMAIN unbounded_reads = Reading
  BY DEF unbounded_reads
<1> QED BY <1>1, <1>2 DEF ULP!interp_readonly_reqs, simple_readonly_reqs

LEMMA SimpleUpdatesSeen ==
  ULP!interp_update_reqs = simple_update_reqs /\ ULP!interp_update_resps = simple_update_resps
<1>1. DOMAIN unbounded_updates = Updating /\ Updating \subseteq Request
  BY DEF unbounded_updates, Updating
<1>2. ASSUME NEW rid \in Updating
      PROVE  /\ unbounded_updates[rid].state = "Init" <=> ~InLog(rid)
             /\ ~InLog(rid) => unbounded_updates[rid].op = rid
             /\ InLog(rid) => unbounded_updates[rid].idx = Position(rid) - 1
  <2>1. PICK r \in Replica, t \in Thread : rid = <<r, t>>
    BY <1>1, Pairs
  <2>2. unbounded_updates[rid] = UpdateOf(r, t)
    BY <2>1, UpdateIs DEF unbounded_updates
  <2>3. CASE ~InLog(rid)
    BY <2>1, <2>2, <2>3, UpdateCases DEF UpdateOf, Unbounded!UpdateInit
  <2>4. CASE InLog(rid) /\ atomic[r][t] = 0
    BY <2>1, <2>2, <2>4 DEF UpdateOf, UpdateToken
  <2>5. CASE InLog(rid) /\ atomic[r][t] # 0
    <3> DEFINE p == Position(<<r, t>>) - 1
               v == current_local_version(r)
               w == atomic[r][t]
               a == resp[r][t]
               ops == operations[r]
               answers == responses[r]
    <3>1. UpdateOf(r, t) = UpdateToken(<<r, t>>, TRUE, p, w, a, v, ops, answers)
      BY <2>1, <2>5 DEF UpdateOf, UpdateToken
    <3>2. w # 0
      BY <2>5
    <3> HIDE DEF p, v, w, a, ops, answers
    <3>3. LET token == UpdateToken(<<r, t>>, TRUE, p, w, a, v, ops, answers)
          IN  token.state \in {"Applied", "Placed"} /\ token.idx = p
      BY <3>2 DEF UpdateToken
    <3>4. unbounded_updates[rid].state \in {"Applied", "Placed"} /\ unbounded_updates[rid].idx = p
      BY <2>2, <3>1, <3>3
    <3> QED BY <2>1, <2>5, <3>4 DEF p
  <2> QED BY <2>3, <2>4, <2>5
<1>3. ULP!Unplaced = {u \in Updating : ~InLog(u)} /\ Updating \ ULP!Unplaced = {u \in Updating : InLog(u)}
  BY <1>1, <1>2 DEF ULP!Unplaced
<1>4. ULP!interp_update_reqs = simple_update_reqs
  BY <1>2, <1>3 DEF ULP!interp_update_reqs, simple_update_reqs
<1>5. ULP!interp_update_resps = simple_update_resps
  BY <1>1, <1>2, <1>3 DEF ULP!interp_update_resps, simple_update_resps
<1> QED BY <1>4, <1>5

LEMMA SimpleIsSeen == NodeInv => SimpleSeen
BY SimpleLogSeen, SimpleVersionsSeen, SimpleReadsSeen, SimpleUpdatesSeen DEF SimpleSeen

LEMMA SimpleIsSeenNext == NodeInv' => SimpleSeen'
BY SimpleIsSeen, PTL
(* So a step of the one is that step of the other. *)
LEMMA SimpleSteps ==
  ASSUME SimpleSeen, SimpleSeen'
  PROVE  [\/ ULP!Simple!Next
          \/ \E rids \in ULP!Simple!Batches : ULP!Simple!update_add_ops_to_log(rids)]_(ULP!Simple!vars)
           => [Simple!Next \/ \E rids \in Simple!Batches : Simple!update_add_ops_to_log(rids)]_(Simple!vars)
<1>1. ASSUME NEW rid, NEW n, ULP!Simple!readonly_start(rid, n) PROVE Simple!readonly_start(rid, n)
  BY <1>1
     DEF SimpleSeen, ULP!Simple!readonly_start, Simple!readonly_start, ULP!Simple!insert,
         Simple!insert, ULP!Simple!Unused, Simple!Unused, ULP!Simple!Start, Simple!Start
<1>2. ASSUME NEW rid, ULP!Simple!readonly_read_version(rid) PROVE Simple!readonly_read_version(rid)
  BY <1>2
     DEF SimpleSeen, ULP!Simple!readonly_read_version, Simple!readonly_read_version,
         ULP!Simple!Internal, Simple!Internal
<1>3. ASSUME NEW rid, NEW v, ULP!Simple!readonly_finish(rid, v) PROVE Simple!readonly_finish(rid, v)
  BY <1>3
     DEF SimpleSeen, ULP!Simple!readonly_finish, Simple!readonly_finish, ULP!Simple!remove,
         Simple!remove, ULP!Simple!End, Simple!End, ULP!Simple!nrstate_at_version,
         Simple!nrstate_at_version, ULP!Simple!dispatch_spec, Simple!dispatch_spec,
         ULP!Simple!compute_nrstate_at_version, Simple!compute_nrstate_at_version
<1>4. ASSUME NEW rid, ULP!Simple!update_start(rid) PROVE Simple!update_start(rid)
  BY <1>4
     DEF SimpleSeen, ULP!Simple!update_start, Simple!update_start, ULP!Simple!insert,
         Simple!insert, ULP!Simple!Unused, Simple!Unused, ULP!Simple!Start, Simple!Start
<1>5. ASSUME NEW rid, ULP!Simple!update_add_op_to_log(rid) PROVE Simple!update_add_op_to_log(rid)
  BY <1>5
     DEF SimpleSeen, ULP!Simple!update_add_op_to_log, Simple!update_add_op_to_log,
         ULP!Simple!insert, Simple!insert, ULP!Simple!remove, Simple!remove, ULP!Simple!Internal,
         Simple!Internal
<1>6. ASSUME NEW rids, ULP!Simple!update_add_ops_to_log(rids) PROVE Simple!update_add_ops_to_log(rids)
  BY <1>6
     DEF SimpleSeen, ULP!Simple!update_add_ops_to_log, Simple!update_add_ops_to_log,
         ULP!Simple!Internal, Simple!Internal, ULP!Simple!Cardinality, Simple!Cardinality
<1>7. ASSUME NEW v, ULP!Simple!update_incr_version(v) PROVE Simple!update_incr_version(v)
  BY <1>7
     DEF SimpleSeen, ULP!Simple!update_incr_version, Simple!update_incr_version,
         ULP!Simple!Internal, Simple!Internal
<1>8. ASSUME NEW rid, ULP!Simple!update_finish(rid) PROVE Simple!update_finish(rid)
  BY <1>8
     DEF SimpleSeen, ULP!Simple!update_finish, Simple!update_finish, ULP!Simple!remove,
         Simple!remove, ULP!Simple!End, Simple!End, ULP!Simple!nrstate_at_version,
         Simple!nrstate_at_version, ULP!Simple!dispatch_mut_spec, Simple!dispatch_mut_spec,
         ULP!Simple!compute_nrstate_at_version, Simple!compute_nrstate_at_version
<1>9. ASSUME NEW n, NEW v, ULP!Simple!update_replica_update(n, v) PROVE Simple!update_replica_update(n, v)
  BY <1>9
     DEF SimpleSeen, ULP!Simple!update_replica_update, Simple!update_replica_update,
         ULP!Simple!Internal, Simple!Internal
<1>10. ASSUME ULP!Simple!no_op PROVE Simple!no_op
  BY <1>10 DEF SimpleSeen, ULP!Simple!no_op, Simple!no_op, ULP!Simple!Internal, Simple!Internal
<1>11. /\ ULP!Simple!Batches = Simple!Batches /\ ULP!Simple!Version = Simple!Version
       /\ ULP!Simple!Replica = Simple!Replica
  BY DEF SimpleSeen, ULP!Simple!Batches, Simple!Batches, ULP!Simple!Cardinality, Simple!Cardinality,
         ULP!Simple!Version, Simple!Version, ULP!Simple!Replica, Simple!Replica
<1>12. UNCHANGED ULP!Simple!vars => UNCHANGED Simple!vars
  BY DEF SimpleSeen, ULP!Simple!vars, Simple!vars
<1>13. ULP!Simple!Next => Simple!Next
  BY <1>1, <1>2, <1>3, <1>4, <1>5, <1>7, <1>8, <1>9, <1>10, <1>11 DEF ULP!Simple!Next, Simple!Next
<1> QED BY <1>6, <1>11, <1>12, <1>13

LEMMA SimpleStart == SimpleSeen /\ ULP!Simple!Init => Simple!Init
BY DEF SimpleSeen, ULP!Simple!Init, Simple!Init, ULP!Simple!Empty, Simple!Empty,
       ULP!Simple!Internal, Simple!Internal, ULP!Simple!Replica, Simple!Replica

(* Node replication is linearizable: an update takes effect when its batch *)
(* enters the log and answers from the state right before it there, a read *)
(* takes effect when it sees its replica, at a version no older than the   *)
(* upper bound when it began (execute and execute_mut of exec/replica.rs). *)
THEOREM RefinesSimpleLogCorrect == NRSpec => RefinesSimpleLog
<1>1. NRSpec => ULP!Simple!BatchSpec
  BY NRBatches, BatchesSimple
<1> QED BY <1>1, SimpleSteps, SimpleStart, SimpleIsSeen, SimpleIsSeenNext, NodeCorrect, PTL
   DEF ULP!Simple!BatchSpec, RefinesSimpleLog, Simple!BatchSpec
=============================================================================
