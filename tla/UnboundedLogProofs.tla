------------------------- MODULE UnboundedLogProofs -------------------------
(***************************************************************************)
(* The invariants of the unbounded log, and that it implements the simple  *)
(* log, for any number of nodes and requests, update by update and with    *)
(* the batches of the implementation. The data structure is the one of     *)
(* Dispatch; the bound on the log is the only thing the source does not    *)
(* have.                                                                   *)
(***************************************************************************)
EXTENDS UnboundedLogRefinement, SequenceTheorems, FiniteSetTheorems, TLAPS

(* The invariant again, with the state its parts speak of as parameters:   *)
(* l is a log of which t entries are in use, bound the version upper       *)
(* bound, c a combiner and v the local version of its node.                *)

NoneOf(l, start, end, n) == \A k \in start .. end - 1 : l[k].node_id # n

Matches(l, updates, queue, from, start, end, n) ==
  /\ \A i \in from + 1 .. Len(queue) :
       /\ queue[i] \in DOMAIN updates
       /\ updates[queue[i]].state = "Placed"
       /\ updates[queue[i]].idx \in start .. end - 1
       /\ l[updates[queue[i]].idx].node_id = n
  /\ \A i, j \in from + 1 .. Len(queue) :
       i < j => updates[queue[i]].idx < updates[queue[j]].idx
  /\ \A k \in start .. end - 1 :
       l[k].node_id = n => \E i \in from + 1 .. Len(queue) : updates[queue[i]].idx = k

Answered(updates, queue, count) ==
  \A i \in 1 .. count : queue[i] \in DOMAIN updates =>
     updates[queue[i]].state \in {"Applied", "Done"}

CombinerOK(c, v, t, bound, l, updates, n) ==
  /\ seq_unique(c.queued_ops)
  /\ c.state = "Ready" => NoneOf(l, v, t, n)
  /\ c.state = "Placed" => Matches(l, updates, c.queued_ops, 0, v, t, n)
  /\ c.state = "LoadedLocalVersion" =>
       c.lversion = v /\ Matches(l, updates, c.queued_ops, 0, c.lversion, t, n)
  /\ c.state = "Loop" =>
       /\ c.tail <= t
       /\ c.lversion \in v .. c.tail
       /\ c.idx <= Len(c.queued_ops)
       /\ Matches(l, updates, c.queued_ops, c.idx, c.lversion, c.tail, n)
       /\ NoneOf(l, c.tail, t, n)
       /\ Answered(updates, c.queued_ops, c.idx)
  /\ c.state = "UpdatedVersion" =>
       /\ c.tail \in v .. bound
       /\ NoneOf(l, c.tail, t, n)
       /\ Answered(updates, c.queued_ops, Len(c.queued_ops))

Current(c, v) ==
  CASE c.state = "Loop" -> c.lversion
    [] c.state = "UpdatedVersion" -> c.tail
    [] OTHER -> v

Prefix(l, v) == [i \in 1 .. v |-> l[i - 1].op]

Requests(c) == {c.queued_ops[i] : i \in DOMAIN c.queued_ops}

NodeOK(c, v, replica, t, bound, l, updates, n) ==
  /\ v <= bound
  /\ Current(c, v) <= t
  /\ CombinerOK(c, v, t, bound, l, updates, n)
  /\ replica = Prefix(l, Current(c, v))

(* current is the version that the node of the read has come to. *)
ReadOK(read, current, bound, l) ==
  /\ read.state # "Init" => read.version_upper_bound <= bound
  /\ read.state \in {"ReadyToRead", "Done"} => read.version_upper_bound <= current
  /\ read.state = "Done" =>
       \E v \in read.version_upper_bound .. bound : v <= current /\ read.ret = Prefix(l, v)

UpdateOK(update, t, bound, l) ==
  update.state \in {"Applied", "Done"} =>
    /\ update.idx < t
    /\ update.ret = Prefix(l, update.idx)
    /\ update.state = "Done" => update.idx < bound

NodesOK ==
  \A n \in NodeId :
     NodeOK(combiner[n], local_versions[n], replicas[n], tail, version_upper_bound, log, local_updates, n)

QueuesApart ==
  \A n, m \in NodeId : n # m => Requests(combiner[n]) \cap Requests(combiner[m]) = {}

ReadsOK ==
  \A rid \in DOMAIN local_reads :
     LET n == local_reads[rid].node_id
     IN  ReadOK(local_reads[rid], Current(combiner[n], local_versions[n]), version_upper_bound, log)

UpdatesOK ==
  \A rid \in DOMAIN local_updates :
     UpdateOK(local_updates[rid], tail, version_upper_bound, log)

Ind ==
  /\ UnboundedLogTypeOK
  /\ version_upper_bound <= tail
  /\ NodesOK /\ QueuesApart /\ ReadsOK /\ UpdatesOK

-----------------------------------------------------------------------------
(* The invariant of the module and its restatement say the same. *)

LEMMA CurrentIs ==
  ASSUME NEW n \in NodeId
  PROVE  current_local_version(n) = Current(combiner[n], local_versions[n])
BY DEF current_local_version, Current

LEMMA NodeOKIs ==
  ASSUME NEW n \in NodeId
  PROVE  wf_combiner_for_node_id(n)
           <=> CombinerOK(combiner[n], local_versions[n], tail, version_upper_bound, log, local_updates, n)
<1>1. \A start, end : LogRangeNoNodeId(start, end, n) <=> NoneOf(log, start, end, n)
  BY DEF LogRangeNoNodeId, NoneOf
<1>2. \A queue, from, start, end :
        LogRangeMatchesQueue(queue, from, start, end, n) <=> Matches(log, local_updates, queue, from, start, end, n)
  BY DEF LogRangeMatchesQueue, Matches, IsPlaced
<1>3. \A queue, bound : QueueRidsUpdateDone(queue, bound) <=> Answered(local_updates, queue, bound)
  BY DEF QueueRidsUpdateDone, Answered
<1> QED BY <1>1, <1>2, <1>3, Zenon DEF wf_combiner_for_node_id, CombinerOK

LEMMA IndImplies == Ind => UnboundedLogInv
<1> SUFFICES ASSUME Ind PROVE UnboundedLogInv
  OBVIOUS
<1> USE DEF Ind
<1>1. \A v : nrstate_at_version(v) = Prefix(log, v)
  BY DEF nrstate_at_version, Prefix
<1>t. /\ \A rid \in DOMAIN local_reads : local_reads[rid].node_id \in NodeId
  BY DEF UnboundedLogTypeOK, ReadonlyState, ReadInit
<1>2. versions_ordered
  BY <1>t, CurrentIs DEF versions_ordered, NodesOK, NodeOK, ReadsOK, ReadOK
<1>3. combiner_states_wf
  BY NodeOKIs DEF combiner_states_wf, NodesOK, NodeOK, QueuesApart, Queued, Requests
<1>4. replica_state
  BY <1>1, CurrentIs DEF replica_state, NodesOK, NodeOK
<1>5. results_match
  <2>1. \A rid \in DOMAIN local_updates : update_results_match(local_updates[rid])
    BY <1>1 DEF UpdatesOK, UpdateOK, update_results_match, dispatch_mut_spec
  <2>2. \A rid \in DOMAIN local_reads : read_results_match(local_reads[rid])
    BY <1>1, <1>t, CurrentIs DEF ReadsOK, ReadOK, read_results_match, dispatch_spec
  <2> QED BY <2>1, <2>2 DEF results_match
<1> QED BY <1>2, <1>3, <1>4, <1>5 DEF UnboundedLogInv


-----------------------------------------------------------------------------
(* Fields *)

LEMMA CombinerFields ==
  ASSUME NEW c \in CombinerState
  PROVE  /\ c.queued_ops \in Seq(ReqId)
         /\ c.state \in {"Ready", "Placed", "LoadedLocalVersion", "Loop", "UpdatedVersion"}
         /\ c.state = "Ready" => c.queued_ops = << >>
         /\ c.state = "LoadedLocalVersion" => c.lversion \in LogIdx
         /\ c.state = "Loop" => c.lversion \in LogIdx /\ c.idx \in Nat /\ c.tail \in LogIdx
         /\ c.state = "UpdatedVersion" => c.tail \in LogIdx
<1>1. CASE c = Ready
  <2>1. << >> \in Seq(ReqId)
    OBVIOUS
  <2> QED BY <1>1, <2>1 DEF Ready
<1>2. CASE c # Ready
  BY <1>2 DEF CombinerState
<1> QED BY <1>1, <1>2

LEMMA ReadFields ==
  ASSUME NEW read \in ReadonlyState
  PROVE  /\ read.node_id \in NodeId
         /\ read.state \in {"Init", "VersionUpperBound", "ReadyToRead", "Done"}
         /\ read.state = "Init" => read = ReadInit(read.node_id)
         /\ read.state # "Init" => read.version_upper_bound \in LogIdx
BY DEF ReadonlyState, ReadInit

LEMMA UpdateFields ==
  ASSUME NEW update \in UpdateState
  PROVE  /\ update.state \in {"Init", "Placed", "Applied", "Done"}
         /\ update.state \in {"Init", "Placed"} => update.op \in Ops
         /\ update.state # "Init" => update.idx \in LogIdx
         /\ update.state \in {"Applied", "Done"} => update.ret \in State
BY DEF UpdateState

LEMMA LogIdxIsNat == \A v \in LogIdx : v \in Nat /\ v <= MAX_LOG
BY UnboundedLogAssumption DEF LogIdx

(* What the invariant says of the state in general, and of node n. *)
LEMMA Before ==
  ASSUME Ind
  PROVE  /\ tail \in Nat /\ version_upper_bound \in Nat /\ version_upper_bound <= tail
         /\ DOMAIN log = 0 .. tail - 1
         /\ \A k \in 0 .. tail - 1 : log[k].op \in Ops /\ log[k].node_id \in NodeId
         /\ \A rid \in DOMAIN local_reads : local_reads[rid] \in ReadonlyState
         /\ \A rid \in DOMAIN local_updates : local_updates[rid] \in UpdateState
         /\ \A n \in NodeId :
              /\ combiner[n] \in CombinerState
              /\ local_versions[n] \in Nat /\ replicas[n] \in State
              /\ NodeOK(combiner[n], local_versions[n], replicas[n], tail, version_upper_bound,
                        log, local_updates, n)
BY LogIdxIsNat DEF Ind, UnboundedLogTypeOK, NodesOK

LEMMA PrefixSame ==
  ASSUME NEW l, NEW l2, NEW t \in Nat, NEW v \in Nat, v <= t, \A k \in 0 .. t - 1 : l2[k] = l[k]
  PROVE  Prefix(l2, v) = Prefix(l, v)
<1>1. \A i \in 1 .. v : i - 1 \in 0 .. t - 1
  OBVIOUS
<1> QED BY <1>1 DEF Prefix

LEMMA CurrentType ==
  ASSUME NEW c \in CombinerState, NEW v \in Nat
  PROVE  Current(c, v) \in Nat
<1>1. c.state = "Loop" => Current(c, v) = c.lversion
  BY DEF Current
<1>2. c.state = "UpdatedVersion" => Current(c, v) = c.tail
  BY DEF Current
<1>3. c.state \notin {"Loop", "UpdatedVersion"} => Current(c, v) = v
  BY DEF Current
<1> QED BY <1>1, <1>2, <1>3, CombinerFields, LogIdxIsNat

-----------------------------------------------------------------------------
(* What stays true of one actor while another one works *)

LEMMA MatchesStays ==
  ASSUME NEW l, NEW l2, NEW updates, NEW updates2, NEW queue \in Seq(ReqId), NEW from \in Nat,
         NEW start \in Nat, NEW end \in Nat, NEW end2 \in Nat, NEW n, end <= end2,
         \A k \in 0 .. end - 1 : l2[k] = l[k],
         \A k \in end .. end2 - 1 : l2[k].node_id # n,
         \A i \in from + 1 .. Len(queue) :
            queue[i] \in DOMAIN updates /\ updates[queue[i]].state = "Placed" =>
              queue[i] \in DOMAIN updates2 /\ updates2[queue[i]] = updates[queue[i]],
         Matches(l, updates, queue, from, start, end, n)
  PROVE  Matches(l2, updates2, queue, from, start, end2, n)
<1>1. ASSUME NEW i \in from + 1 .. Len(queue)
      PROVE  /\ queue[i] \in DOMAIN updates2
             /\ updates2[queue[i]] = updates[queue[i]]
             /\ updates2[queue[i]].state = "Placed"
             /\ updates2[queue[i]].idx \in start .. end2 - 1
             /\ l2[updates2[queue[i]].idx].node_id = n
  <2>1. /\ queue[i] \in DOMAIN updates /\ updates[queue[i]].state = "Placed"
        /\ updates[queue[i]].idx \in start .. end - 1
        /\ l[updates[queue[i]].idx].node_id = n
    BY DEF Matches
  <2>2. updates[queue[i]].idx \in 0 .. end - 1 /\ updates[queue[i]].idx \in start .. end2 - 1
    BY <2>1
  <2> QED BY <2>1, <2>2
<1>2. \A i, j \in from + 1 .. Len(queue) : i < j => updates2[queue[i]].idx < updates2[queue[j]].idx
  BY <1>1 DEF Matches
<1>3. ASSUME NEW k \in start .. end2 - 1, l2[k].node_id = n
      PROVE  \E i \in from + 1 .. Len(queue) : updates2[queue[i]].idx = k
  <2>1. k \in start .. end - 1 /\ k \in 0 .. end - 1
    BY <1>3
  <2>2. l[k].node_id = n
    BY <1>3, <2>1
  <2> QED BY <1>1, <2>1, <2>2 DEF Matches
<1> QED BY <1>1, <1>2, <1>3 DEF Matches

LEMMA NoneOfStays ==
  ASSUME NEW l, NEW l2, NEW start \in Nat, NEW t \in Nat, NEW t2 \in Nat, NEW n, t <= t2,
         \A k \in 0 .. t - 1 : l2[k] = l[k], \A k \in t .. t2 - 1 : l2[k].node_id # n,
         NoneOf(l, start, t, n)
  PROVE  NoneOf(l2, start, t2, n)
<1> SUFFICES ASSUME NEW k \in start .. t2 - 1 PROVE l2[k].node_id # n
  BY DEF NoneOf
<1>1. CASE k < t
  BY <1>1 DEF NoneOf
<1>2. CASE ~(k < t)
  BY <1>2
<1> QED BY <1>1, <1>2

(* The requests a combiner has queued are touched by nobody else, except   *)
(* that those that are answered may return.                                *)
Untouched(updates, updates2, queue) ==
  \A i \in 1 .. Len(queue) :
    /\ queue[i] \in DOMAIN updates2 => queue[i] \in DOMAIN updates
    /\ queue[i] \in DOMAIN updates /\ updates[queue[i]].state = "Placed" =>
         queue[i] \in DOMAIN updates2 /\ updates2[queue[i]] = updates[queue[i]]
    /\ queue[i] \in DOMAIN updates2 /\ updates[queue[i]].state \in {"Applied", "Done"} =>
         updates2[queue[i]].state \in {"Applied", "Done"}

LEMMA AnsweredStays ==
  ASSUME NEW updates, NEW updates2, NEW queue \in Seq(ReqId), NEW count \in Nat, count <= Len(queue),
         Untouched(updates, updates2, queue), Answered(updates, queue, count)
  PROVE  Answered(updates2, queue, count)
<1>1. \A i \in 1 .. count : i \in 1 .. Len(queue)
  OBVIOUS
<1> QED BY <1>1 DEF Answered, Untouched

LEMMA CombinerStays ==
  ASSUME NEW c \in CombinerState, NEW v \in Nat, NEW t \in Nat, NEW t2 \in Nat,
         NEW bound \in Nat, NEW bound2 \in Nat, NEW l, NEW l2, NEW updates, NEW updates2, NEW n,
         t <= t2, bound <= bound2,
         \A k \in 0 .. t - 1 : l2[k] = l[k], \A k \in t .. t2 - 1 : l2[k].node_id # n,
         Untouched(updates, updates2, c.queued_ops),
         CombinerOK(c, v, t, bound, l, updates, n)
  PROVE  CombinerOK(c, v, t2, bound2, l2, updates2, n)
<1> DEFINE queue == c.queued_ops
<1>1. queue \in Seq(ReqId) /\ Len(queue) \in Nat
  BY CombinerFields
<1>2. \A from \in Nat : \A i \in from + 1 .. Len(queue) : i \in 1 .. Len(queue)
  BY <1>1
<1>3. \A from \in Nat : \A i \in from + 1 .. Len(queue) :
         queue[i] \in DOMAIN updates /\ updates[queue[i]].state = "Placed" =>
           queue[i] \in DOMAIN updates2 /\ updates2[queue[i]] = updates[queue[i]]
  BY <1>2 DEF Untouched
<1> HIDE DEF queue
<1>4. c.state = "Ready" => NoneOf(l2, v, t2, n)
  BY NoneOfStays DEF CombinerOK
<1>5. ASSUME c.state \in {"Placed", "LoadedLocalVersion"}
      PROVE  Matches(l2, updates2, queue, 0, v, t2, n)
  <2>1. Matches(l, updates, queue, 0, v, t, n)
    BY <1>5 DEF CombinerOK, queue
  <2>2. \A i \in 0 + 1 .. Len(queue) :
          queue[i] \in DOMAIN updates /\ updates[queue[i]].state = "Placed" =>
            queue[i] \in DOMAIN updates2 /\ updates2[queue[i]] = updates[queue[i]]
    BY <1>3
  <2>3. 0 \in Nat
    OBVIOUS
  <2> QED BY <1>1, <2>1, <2>2, <2>3, MatchesStays
<1>6. c.state = "LoadedLocalVersion" => c.lversion = v
  BY DEF CombinerOK
<1>7. ASSUME c.state = "Loop"
      PROVE  /\ c.tail <= t2
             /\ c.lversion \in v .. c.tail
             /\ c.idx <= Len(queue)
             /\ Matches(l2, updates2, queue, c.idx, c.lversion, c.tail, n)
             /\ NoneOf(l2, c.tail, t2, n)
             /\ Answered(updates2, queue, c.idx)
  <2>1. /\ c.tail <= t /\ c.lversion \in v .. c.tail /\ c.idx <= Len(queue)
        /\ Matches(l, updates, queue, c.idx, c.lversion, c.tail, n)
        /\ NoneOf(l, c.tail, t, n) /\ Answered(updates, queue, c.idx)
    BY <1>7 DEF CombinerOK, queue
  <2>2. c.lversion \in Nat /\ c.idx \in Nat /\ c.tail \in Nat
    BY <1>7, CombinerFields, LogIdxIsNat
  <2>3. /\ \A k \in 0 .. c.tail - 1 : l2[k] = l[k]
        /\ \A k \in c.tail .. c.tail - 1 : l2[k].node_id # n
    BY <2>1, <2>2
  <2>4. Matches(l2, updates2, queue, c.idx, c.lversion, c.tail, n)
    <3>1. \A i \in c.idx + 1 .. Len(queue) :
            queue[i] \in DOMAIN updates /\ updates[queue[i]].state = "Placed" =>
              queue[i] \in DOMAIN updates2 /\ updates2[queue[i]] = updates[queue[i]]
      BY <1>3, <2>2
    <3>2. c.tail <= c.tail
      BY <2>2
    <3> QED BY <1>1, <2>1, <2>2, <2>3, <3>1, <3>2, MatchesStays
  <2>5. NoneOf(l2, c.tail, t2, n)
    BY <2>1, <2>2, NoneOfStays
  <2>6. Answered(updates2, queue, c.idx)
    BY <1>1, <2>1, <2>2, AnsweredStays DEF queue
  <2> QED BY <2>1, <2>2, <2>4, <2>5, <2>6
<1>8. ASSUME c.state = "UpdatedVersion"
      PROVE  /\ c.tail \in v .. bound2
             /\ NoneOf(l2, c.tail, t2, n)
             /\ Answered(updates2, queue, Len(queue))
  <2>1. /\ c.tail \in v .. bound
        /\ NoneOf(l, c.tail, t, n) /\ Answered(updates, queue, Len(queue))
    BY <1>8 DEF CombinerOK, queue
  <2>2. c.tail \in Nat
    BY <1>8, CombinerFields, LogIdxIsNat
  <2>3. NoneOf(l2, c.tail, t2, n)
    BY <2>1, <2>2, NoneOfStays
  <2>4. Answered(updates2, queue, Len(queue))
    BY <1>1, <2>1, AnsweredStays DEF queue
  <2> QED BY <2>1, <2>2, <2>3, <2>4
<1> QED BY <1>4, <1>5, <1>6, <1>7, <1>8 DEF CombinerOK, queue

LEMMA ReadStays ==
  ASSUME NEW read \in ReadonlyState, NEW current \in Nat, NEW current2 \in Nat, NEW bound \in Nat,
         NEW bound2 \in Nat, NEW t \in Nat, NEW l, NEW l2, current <= current2, bound <= bound2,
         bound <= t, \A k \in 0 .. t - 1 : l2[k] = l[k],
         ReadOK(read, current, bound, l)
  PROVE  ReadOK(read, current2, bound2, l2)
<1>1. read.state # "Init" => read.version_upper_bound \in Nat
  BY ReadFields, LogIdxIsNat
<1>2. read.state # "Init" => read.version_upper_bound <= bound2
  BY <1>1 DEF ReadOK
<1>3. read.state \in {"ReadyToRead", "Done"} => read.version_upper_bound <= current2
  BY <1>1 DEF ReadOK
<1>4. ASSUME read.state = "Done"
      PROVE  \E v \in read.version_upper_bound .. bound2 : v <= current2 /\ read.ret = Prefix(l2, v)
  <2>1. PICK v \in read.version_upper_bound .. bound : v <= current /\ read.ret = Prefix(l, v)
    BY <1>4 DEF ReadOK
  <2>2. v \in Nat /\ v <= t /\ v \in read.version_upper_bound .. bound2 /\ v <= current2
    BY <1>1, <1>4, <2>1
  <2>3. Prefix(l2, v) = Prefix(l, v)
    BY <2>2, PrefixSame
  <2> QED BY <2>1, <2>2, <2>3
<1> QED BY <1>2, <1>3, <1>4 DEF ReadOK

LEMMA UpdateStays ==
  ASSUME NEW update \in UpdateState, NEW t \in Nat, NEW t2 \in Nat, NEW bound \in Nat,
         NEW bound2 \in Nat, NEW l, NEW l2, t <= t2, bound <= bound2,
         \A k \in 0 .. t - 1 : l2[k] = l[k],
         UpdateOK(update, t, bound, l)
  PROVE  UpdateOK(update, t2, bound2, l2)
<1> SUFFICES ASSUME update.state \in {"Applied", "Done"}
             PROVE  /\ update.idx < t2
                    /\ update.ret = Prefix(l2, update.idx)
                    /\ update.state = "Done" => update.idx < bound2
  BY DEF UpdateOK
<1>1. update.idx \in Nat
  BY UpdateFields, LogIdxIsNat
<1>2. update.idx < t /\ update.ret = Prefix(l, update.idx) /\ (update.state = "Done" => update.idx < bound)
  BY DEF UpdateOK
<1>3. Prefix(l2, update.idx) = Prefix(l, update.idx)
  BY <1>1, <1>2, PrefixSame
<1> QED BY <1>1, <1>2, <1>3


-----------------------------------------------------------------------------
(* Steps *)

LEMMA InitInd == Init => Ind
<1> SUFFICES ASSUME Init PROVE Ind
  OBVIOUS
<1> USE UnboundedLogAssumption DEF Init
<1>1. Empty = [k \in {} |-> 0] /\ DOMAIN Empty = {}
  BY DEF Empty
<1>2. UnboundedLogTypeOK
  <2>1. 0 \in LogIdx
    BY DEF LogIdx
  <2>2. log \in [0 .. tail - 1 -> [op : Ops, node_id : NodeId]]
    <3>1. 0 .. 0 - 1 = {}
      OBVIOUS
    <3> QED BY <1>1, <3>1
  <2>3. init_spec \in State
    BY DEF init_spec, State
  <2>4. Ready \in CombinerState
    BY DEF CombinerState
  <2> QED BY <1>1, <2>1, <2>2, <2>3, <2>4 DEF UnboundedLogTypeOK
<1>3. NodesOK
  <2> SUFFICES ASSUME NEW n \in NodeId
               PROVE  NodeOK(Ready, 0, init_spec, 0, 0, log, local_updates, n)
    BY DEF NodesOK
  <2>1. Current(Ready, 0) = 0
    BY DEF Current, Ready
  <2>2. Prefix(log, 0) = init_spec
    BY DEF Prefix, init_spec
  <2>3. CombinerOK(Ready, 0, 0, 0, log, local_updates, n)
    BY DEF CombinerOK, Ready, seq_unique, NoneOf
  <2> QED BY <2>1, <2>2, <2>3 DEF NodeOK
<1>4. QueuesApart
  BY DEF QueuesApart, Requests, Ready
<1> QED BY <1>1, <1>2, <1>3, <1>4 DEF Ind, ReadsOK, UpdatesOK

(* A request comes in, goes out or moves on: no combiner is concerned if   *)
(* what is placed in the log stays placed.                                 *)
LEMMA RequestFrame ==
  ASSUME Ind, UnboundedLogTypeOK',
         UNCHANGED <<log, tail, replicas, local_versions, version_upper_bound, combiner>>,
         \A n \in NodeId : Untouched(local_updates, local_updates', combiner[n].queued_ops),
         \A rid \in DOMAIN local_reads' :
            LET n == local_reads'[rid].node_id
            IN  ReadOK(local_reads'[rid], Current(combiner[n], local_versions[n]), version_upper_bound, log),
         \A rid \in DOMAIN local_updates' :
            UpdateOK(local_updates'[rid], tail, version_upper_bound, log)
  PROVE  Ind'
<1>1. ASSUME NEW n \in NodeId
      PROVE  NodeOK(combiner[n], local_versions[n], replicas[n], tail, version_upper_bound,
                    log, local_updates', n)
  <2>1. /\ combiner[n] \in CombinerState /\ local_versions[n] \in Nat /\ tail \in Nat
        /\ version_upper_bound \in Nat
        /\ NodeOK(combiner[n], local_versions[n], replicas[n], tail, version_upper_bound,
                  log, local_updates, n)
    BY Before
  <2>2. Untouched(local_updates, local_updates', combiner[n].queued_ops)
    OBVIOUS
  <2>3. /\ tail <= tail /\ version_upper_bound <= version_upper_bound
        /\ \A k \in 0 .. tail - 1 : log[k] = log[k]
        /\ \A k \in tail .. tail - 1 : log[k].node_id # n
    BY <2>1
  <2>4. CombinerOK(combiner[n], local_versions[n], tail, version_upper_bound, log, local_updates, n)
    BY <2>1 DEF NodeOK
  <2>5. CombinerOK(combiner[n], local_versions[n], tail, version_upper_bound, log, local_updates', n)
    BY <2>1, <2>2, <2>3, <2>4, CombinerStays
  <2> QED BY <2>1, <2>5 DEF NodeOK
<1>2. NodeId' = NodeId
  BY DEF NodeId
<1>3. NodesOK'
  BY <1>1, <1>2 DEF NodesOK
<1>4. QueuesApart'
  BY <1>2 DEF Ind, QueuesApart
<1>5. ReadsOK' /\ UpdatesOK'
  BY DEF ReadsOK, UpdatesOK
<1> QED BY <1>3, <1>4, <1>5 DEF Ind

(* The combiner of node n works. *)
LEMMA CombinerFrame ==
  ASSUME NEW n \in NodeId, Ind, UnboundedLogTypeOK', local_reads' = local_reads,
         tail <= tail', version_upper_bound <= version_upper_bound', version_upper_bound' <= tail',
         \A k \in 0 .. tail - 1 : log'[k] = log[k],
         \A k \in tail .. tail' - 1 : log'[k].node_id = n,
         \A m \in NodeId \ {n} :
            /\ combiner'[m] = combiner[m] /\ local_versions'[m] = local_versions[m]
            /\ replicas'[m] = replicas[m]
            /\ Untouched(local_updates, local_updates', combiner[m].queued_ops)
            /\ Requests(combiner'[n]) \cap Requests(combiner[m]) = {},
         Current(combiner[n], local_versions[n]) <= Current(combiner'[n], local_versions'[n]),
         NodeOK(combiner'[n], local_versions'[n], replicas'[n], tail', version_upper_bound',
                log', local_updates', n),
         \A rid \in DOMAIN local_updates' :
            UpdateOK(local_updates'[rid], tail', version_upper_bound', log')
  PROVE  Ind'
<1>0. /\ tail \in Nat /\ tail' \in Nat /\ version_upper_bound \in Nat /\ version_upper_bound' \in Nat
      /\ version_upper_bound <= tail
      /\ \A m \in NodeId : /\ combiner[m] \in CombinerState /\ combiner'[m] \in CombinerState
                           /\ local_versions[m] \in Nat /\ local_versions'[m] \in Nat
  BY LogIdxIsNat DEF Ind, UnboundedLogTypeOK
<1>1. ASSUME NEW m \in NodeId, m # n
      PROVE  NodeOK(combiner'[m], local_versions'[m], replicas'[m], tail', version_upper_bound',
                    log', local_updates', m)
  <2>1. /\ NodeOK(combiner[m], local_versions[m], replicas[m], tail, version_upper_bound,
                  log, local_updates, m)
        /\ combiner'[m] = combiner[m] /\ local_versions'[m] = local_versions[m]
        /\ replicas'[m] = replicas[m]
        /\ Untouched(local_updates, local_updates', combiner[m].queued_ops)
    BY <1>1, Before
  <2>2. \A k \in tail .. tail' - 1 : log'[k].node_id # m
    BY <1>1
  <2>3. CombinerOK(combiner[m], local_versions[m], tail, version_upper_bound, log, local_updates, m)
    BY <2>1 DEF NodeOK
  <2>4. CombinerOK(combiner[m], local_versions[m], tail', version_upper_bound', log', local_updates', m)
    BY <1>0, <2>1, <2>2, <2>3, CombinerStays
  <2> DEFINE current == Current(combiner[m], local_versions[m])
  <2>5. current \in Nat
    BY <1>0, CurrentType
  <2>6. /\ local_versions[m] <= version_upper_bound /\ current <= tail /\ replicas[m] = Prefix(log, current)
    BY <2>1 DEF NodeOK
  <2> HIDE DEF current
  <2>7. Prefix(log', current) = Prefix(log, current)
    <3>1. \A i \in 1 .. current : i - 1 \in 0 .. tail - 1
      BY <1>0, <2>5, <2>6
    <3>2. \A i \in 1 .. current : log'[i - 1].op = log[i - 1].op
      BY <3>1
    <3> QED BY <3>2 DEF Prefix
  <2>8. local_versions[m] <= version_upper_bound' /\ current <= tail'
    BY <1>0, <2>5, <2>6
  <2> QED BY <2>1, <2>4, <2>6, <2>7, <2>8 DEF NodeOK, current
<1>2. NodeId' = NodeId
  BY DEF NodeId
<1>3. NodesOK'
  BY <1>1, <1>2 DEF NodesOK
<1>4. QueuesApart'
  <2> SUFFICES ASSUME NEW m \in NodeId, NEW p \in NodeId, m # p
               PROVE  Requests(combiner'[m]) \cap Requests(combiner'[p]) = {}
    BY <1>2 DEF QueuesApart
  <2>1. CASE m # n /\ p # n
    BY <2>1 DEF Ind, QueuesApart
  <2>2. CASE m = n \/ p = n
    BY <2>2
  <2> QED BY <2>1, <2>2
<1>5. ReadsOK'
  <2> SUFFICES ASSUME NEW rid \in DOMAIN local_reads
               PROVE  LET m == local_reads[rid].node_id
                      IN  ReadOK(local_reads[rid], Current(combiner'[m], local_versions'[m]),
                                 version_upper_bound', log')
    BY DEF ReadsOK
  <2> DEFINE read == local_reads[rid]
             m == read.node_id
             current == Current(combiner[m], local_versions[m])
             current2 == Current(combiner'[m], local_versions'[m])
  <2>1. read \in ReadonlyState
    BY Before
  <2>2. m \in NodeId
    BY <2>1, ReadFields
  <2>3. current \in Nat /\ current2 \in Nat
    BY <1>0, <2>2, CurrentType
  <2>4. current <= current2
    <3>1. CASE m = n
      BY <3>1
    <3>2. CASE m # n
      <4>1. current2 = current
        BY <2>2, <3>2
      <4> QED BY <2>3, <4>1
    <3> QED BY <3>1, <3>2
  <2>5. ReadOK(read, current, version_upper_bound, log)
    BY DEF Ind, ReadsOK
  <2> HIDE DEF current, current2, read
  <2>6. ReadOK(read, current2, version_upper_bound', log')
    BY <1>0, <2>1, <2>3, <2>4, <2>5, ReadStays
  <2> QED BY <2>6 DEF current2, read
<1>6. UpdatesOK'
  BY DEF UpdatesOK
<1> QED BY <1>3, <1>4, <1>5, <1>6 DEF Ind


(* Only reads change. *)
LEMMA ReadStep ==
  ASSUME Ind,
         UNCHANGED <<log, tail, replicas, local_versions, version_upper_bound, local_updates, combiner>>,
         DOMAIN local_reads' \subseteq ReqId,
         \A rid \in DOMAIN local_reads' :
            LET n == local_reads'[rid].node_id
            IN  /\ local_reads'[rid] \in ReadonlyState
                /\ ReadOK(local_reads'[rid], Current(combiner[n], local_versions[n]), version_upper_bound, log)
  PROVE  Ind'
<1>1. UnboundedLogTypeOK'
  BY DEF Ind, UnboundedLogTypeOK
<1>2. \A n \in NodeId : Untouched(local_updates, local_updates', combiner[n].queued_ops)
  BY DEF Untouched
<1>3. \A rid \in DOMAIN local_updates' : UpdateOK(local_updates'[rid], tail, version_upper_bound, log)
  BY DEF Ind, UpdatesOK
<1> QED BY <1>1, <1>2, <1>3, RequestFrame

(* Only updates change. *)
LEMMA UpdateStep ==
  ASSUME Ind,
         UNCHANGED <<log, tail, replicas, local_versions, version_upper_bound, local_reads, combiner>>,
         DOMAIN local_updates' \subseteq ReqId,
         \A n \in NodeId : Untouched(local_updates, local_updates', combiner[n].queued_ops),
         \A rid \in DOMAIN local_updates' :
            /\ local_updates'[rid] \in UpdateState
            /\ UpdateOK(local_updates'[rid], tail, version_upper_bound, log)
  PROVE  Ind'
<1>1. UnboundedLogTypeOK'
  BY DEF Ind, UnboundedLogTypeOK
<1>2. \A rid \in DOMAIN local_reads' :
         LET n == local_reads'[rid].node_id
         IN  ReadOK(local_reads'[rid], Current(combiner[n], local_versions[n]), version_upper_bound, log)
  BY DEF Ind, ReadsOK
<1> QED BY <1>1, <1>2, RequestFrame

LEMMA CurrentAhead ==
  ASSUME NEW c \in CombinerState, NEW v \in Nat, NEW t, NEW bound, NEW l, NEW updates, NEW n,
         CombinerOK(c, v, t, bound, l, updates, n)
  PROVE  v <= Current(c, v)
<1>1. CASE c.state = "Loop"
  <2>1. c.lversion \in v .. c.tail /\ c.lversion \in Nat /\ c.tail \in Nat
    BY <1>1, CombinerFields, LogIdxIsNat DEF CombinerOK
  <2>2. Current(c, v) = c.lversion
    BY <1>1 DEF Current
  <2> QED BY <2>1, <2>2
<1>2. CASE c.state = "UpdatedVersion"
  <2>1. c.tail \in v .. bound
    BY <1>2 DEF CombinerOK
  <2>2. Current(c, v) = c.tail
    BY <1>2 DEF Current
  <2> QED BY <2>1, <2>2
<1>3. CASE c.state \notin {"Loop", "UpdatedVersion"}
  <2>1. Current(c, v) = v
    BY <1>3 DEF Current
  <2> QED BY <2>1
<1> QED BY <1>1, <1>2, <1>3

(* The steps of a read. *)
LEMMA ReadSteps ==
  ASSUME Ind, NEW rid \in ReqId,
         \/ \E n \in NodeId : add_ticket_read(rid, n)
         \/ consume_stub_read(rid)
         \/ readonly_version_upper_bound(rid) \/ readonly_ready_to_read(rid) \/ readonly_apply(rid)
  PROVE  Ind'
<1> DEFINE read == local_reads[rid]
           node == read.node_id
<1>1. /\ DOMAIN local_reads \subseteq ReqId
      /\ \A r \in DOMAIN local_reads :
            LET n == local_reads[r].node_id
            IN  /\ local_reads[r] \in ReadonlyState
                /\ ReadOK(local_reads[r], Current(combiner[n], local_versions[n]), version_upper_bound, log)
  BY DEF Ind, UnboundedLogTypeOK, ReadsOK
<1>2. CASE \E n \in NodeId : add_ticket_read(rid, n)
  <2>1. PICK n \in NodeId : add_ticket_read(rid, n)
    BY <1>2
  <2>2. /\ UNCHANGED <<log, tail, replicas, local_versions, version_upper_bound, local_updates, combiner>>
        /\ local_reads' = insert(local_reads, rid, ReadInit(n))
    BY <2>1 DEF add_ticket_read
  <2>3. ReadInit(n) \in ReadonlyState /\ ReadInit(n).state = "Init"
    BY DEF ReadonlyState, ReadInit
  <2>4. DOMAIN local_reads' = DOMAIN local_reads \cup {rid}
    BY <2>2 DEF insert
  <2>5. \A r \in DOMAIN local_reads' : local_reads'[r] = IF r = rid THEN ReadInit(n) ELSE local_reads[r]
    BY <2>2 DEF insert
  <2>6. \A current : ReadOK(ReadInit(n), current, version_upper_bound, log)
    BY <2>3 DEF ReadOK
  <2>7. \A r \in DOMAIN local_reads' :
            LET m == local_reads'[r].node_id
            IN  /\ local_reads'[r] \in ReadonlyState
                /\ ReadOK(local_reads'[r], Current(combiner[m], local_versions[m]), version_upper_bound, log)
    BY <1>1, <2>3, <2>4, <2>5, <2>6
  <2> QED BY <1>1, <2>2, <2>4, <2>7, ReadStep
<1>3. CASE consume_stub_read(rid)
  <2>1. /\ UNCHANGED <<log, tail, replicas, local_versions, version_upper_bound, local_updates, combiner>>
        /\ DOMAIN local_reads' = DOMAIN local_reads \ {rid}
        /\ \A r \in DOMAIN local_reads' : local_reads'[r] = local_reads[r]
    BY <1>3 DEF consume_stub_read, remove
  <2>2. DOMAIN local_reads' \subseteq ReqId
    BY <1>1, <2>1
  <2>3. \A r \in DOMAIN local_reads' :
            LET m == local_reads'[r].node_id
            IN  /\ local_reads'[r] \in ReadonlyState
                /\ ReadOK(local_reads'[r], Current(combiner[m], local_versions[m]), version_upper_bound, log)
    BY <1>1, <2>1
  <2> QED BY <2>1, <2>2, <2>3, ReadStep
(* The read is in flight and stays in flight. *)
<1>4. ASSUME NEW new \in ReadonlyState, new.node_id = node, rid \in DOMAIN local_reads,
             local_reads' = [local_reads EXCEPT ![rid] = new],
             UNCHANGED <<log, tail, replicas, local_versions, version_upper_bound, local_updates, combiner>>,
             ReadOK(new, Current(combiner[node], local_versions[node]), version_upper_bound, log)
      PROVE  Ind'
  <2>1. DOMAIN local_reads' = DOMAIN local_reads
    BY <1>4
  <2>2. \A r \in DOMAIN local_reads' : local_reads'[r] = IF r = rid THEN new ELSE local_reads[r]
    BY <1>4
  <2>3. \A r \in DOMAIN local_reads' :
            LET m == local_reads'[r].node_id
            IN  /\ local_reads'[r] \in ReadonlyState
                /\ ReadOK(local_reads'[r], Current(combiner[m], local_versions[m]), version_upper_bound, log)
    BY <1>1, <1>4, <2>1, <2>2
  <2> QED BY <1>1, <1>4, <2>1, <2>3, ReadStep
<1>5. ASSUME rid \in DOMAIN local_reads
      PROVE  /\ read \in ReadonlyState /\ node \in NodeId
             /\ combiner[node] \in CombinerState /\ local_versions[node] \in Nat
             /\ NodeOK(combiner[node], local_versions[node], replicas[node], tail, version_upper_bound,
                       log, local_updates, node)
             /\ ReadOK(read, Current(combiner[node], local_versions[node]), version_upper_bound, log)
  <2>1. read \in ReadonlyState
    BY <1>1, <1>5
  <2>2. node \in NodeId
    BY <2>1, ReadFields
  <2> QED BY <1>1, <1>5, <2>1, <2>2, Before
<1>6. version_upper_bound \in LogIdx /\ version_upper_bound \in Nat /\ \A n \in NodeId : local_versions[n] \in Nat
  BY LogIdxIsNat DEF Ind, UnboundedLogTypeOK
<1>7. CASE readonly_version_upper_bound(rid)
  <2> DEFINE new == VersionUpperBound(node, version_upper_bound)
  <2>1. /\ rid \in DOMAIN local_reads
        /\ UNCHANGED <<log, tail, replicas, local_versions, version_upper_bound, local_updates, combiner>>
        /\ local_reads' = [local_reads EXCEPT ![rid] = new]
    BY <1>7 DEF readonly_version_upper_bound
  <2>2. new \in ReadonlyState /\ new.node_id = node
    BY <1>5, <1>6, <2>1 DEF ReadonlyState, VersionUpperBound
  <2>3. \A current : ReadOK(new, current, version_upper_bound, log)
    BY <1>6 DEF ReadOK, VersionUpperBound
  <2> HIDE DEF new
  <2> QED BY <1>4, <2>1, <2>2, <2>3
<1>8. CASE readonly_ready_to_read(rid)
  <2> DEFINE new == ReadyToRead(node, read.version_upper_bound)
             current == Current(combiner[node], local_versions[node])
  <2>1. /\ rid \in DOMAIN local_reads
        /\ UNCHANGED <<log, tail, replicas, local_versions, version_upper_bound, local_updates, combiner>>
        /\ local_reads' = [local_reads EXCEPT ![rid] = new]
        /\ read.state = "VersionUpperBound"
        /\ local_versions[node] >= read.version_upper_bound
    BY <1>8 DEF readonly_ready_to_read
  <2>2. read.version_upper_bound \in LogIdx /\ read.version_upper_bound <= version_upper_bound
    BY <1>5, <2>1, ReadFields DEF ReadOK
  <2>3. new \in ReadonlyState /\ new.node_id = node
    BY <1>5, <2>1, <2>2 DEF ReadonlyState, ReadyToRead
  <2>4. local_versions[node] <= current /\ current \in Nat
    BY <1>5, <2>1, CurrentAhead, CurrentType DEF NodeOK
  <2>5. read.version_upper_bound <= current
    <3> HIDE DEF current
    <3> QED BY <1>5, <2>1, <2>2, <2>4, LogIdxIsNat
  <2>6. ReadOK(new, current, version_upper_bound, log)
    <3> HIDE DEF current
    <3> QED BY <2>2, <2>5 DEF ReadOK, ReadyToRead
  <2> HIDE DEF new
  <2> QED BY <1>4, <2>1, <2>3, <2>6
<1>9. CASE readonly_apply(rid)
  <2> DEFINE new == ReadDone(node, read.version_upper_bound, dispatch_spec(replicas[node]))
             current == Current(combiner[node], local_versions[node])
  <2>1. /\ rid \in DOMAIN local_reads
        /\ UNCHANGED <<log, tail, replicas, local_versions, version_upper_bound, local_updates, combiner>>
        /\ local_reads' = [local_reads EXCEPT ![rid] = new]
        /\ read.state = "ReadyToRead"
        /\ combiner[node].state = "Ready"
    BY <1>9 DEF readonly_apply, Combining
  <2>2. /\ read.version_upper_bound \in LogIdx /\ read.version_upper_bound <= version_upper_bound
        /\ read.version_upper_bound <= current
    BY <1>5, <2>1, ReadFields DEF ReadOK
  <2>3. current = local_versions[node]
    BY <2>1 DEF Current
  <2>4. local_versions[node] <= version_upper_bound /\ replicas[node] = Prefix(log, current)
    BY <1>5, <2>1 DEF NodeOK
  <2>5. replicas[node] \in State
    BY <1>5, <2>1, Before
  <2>6. new \in ReadonlyState /\ new.node_id = node
    BY <1>5, <2>1, <2>2, <2>5 DEF ReadonlyState, ReadDone, dispatch_spec
  <2>7. ReadOK(new, current, version_upper_bound, log)
    <3> HIDE DEF current
    <3>1. /\ new.state = "Done" /\ new.version_upper_bound = read.version_upper_bound
          /\ new.ret = Prefix(log, current)
      BY <2>4 DEF ReadDone, dispatch_spec
    <3>2. current \in read.version_upper_bound .. version_upper_bound /\ current <= current
      BY <1>5, <1>6, <2>1, <2>2, <2>3, <2>4, LogIdxIsNat
    <3> HIDE DEF new
    <3> QED BY <2>2, <3>1, <3>2 DEF ReadOK
  <2> HIDE DEF new
  <2> QED BY <1>4, <2>1, <2>6, <2>7
<1> QED BY <1>2, <1>3, <1>7, <1>8, <1>9

(* The steps of an update outside the combiners. *)
LEMMA UpdateSteps ==
  ASSUME Ind, NEW rid \in ReqId,
         add_ticket_write(rid) \/ consume_stub_write(rid) \/ update_done(rid)
  PROVE  Ind'
<1> DEFINE update == local_updates[rid]
<1>1. /\ DOMAIN local_updates \subseteq ReqId
      /\ \A r \in DOMAIN local_updates :
            /\ local_updates[r] \in UpdateState
            /\ UpdateOK(local_updates[r], tail, version_upper_bound, log)
      /\ \A n \in NodeId : combiner[n].queued_ops \in Seq(ReqId)
  BY CombinerFields DEF Ind, UnboundedLogTypeOK, UpdatesOK
<1>2. CASE add_ticket_write(rid)
  <2> DEFINE new == UpdateInit(WriteOp(rid))
  <2>1. /\ UNCHANGED <<log, tail, replicas, local_versions, version_upper_bound, local_reads, combiner>>
        /\ DOMAIN local_updates' = DOMAIN local_updates \cup {rid}
        /\ \A r \in DOMAIN local_updates' : local_updates'[r] = IF r = rid THEN new ELSE local_updates[r]
    BY <1>2 DEF add_ticket_write, insert
  <2>2. new \in UpdateState /\ new.state = "Init"
    BY DEF UpdateState, UpdateInit, Ops
  <2>3. UpdateOK(new, tail, version_upper_bound, log)
    BY <2>2 DEF UpdateOK
  <2> HIDE DEF new
  <2>4. ASSUME NEW n \in NodeId
        PROVE  Untouched(local_updates, local_updates', combiner[n].queued_ops)
    <3>1. \A i \in 1 .. Len(combiner[n].queued_ops) : combiner[n].queued_ops[i] # rid
      BY <1>1, <1>2 DEF add_ticket_write, Fresh
    <3> QED BY <2>1, <3>1 DEF Untouched
  <2>5. DOMAIN local_updates' \subseteq ReqId
    BY <1>1, <2>1
  <2>6. \A r \in DOMAIN local_updates' :
            /\ local_updates'[r] \in UpdateState
            /\ UpdateOK(local_updates'[r], tail, version_upper_bound, log)
    BY <1>1, <2>1, <2>2, <2>3
  <2> QED BY <2>1, <2>4, <2>5, <2>6, UpdateStep
<1>3. CASE consume_stub_write(rid)
  <2>1. /\ UNCHANGED <<log, tail, replicas, local_versions, version_upper_bound, local_reads, combiner>>
        /\ rid \in DOMAIN local_updates /\ update.state = "Done"
        /\ DOMAIN local_updates' = DOMAIN local_updates \ {rid}
        /\ \A r \in DOMAIN local_updates' : local_updates'[r] = local_updates[r]
    BY <1>3 DEF consume_stub_write, remove
  <2>2. \A n \in NodeId : Untouched(local_updates, local_updates', combiner[n].queued_ops)
    BY <2>1 DEF Untouched
  <2>3. DOMAIN local_updates' \subseteq ReqId
    BY <1>1, <2>1
  <2>4. \A r \in DOMAIN local_updates' :
            /\ local_updates'[r] \in UpdateState
            /\ UpdateOK(local_updates'[r], tail, version_upper_bound, log)
    BY <1>1, <2>1
  <2> QED BY <2>1, <2>2, <2>3, <2>4, UpdateStep
<1>4. CASE update_done(rid)
  <2> DEFINE new == UpdateDone(update.ret, update.idx)
  <2>1. /\ UNCHANGED <<log, tail, replicas, local_versions, version_upper_bound, local_reads, combiner>>
        /\ rid \in DOMAIN local_updates /\ update.state = "Applied"
        /\ version_upper_bound > update.idx
        /\ local_updates' = [local_updates EXCEPT ![rid] = new]
    BY <1>4 DEF update_done
  <2>2. /\ DOMAIN local_updates' = DOMAIN local_updates
        /\ \A r \in DOMAIN local_updates' : local_updates'[r] = IF r = rid THEN new ELSE local_updates[r]
    BY <2>1
  <2>3. update.idx \in LogIdx /\ update.ret \in State
    BY <1>1, <2>1, UpdateFields
  <2>4. new \in UpdateState /\ new.state = "Done"
    BY <2>3 DEF UpdateState, UpdateDone
  <2>5. UpdateOK(new, tail, version_upper_bound, log)
    <3>1. UpdateOK(update, tail, version_upper_bound, log)
      BY <1>1, <2>1
    <3>2. update.idx < version_upper_bound
      BY <2>1, <2>3, LogIdxIsNat, Before
    <3> QED BY <2>1, <3>1, <3>2 DEF UpdateOK, UpdateDone
  <2> HIDE DEF new
  <2>6. \A n \in NodeId : Untouched(local_updates, local_updates', combiner[n].queued_ops)
    BY <2>1, <2>2, <2>4 DEF Untouched
  <2>7. \A r \in DOMAIN local_updates' :
            /\ local_updates'[r] \in UpdateState
            /\ UpdateOK(local_updates'[r], tail, version_upper_bound, log)
    BY <1>1, <2>2, <2>4, <2>5
  <2> QED BY <1>1, <2>1, <2>2, <2>6, <2>7, UpdateStep
<1> QED BY <1>2, <1>3, <1>4


(* The combiner of node n moves on without a change of the log, the        *)
(* replica or an update.                                                   *)
LEMMA QuietCombiner ==
  ASSUME NEW n \in NodeId, NEW c \in CombinerState, NEW v \in LogIdx, Ind, Become(n, c),
         UNCHANGED <<log, tail, replicas, local_reads, local_updates>>,
         version_upper_bound' \in LogIdx, version_upper_bound <= version_upper_bound',
         version_upper_bound' <= tail,
         local_versions' = [local_versions EXCEPT ![n] = v],
         v <= version_upper_bound',
         Requests(c) \subseteq Requests(combiner[n]),
         Current(c, v) = Current(combiner[n], local_versions[n]),
         CombinerOK(c, v, tail, version_upper_bound', log, local_updates, n)
  PROVE  Ind'
<1>1. UnboundedLogTypeOK /\ QueuesApart
  BY DEF Ind
<1>2. /\ combiner' = [combiner EXCEPT ![n] = c] /\ combiner \in [NodeId -> CombinerState]
      /\ local_versions \in [NodeId -> LogIdx]
  BY <1>1 DEF Become, UnboundedLogTypeOK
<1>3. /\ combiner'[n] = c /\ local_versions'[n] = v
      /\ \A m \in NodeId \ {n} : combiner'[m] = combiner[m] /\ local_versions'[m] = local_versions[m]
  BY <1>2
<1>4. UnboundedLogTypeOK'
  BY <1>1, <1>2 DEF UnboundedLogTypeOK
<1>5. /\ NodeOK(combiner[n], local_versions[n], replicas[n], tail, version_upper_bound,
                log, local_updates, n)
      /\ tail \in Nat /\ version_upper_bound \in Nat /\ combiner[n] \in CombinerState
      /\ local_versions[n] \in Nat
  BY Before
<1>6. NodeOK(combiner'[n], local_versions'[n], replicas'[n], tail', version_upper_bound',
             log', local_updates', n)
  BY <1>3, <1>5 DEF NodeOK
<1>7. \A m \in NodeId \ {n} :
        /\ combiner'[m] = combiner[m] /\ local_versions'[m] = local_versions[m]
        /\ replicas'[m] = replicas[m]
        /\ Untouched(local_updates, local_updates', combiner[m].queued_ops)
        /\ Requests(combiner'[n]) \cap Requests(combiner[m]) = {}
  BY <1>1, <1>3 DEF Untouched, QueuesApart
<1>8. Current(combiner[n], local_versions[n]) <= Current(combiner'[n], local_versions'[n])
  <2>1. Current(combiner[n], local_versions[n]) \in Nat
    BY <1>5, CurrentType
  <2> QED BY <1>3, <2>1
<1>9. \A rid \in DOMAIN local_updates' : UpdateOK(local_updates'[rid], tail', version_upper_bound', log')
  <2> SUFFICES ASSUME NEW rid \in DOMAIN local_updates
               PROVE  UpdateOK(local_updates[rid], tail, version_upper_bound', log)
    OBVIOUS
  <2>1. local_updates[rid] \in UpdateState /\ UpdateOK(local_updates[rid], tail, version_upper_bound, log)
    BY Before DEF Ind, UpdatesOK
  <2>2. version_upper_bound' \in Nat /\ tail <= tail /\ \A k \in 0 .. tail - 1 : log[k] = log[k]
    BY <1>5, LogIdxIsNat
  <2> QED BY <1>5, <2>1, <2>2, UpdateStays
<1>10. tail <= tail' /\ \A k \in tail .. tail' - 1 : log'[k].node_id = n
  BY <1>5
<1> QED BY <1>4, <1>6, <1>7, <1>8, <1>9, <1>10, CombinerFrame

(* What is known of combiner n when it takes a step. *)
LEMMA Working ==
  ASSUME NEW n \in NodeId, Ind
  PROVE  /\ combiner[n] \in CombinerState /\ combiner[n].queued_ops \in Seq(ReqId)
         /\ local_versions[n] \in LogIdx /\ tail \in LogIdx /\ version_upper_bound \in LogIdx
         /\ version_upper_bound <= tail /\ local_versions[n] <= version_upper_bound
         /\ local_versions = [local_versions EXCEPT ![n] = local_versions[n]]
         /\ Current(combiner[n], local_versions[n]) <= tail
         /\ replicas[n] = Prefix(log, Current(combiner[n], local_versions[n]))
         /\ CombinerOK(combiner[n], local_versions[n], tail, version_upper_bound, log, local_updates, n)
<1>1. NodeOK(combiner[n], local_versions[n], replicas[n], tail, version_upper_bound, log, local_updates, n)
  BY Before
<1>2. /\ combiner[n] \in CombinerState /\ local_versions[n] \in LogIdx /\ tail \in LogIdx
      /\ version_upper_bound \in LogIdx /\ version_upper_bound <= tail
      /\ local_versions \in [NodeId -> LogIdx]
  BY DEF Ind, UnboundedLogTypeOK
<1>3. combiner[n].queued_ops \in Seq(ReqId)
  BY <1>2, CombinerFields
<1>4. local_versions = [local_versions EXCEPT ![n] = local_versions[n]]
  BY <1>2
<1> QED BY <1>1, <1>2, <1>3, <1>4 DEF NodeOK

LEMMA QuietCombinerSteps ==
  ASSUME Ind, NEW n \in NodeId,
         \/ exec_trivial_start(n) \/ exec_load_local_version(n) \/ exec_load_global_head(n)
         \/ exec_update_version_upper_bound(n) \/ exec_finish(n) \/ exec_finish_no_change(n)
  PROVE  Ind'
<1> DEFINE old == combiner[n]
           lv == local_versions[n]
           queue == old.queued_ops
<1>1. /\ old \in CombinerState /\ queue \in Seq(ReqId)
      /\ lv \in LogIdx /\ tail \in LogIdx /\ version_upper_bound \in LogIdx
      /\ version_upper_bound <= tail /\ lv <= version_upper_bound
      /\ local_versions = [local_versions EXCEPT ![n] = lv]
      /\ Current(old, lv) <= tail
      /\ CombinerOK(old, lv, tail, version_upper_bound, log, local_updates, n)
  BY Working
<1>2. lv \in Nat /\ tail \in Nat /\ version_upper_bound \in Nat
  BY <1>1, LogIdxIsNat
<1>3. CASE exec_trivial_start(n)
  <2> DEFINE c == Placed(<< >>)
  <2>1. /\ old.state = "Ready" /\ Become(n, c)
        /\ UNCHANGED <<log, tail, replicas, local_versions, version_upper_bound, local_reads, local_updates>>
    BY <1>3 DEF exec_trivial_start, Combining
  <2>2. << >> \in Seq(ReqId)
    OBVIOUS
  <2>3. c \in CombinerState
    BY <2>2 DEF CombinerState, Placed
  <2>4. Requests(c) \subseteq Requests(old)
    BY DEF Requests, Placed
  <2>5. Current(c, lv) = Current(old, lv)
    BY <2>1 DEF Current, Placed
  <2>6. CombinerOK(c, lv, tail, version_upper_bound, log, local_updates, n)
    <3>1. NoneOf(log, lv, tail, n)
      BY <1>1, <2>1 DEF CombinerOK
    <3>2. Matches(log, local_updates, << >>, 0, lv, tail, n)
      BY <3>1 DEF Matches, NoneOf
    <3> QED BY <3>2 DEF CombinerOK, Placed, seq_unique
  <2> HIDE DEF c
  <2> QED BY <1>1, <1>2, <2>1, <2>3, <2>4, <2>5, <2>6, QuietCombiner
<1>4. CASE exec_load_local_version(n)
  <2> DEFINE c == LoadedLocalVersion(queue, lv)
  <2>1. /\ old.state = "Placed" /\ Become(n, c)
        /\ UNCHANGED <<log, tail, replicas, local_versions, version_upper_bound, local_reads, local_updates>>
    BY <1>4 DEF exec_load_local_version, Combining
  <2>2. c \in CombinerState
    BY <1>1 DEF CombinerState, LoadedLocalVersion
  <2>3. Requests(c) \subseteq Requests(old)
    BY DEF Requests, LoadedLocalVersion
  <2>4. Current(c, lv) = Current(old, lv)
    BY <2>1 DEF Current, LoadedLocalVersion
  <2>5. CombinerOK(c, lv, tail, version_upper_bound, log, local_updates, n)
    BY <1>1, <2>1 DEF CombinerOK, LoadedLocalVersion
  <2> HIDE DEF c
  <2> QED BY <1>1, <1>2, <2>1, <2>2, <2>3, <2>4, <2>5, QuietCombiner
<1>5. CASE exec_load_global_head(n)
  <2> DEFINE c == Loop(queue, old.lversion, 0, tail)
  <2>1. /\ old.state = "LoadedLocalVersion" /\ Become(n, c)
        /\ UNCHANGED <<log, tail, replicas, local_versions, version_upper_bound, local_reads, local_updates>>
    BY <1>5 DEF exec_load_global_head, Combining
  <2>2. old.lversion = lv /\ Matches(log, local_updates, queue, 0, lv, tail, n) /\ seq_unique(queue)
    BY <1>1, <2>1 DEF CombinerOK
  <2>3. c \in CombinerState
    BY <1>1, <2>2 DEF CombinerState, Loop
  <2>4. Requests(c) \subseteq Requests(old)
    BY DEF Requests, Loop
  <2>5. Current(c, lv) = Current(old, lv)
    BY <2>1, <2>2 DEF Current, Loop
  <2>6. CombinerOK(c, lv, tail, version_upper_bound, log, local_updates, n)
    <3>1. lv \in lv .. tail /\ 0 <= Len(queue) /\ tail <= tail
      <4>1. Len(queue) \in Nat
        BY <1>1
      <4> QED BY <1>1, <1>2, <4>1
    <3>2. NoneOf(log, tail, tail, n) /\ Answered(local_updates, queue, 0)
      BY <1>2 DEF NoneOf, Answered
    <3>3. c.state = "Loop" /\ c.queued_ops = queue /\ c.lversion = lv /\ c.idx = 0 /\ c.tail = tail
      BY <2>2 DEF Loop
    <3> HIDE DEF c, queue, lv
    <3> QED BY <2>2, <3>1, <3>2, <3>3 DEF CombinerOK
  <2> HIDE DEF c
  <2> QED BY <1>1, <1>2, <2>1, <2>3, <2>4, <2>5, <2>6, QuietCombiner
<1>6. CASE exec_update_version_upper_bound(n)
  <2> DEFINE c == UpdatedVersion(queue, old.tail)
  <2>1. /\ old.state = "Loop" /\ Become(n, c) /\ old.lversion = old.tail
        /\ version_upper_bound' = IF version_upper_bound >= old.tail THEN version_upper_bound ELSE old.tail
        /\ UNCHANGED <<log, tail, replicas, local_versions, local_reads, local_updates>>
    BY <1>6 DEF exec_update_version_upper_bound, Combining
  <2>2. old.tail \in LogIdx /\ old.tail \in Nat /\ old.idx \in Nat /\ Len(queue) \in Nat
    BY <1>1, <2>1, CombinerFields, LogIdxIsNat
  <2>3. /\ old.tail <= tail /\ old.lversion \in lv .. old.tail
        /\ old.idx <= Len(queue)
        /\ Matches(log, local_updates, queue, old.idx, old.lversion, old.tail, n)
        /\ NoneOf(log, old.tail, tail, n)
        /\ Answered(local_updates, queue, old.idx)
        /\ seq_unique(queue)
    BY <1>1, <2>1 DEF CombinerOK
  <2>4. c \in CombinerState
    BY <1>1, <2>2 DEF CombinerState, UpdatedVersion
  <2>5. /\ version_upper_bound' \in LogIdx /\ version_upper_bound <= version_upper_bound'
        /\ version_upper_bound' <= tail /\ old.tail <= version_upper_bound'
    <3> HIDE DEF old
    <3> QED BY <1>1, <1>2, <2>1, <2>2, <2>3
  <2>6. Requests(c) \subseteq Requests(old)
    BY DEF Requests, UpdatedVersion
  <2>7. Current(c, lv) = Current(old, lv)
    BY <2>1 DEF Current, UpdatedVersion
(* Nothing is left of the queue: there is no log left to match it. *)
  <2>8. old.idx = Len(queue)
    <3> SUFFICES ASSUME old.idx < Len(queue) PROVE FALSE
      <4> HIDE DEF old, queue
      <4> QED BY <2>2, <2>3
    <3>1. old.idx + 1 \in old.idx + 1 .. Len(queue)
      <4> HIDE DEF old, queue
      <4> QED BY <2>2
    <3>2. local_updates[queue[old.idx + 1]].idx \in old.lversion .. old.tail - 1
      BY <2>3, <3>1 DEF Matches
    <3> QED BY <2>1, <2>2, <3>2
  <2>9. CombinerOK(c, lv, tail, version_upper_bound', log, local_updates, n)
    <3>1. old.tail \in lv .. version_upper_bound'
      <4> HIDE DEF old
      <4> QED BY <1>2, <2>1, <2>2, <2>3, <2>5, LogIdxIsNat
    <3>2. c.state = "UpdatedVersion" /\ c.queued_ops = queue /\ c.tail = old.tail
      BY DEF UpdatedVersion
    <3>3. Answered(local_updates, queue, Len(queue))
      BY <2>3, <2>8
    <3> HIDE DEF c, queue, lv
    <3> QED BY <2>3, <3>1, <3>2, <3>3 DEF CombinerOK
  <2>10. lv <= version_upper_bound' /\ local_versions' = [local_versions EXCEPT ![n] = lv]
    BY <1>1, <1>2, <2>1, <2>5, LogIdxIsNat
  <2> HIDE DEF c
  <2> QED BY <1>1, <2>1, <2>4, <2>5, <2>6, <2>7, <2>9, <2>10, QuietCombiner
<1>7. CASE exec_finish(n)
  <2>1. /\ old.state = "UpdatedVersion" /\ Become(n, Ready)
        /\ local_versions' = [local_versions EXCEPT ![n] = old.tail]
        /\ UNCHANGED <<log, tail, replicas, version_upper_bound, local_reads, local_updates>>
    BY <1>7 DEF exec_finish, Combining
  <2>2. old.tail \in LogIdx /\ old.tail \in lv .. version_upper_bound /\ NoneOf(log, old.tail, tail, n)
    BY <1>1, <2>1, CombinerFields DEF CombinerOK
  <2>3. Ready \in CombinerState /\ Requests(Ready) \subseteq Requests(old)
    BY DEF CombinerState, Requests, Ready
  <2>4. Current(Ready, old.tail) = Current(old, lv)
    BY <2>1 DEF Current, Ready
  <2>5. CombinerOK(Ready, old.tail, tail, version_upper_bound, log, local_updates, n)
    BY <2>2 DEF CombinerOK, Ready, seq_unique
  <2>6. /\ version_upper_bound' = version_upper_bound /\ old.tail <= version_upper_bound'
        /\ version_upper_bound' <= tail /\ version_upper_bound <= version_upper_bound'
    BY <1>1, <1>2, <2>1, <2>2
  <2> DEFINE v == old.tail
  <2>7. /\ v \in LogIdx /\ local_versions' = [local_versions EXCEPT ![n] = v]
        /\ v <= version_upper_bound' /\ Current(Ready, v) = Current(combiner[n], local_versions[n])
        /\ CombinerOK(Ready, v, tail, version_upper_bound', log, local_updates, n)
    BY <2>1, <2>2, <2>4, <2>5, <2>6
  <2> HIDE DEF v
  <2> QED BY <1>1, <2>1, <2>3, <2>6, <2>7, QuietCombiner
<1>8. CASE exec_finish_no_change(n)
  <2>1. /\ old.state = "LoadedLocalVersion" /\ Become(n, Ready) /\ old.lversion = tail
        /\ UNCHANGED <<log, tail, replicas, local_versions, version_upper_bound, local_reads, local_updates>>
    BY <1>8 DEF exec_finish_no_change, Combining
  <2>2. lv = tail
    BY <1>1, <2>1 DEF CombinerOK
  <2>3. Ready \in CombinerState /\ Requests(Ready) \subseteq Requests(old)
    BY DEF CombinerState, Requests, Ready
  <2>4. Current(Ready, lv) = Current(old, lv)
    BY <2>1 DEF Current, Ready
  <2>5. CombinerOK(Ready, lv, tail, version_upper_bound, log, local_updates, n)
    <3>1. NoneOf(log, lv, tail, n)
      BY <1>2, <2>2 DEF NoneOf
    <3> QED BY <3>1 DEF CombinerOK, Ready, seq_unique
  <2> QED BY <1>1, <1>2, <2>1, <2>3, <2>4, <2>5, QuietCombiner
<1> QED BY <1>3, <1>4, <1>5, <1>6, <1>7, <1>8


(* The next entry of node n that its combiner meets is of the next request *)
(* in its queue. *)
NextIs(updates, queue, idx, start) ==
  /\ idx + 1 \in 1 .. Len(queue)
  /\ queue[idx + 1] \in DOMAIN updates
  /\ updates[queue[idx + 1]].state = "Placed"
  /\ updates[queue[idx + 1]].idx = start

LEMMA NextRequest ==
  ASSUME NEW l, NEW updates, NEW queue \in Seq(ReqId), NEW idx \in Nat, NEW start \in Nat,
         NEW end \in Nat, NEW n \in NodeId, start < end, l[start].node_id = n,
         Matches(l, updates, queue, idx, start, end, n)
  PROVE  NextIs(updates, queue, idx, start)
<1>1. start \in start .. end - 1 /\ Len(queue) \in Nat
  OBVIOUS
<1>2. PICK i \in idx + 1 .. Len(queue) : updates[queue[i]].idx = start
  BY <1>1 DEF Matches
<1>3. i \in Nat /\ idx + 1 \in idx + 1 .. Len(queue) /\ idx + 1 \in 1 .. Len(queue)
  BY <1>1, <1>2
<1>4. /\ queue[idx + 1] \in DOMAIN updates /\ updates[queue[idx + 1]].state = "Placed"
      /\ updates[queue[idx + 1]].idx \in start .. end - 1
  BY <1>3 DEF Matches
<1>5. i # idx + 1 => updates[queue[idx + 1]].idx < start
  <2>1. i # idx + 1 => idx + 1 < i
    BY <1>2, <1>3
  <2> QED BY <1>2, <1>3, <2>1 DEF Matches
<1> QED BY <1>2, <1>3, <1>4, <1>5 DEF NextIs

LEMMA PrefixType ==
  ASSUME NEW l, NEW v \in Nat, \A k \in 0 .. v - 1 : l[k].op \in Ops
  PROVE  Prefix(l, v) \in State /\ Len(Prefix(l, v)) = v
<1>1. \A i \in 1 .. v : i - 1 \in 0 .. v - 1
  OBVIOUS
<1>2. Prefix(l, v) \in [1 .. v -> Ops]
  BY <1>1 DEF Prefix
<1> QED BY <1>2 DEF State

LEMMA PrefixAppend ==
  ASSUME NEW l, NEW v \in Nat, \A k \in 0 .. v : l[k].op \in Ops
  PROVE  Append(Prefix(l, v), l[v].op) = Prefix(l, v + 1)
<1>1. Prefix(l, v) \in Seq(Ops) /\ Len(Prefix(l, v)) = v /\ l[v].op \in Ops
  BY PrefixType DEF State
<1>2. Prefix(l, v + 1) \in Seq(Ops) /\ Len(Prefix(l, v + 1)) = v + 1
  BY PrefixType DEF State
<1>3. Append(Prefix(l, v), l[v].op) \in Seq(Ops) /\ Len(Append(Prefix(l, v), l[v].op)) = v + 1
  BY <1>1
<1>4. ASSUME NEW i \in 1 .. v + 1
      PROVE  Append(Prefix(l, v), l[v].op)[i] = Prefix(l, v + 1)[i]
  <2>1. Prefix(l, v + 1)[i] = l[i - 1].op
    BY DEF Prefix
  <2>2. i # v + 1 => Append(Prefix(l, v), l[v].op)[i] = Prefix(l, v)[i]
    BY <1>1
  <2>3. i = v + 1 => Append(Prefix(l, v), l[v].op)[i] = l[v].op
    BY <1>1
  <2>4. i # v + 1 => Prefix(l, v)[i] = l[i - 1].op
    BY DEF Prefix
  <2>5. i = v + 1 => i - 1 = v
    OBVIOUS
  <2> QED BY <2>1, <2>2, <2>3, <2>4, <2>5
<1> QED BY <1>2, <1>3, <1>4, SeqEqual

(* What both kinds of an applied entry have in common: the combiner of n   *)
(* is in its loop and has not come to the end.                             *)
LEMMA InLoop ==
  ASSUME Ind, NEW n \in NodeId, combiner[n].state = "Loop", combiner[n].lversion < combiner[n].tail
  PROVE  LET c == combiner[n]
         IN  /\ c.queued_ops \in Seq(ReqId) /\ Len(c.queued_ops) \in Nat /\ seq_unique(c.queued_ops)
             /\ c.lversion \in Nat /\ c.idx \in Nat /\ c.tail \in Nat /\ tail \in Nat
             /\ c.lversion \in LogIdx /\ c.lversion + 1 \in LogIdx /\ c.tail \in LogIdx
             /\ local_versions[n] \in Nat /\ local_versions[n] <= c.lversion
             /\ c.tail <= tail /\ c.idx <= Len(c.queued_ops)
             /\ Matches(log, local_updates, c.queued_ops, c.idx, c.lversion, c.tail, n)
             /\ NoneOf(log, c.tail, tail, n)
             /\ Answered(local_updates, c.queued_ops, c.idx)
             /\ Current(c, local_versions[n]) = c.lversion
             /\ replicas[n] = Prefix(log, c.lversion) /\ replicas[n] \in State
             /\ log[c.lversion].op \in Ops
             /\ dispatch_mut_spec(replicas[n], log[c.lversion].op).ret = replicas[n]
             /\ dispatch_mut_spec(replicas[n], log[c.lversion].op).view = Prefix(log, c.lversion + 1)
             /\ Prefix(log, c.lversion + 1) \in State
<1> DEFINE c == combiner[n]
<1>1. /\ c \in CombinerState /\ c.queued_ops \in Seq(ReqId) /\ local_versions[n] \in LogIdx
      /\ tail \in LogIdx
      /\ replicas[n] = Prefix(log, Current(c, local_versions[n]))
      /\ CombinerOK(c, local_versions[n], tail, version_upper_bound, log, local_updates, n)
  BY Working
<1>2. c.lversion \in LogIdx /\ c.idx \in Nat /\ c.tail \in LogIdx
  BY <1>1, CombinerFields
<1>3. c.lversion \in Nat /\ c.tail \in Nat /\ tail \in Nat /\ local_versions[n] \in Nat /\ c.tail <= MAX_LOG
  BY <1>1, <1>2, LogIdxIsNat
<1>4. /\ seq_unique(c.queued_ops) /\ c.tail <= tail /\ c.lversion \in local_versions[n] .. c.tail
      /\ c.idx <= Len(c.queued_ops)
      /\ Matches(log, local_updates, c.queued_ops, c.idx, c.lversion, c.tail, n)
      /\ NoneOf(log, c.tail, tail, n) /\ Answered(local_updates, c.queued_ops, c.idx)
  BY <1>1 DEF CombinerOK
<1>5. Current(c, local_versions[n]) = c.lversion
  BY DEF Current
<1>6. replicas[n] = Prefix(log, c.lversion)
  BY <1>1, <1>5
<1>7. \A k \in 0 .. tail - 1 : log[k].op \in Ops
  BY Before
<1>8. /\ c.lversion + 1 \in LogIdx /\ Len(c.queued_ops) \in Nat /\ local_versions[n] <= c.lversion
      /\ c.lversion + 1 \in Nat
  <2>1. c.lversion + 1 \in 0 .. MAX_LOG
    BY <1>3, UnboundedLogAssumption
  <2> QED BY <1>1, <1>3, <1>4, <2>1 DEF LogIdx
<1>9. /\ \A k \in 0 .. c.lversion : log[k].op \in Ops
      /\ \A k \in 0 .. c.lversion - 1 : log[k].op \in Ops
      /\ \A k \in 0 .. (c.lversion + 1) - 1 : log[k].op \in Ops
  <2>1. \A k \in 0 .. c.lversion : k \in 0 .. tail - 1
    BY <1>3, <1>4
  <2> QED BY <1>3, <1>7, <2>1
<1>10. replicas[n] \in State /\ Prefix(log, c.lversion + 1) \in State
  BY <1>3, <1>6, <1>8, <1>9, PrefixType
<1>11. Append(Prefix(log, c.lversion), log[c.lversion].op) = Prefix(log, c.lversion + 1)
  BY <1>3, <1>9, PrefixAppend
<1>12. log[c.lversion].op \in Ops
  BY <1>3, <1>9
<1> QED BY <1>1, <1>2, <1>3, <1>4, <1>5, <1>6, <1>8, <1>10, <1>11, <1>12 DEF dispatch_mut_spec


LEMMA MatchesPastLocal ==
  ASSUME NEW l, NEW updates, NEW updates2, NEW queue \in Seq(ReqId), NEW idx \in Nat, NEW start \in Nat,
         NEW end \in Nat, NEW n \in NodeId, start < end, l[start].node_id = n, seq_unique(queue),
         \A i \in 1 .. Len(queue) : i # idx + 1 =>
            /\ queue[i] \in DOMAIN updates => queue[i] \in DOMAIN updates2
            /\ updates2[queue[i]] = updates[queue[i]],
         Matches(l, updates, queue, idx, start, end, n)
  PROVE  Matches(l, updates2, queue, idx + 1, start + 1, end, n)
<1>0. NextIs(updates, queue, idx, start)
  BY NextRequest
<1>1. idx + 1 \in 1 .. Len(queue) /\ updates[queue[idx + 1]].idx = start /\ Len(queue) \in Nat
  BY <1>0 DEF NextIs
<1>2. ASSUME NEW i \in (idx + 1) + 1 .. Len(queue)
      PROVE  /\ queue[i] \in DOMAIN updates2
             /\ updates2[queue[i]] = updates[queue[i]]
             /\ updates2[queue[i]].state = "Placed"
             /\ updates2[queue[i]].idx \in start + 1 .. end - 1
             /\ l[updates2[queue[i]].idx].node_id = n
  <2>1. i \in idx + 1 .. Len(queue) /\ idx + 1 \in idx + 1 .. Len(queue) /\ idx + 1 < i
        /\ i \in 1 .. Len(queue)
    BY <1>1
  <2>2. /\ queue[i] \in DOMAIN updates /\ updates[queue[i]].state = "Placed"
        /\ updates[queue[i]].idx \in start .. end - 1
        /\ l[updates[queue[i]].idx].node_id = n
    BY <2>1 DEF Matches
  <2>3. updates[queue[idx + 1]].idx < updates[queue[i]].idx
    BY <2>1 DEF Matches
  <2>4. updates[queue[i]].idx \in start + 1 .. end - 1
    BY <1>1, <2>2, <2>3
  <2>5. queue[i] \in DOMAIN updates2 /\ updates2[queue[i]] = updates[queue[i]]
    BY <2>1, <2>2
  <2> QED BY <2>2, <2>4, <2>5
<1>3. \A i \in (idx + 1) + 1 .. Len(queue) : i \in idx + 1 .. Len(queue)
  BY <1>1
<1>4. \A i, j \in (idx + 1) + 1 .. Len(queue) :
         i < j => updates2[queue[i]].idx < updates2[queue[j]].idx
  BY <1>2, <1>3 DEF Matches
<1>5. ASSUME NEW k \in start + 1 .. end - 1, l[k].node_id = n
      PROVE  \E i \in (idx + 1) + 1 .. Len(queue) : updates2[queue[i]].idx = k
  <2>1. k \in start .. end - 1 /\ k # start
    OBVIOUS
  <2>2. PICK i \in idx + 1 .. Len(queue) : updates[queue[i]].idx = k
    BY <1>5, <2>1 DEF Matches
  <2>3. i # idx + 1
    BY <1>1, <2>1, <2>2
  <2>4. i \in (idx + 1) + 1 .. Len(queue)
    BY <1>1, <2>2, <2>3
  <2> QED BY <1>2, <2>2, <2>4
<1> QED BY <1>2, <1>4, <1>5 DEF Matches

LEMMA MatchesPastRemote ==
  ASSUME NEW l, NEW updates, NEW queue \in Seq(ReqId), NEW idx \in Nat, NEW start \in Nat,
         NEW end \in Nat, NEW n, start < end, l[start].node_id # n,
         Matches(l, updates, queue, idx, start, end, n)
  PROVE  Matches(l, updates, queue, idx, start + 1, end, n)
<1>1. ASSUME NEW i \in idx + 1 .. Len(queue)
      PROVE  updates[queue[i]].idx \in start + 1 .. end - 1
  <2>1. updates[queue[i]].idx \in start .. end - 1 /\ l[updates[queue[i]].idx].node_id = n
    BY DEF Matches
  <2> QED BY <2>1
<1>2. \A k \in start + 1 .. end - 1 : k \in start .. end - 1
  OBVIOUS
<1> QED BY <1>1, <1>2 DEF Matches

(* An update of another node is applied: only the replica changes. *)
LEMMA DispatchRemote ==
  ASSUME Ind, NEW n \in NodeId, exec_dispatch_remote(n)
  PROVE  Ind'
<1> DEFINE old == combiner[n]
           queue == old.queued_ops
           out == dispatch_mut_spec(replicas[n], log[old.lversion].op)
           c == Loop(queue, old.lversion + 1, old.idx, old.tail)
<1>1. /\ old.state = "Loop" /\ old.lversion < old.tail /\ log[old.lversion].node_id # n
      /\ replicas' = [replicas EXCEPT ![n] = out.view] /\ Become(n, c)
      /\ UNCHANGED <<log, tail, local_versions, version_upper_bound, local_reads, local_updates>>
  BY DEF exec_dispatch_remote, Combining
<1>2. UnboundedLogTypeOK /\ QueuesApart /\ UpdatesOK
  BY DEF Ind
<1>3. /\ queue \in Seq(ReqId) /\ seq_unique(queue)
      /\ old.lversion \in Nat /\ old.idx \in Nat /\ old.tail \in Nat
      /\ old.lversion + 1 \in LogIdx /\ old.tail \in LogIdx
      /\ local_versions[n] \in Nat /\ local_versions[n] <= old.lversion
      /\ old.tail <= tail /\ old.idx <= Len(queue) /\ tail \in Nat
      /\ Matches(log, local_updates, queue, old.idx, old.lversion, old.tail, n)
      /\ NoneOf(log, old.tail, tail, n)
      /\ Answered(local_updates, queue, old.idx)
      /\ Current(old, local_versions[n]) = old.lversion
      /\ out.view = Prefix(log, old.lversion + 1) /\ Prefix(log, old.lversion + 1) \in State
  BY <1>1, InLoop
<1>4. c \in CombinerState
  BY <1>3 DEF CombinerState, Loop
<1>5. /\ combiner'[n] = c /\ replicas'[n] = out.view
      /\ \A m \in NodeId \ {n} : combiner'[m] = combiner[m] /\ replicas'[m] = replicas[m]
  BY <1>1, <1>2 DEF Become, UnboundedLogTypeOK
<1>6. UnboundedLogTypeOK'
  BY <1>1, <1>2, <1>3, <1>4 DEF UnboundedLogTypeOK, Become
<1>c. /\ c.state = "Loop" /\ c.queued_ops = queue /\ c.lversion = old.lversion + 1 /\ c.idx = old.idx
      /\ c.tail = old.tail
  BY DEF Loop
<1> HIDE DEF c, out
<1>7. Current(c, local_versions[n]) = old.lversion + 1
  BY <1>c DEF Current
<1>8. NodeOK(combiner'[n], local_versions'[n], replicas'[n], tail', version_upper_bound',
             log', local_updates', n)
  <2>1. Matches(log, local_updates, queue, old.idx, old.lversion + 1, old.tail, n)
    <3> HIDE DEF old, queue
    <3> QED BY <1>1, <1>3, MatchesPastRemote DEF old
  <2>2. c.lversion \in local_versions[n] .. c.tail /\ old.lversion + 1 <= tail
    <3> HIDE DEF old
    <3> QED BY <1>1, <1>3, <1>c DEF old
  <2>3. CombinerOK(c, local_versions[n], tail, version_upper_bound, log, local_updates, n)
    BY <1>3, <1>c, <2>1, <2>2 DEF CombinerOK
  <2>4. local_versions[n] <= version_upper_bound
    BY Working
  <2> QED BY <1>1, <1>3, <1>5, <1>7, <2>2, <2>3, <2>4 DEF NodeOK
<1>9. Requests(c) = Requests(old)
  BY <1>c DEF Requests
<1>10. \A m \in NodeId \ {n} :
        /\ combiner'[m] = combiner[m] /\ local_versions'[m] = local_versions[m]
        /\ replicas'[m] = replicas[m]
        /\ Untouched(local_updates, local_updates', combiner[m].queued_ops)
        /\ Requests(combiner'[n]) \cap Requests(combiner[m]) = {}
  BY <1>1, <1>2, <1>5, <1>9 DEF Untouched, QueuesApart
<1>11. Current(combiner[n], local_versions[n]) <= Current(combiner'[n], local_versions'[n])
  <2>1. old.lversion <= old.lversion + 1
    BY <1>3
  <2> QED BY <1>1, <1>3, <1>5, <1>7, <2>1
<1>12. \A rid \in DOMAIN local_updates' : UpdateOK(local_updates'[rid], tail', version_upper_bound', log')
  BY <1>1, <1>2 DEF UpdatesOK
<1>13. /\ tail <= tail' /\ version_upper_bound <= version_upper_bound' /\ version_upper_bound' <= tail'
       /\ \A k \in 0 .. tail - 1 : log'[k] = log[k]
       /\ \A k \in tail .. tail' - 1 : log'[k].node_id = n
  BY <1>1, Before
<1>14. local_reads' = local_reads
  BY <1>1
<1> QED BY <1>6, <1>8, <1>10, <1>11, <1>12, <1>13, <1>14, CombinerFrame

(* An update of the node itself is applied: the request at the head of the *)
(* rest of the queue is answered, with the state before its entry.         *)
LEMMA DispatchLocal ==
  ASSUME Ind, NEW n \in NodeId, exec_dispatch_local(n)
  PROVE  Ind'
<1> DEFINE old == combiner[n]
           queue == old.queued_ops
           rid == queue[old.idx + 1]
           out == dispatch_mut_spec(replicas[n], log[old.lversion].op)
           c == Loop(queue, old.lversion + 1, old.idx + 1, old.tail)
           new == UpdateApplied(out.ret, old.lversion)
<1>1. /\ old.state = "Loop" /\ old.lversion < old.tail /\ log[old.lversion].node_id = n
      /\ rid \in DOMAIN local_updates
      /\ local_updates' = [local_updates EXCEPT ![rid] = new]
      /\ replicas' = [replicas EXCEPT ![n] = out.view] /\ Become(n, c)
      /\ UNCHANGED <<log, tail, local_versions, version_upper_bound, local_reads>>
  BY DEF exec_dispatch_local, Combining
<1>2. UnboundedLogTypeOK /\ QueuesApart /\ UpdatesOK
  BY DEF Ind
<1>3. /\ queue \in Seq(ReqId) /\ Len(queue) \in Nat /\ seq_unique(queue)
      /\ old.lversion \in Nat /\ old.idx \in Nat /\ old.tail \in Nat
      /\ old.lversion \in LogIdx /\ old.lversion + 1 \in LogIdx /\ old.tail \in LogIdx
      /\ local_versions[n] \in Nat /\ local_versions[n] <= old.lversion
      /\ old.tail <= tail /\ old.idx <= Len(queue) /\ tail \in Nat
      /\ Matches(log, local_updates, queue, old.idx, old.lversion, old.tail, n)
      /\ NoneOf(log, old.tail, tail, n)
      /\ Answered(local_updates, queue, old.idx)
      /\ Current(old, local_versions[n]) = old.lversion
      /\ out.ret = replicas[n] /\ replicas[n] = Prefix(log, old.lversion) /\ replicas[n] \in State
      /\ out.view = Prefix(log, old.lversion + 1) /\ Prefix(log, old.lversion + 1) \in State
  BY <1>1, InLoop
<1>4. c \in CombinerState
  BY <1>3 DEF CombinerState, Loop
<1>5. /\ combiner'[n] = c /\ replicas'[n] = out.view
      /\ \A m \in NodeId \ {n} : combiner'[m] = combiner[m] /\ replicas'[m] = replicas[m]
  BY <1>1, <1>2 DEF Become, UnboundedLogTypeOK
<1>n. new \in UpdateState /\ new.state = "Applied" /\ new.idx = old.lversion /\ new.ret = replicas[n]
  BY <1>3 DEF UpdateState, UpdateApplied
<1>c. /\ c.state = "Loop" /\ c.queued_ops = queue /\ c.lversion = old.lversion + 1
      /\ c.idx = old.idx + 1 /\ c.tail = old.tail
  BY DEF Loop
<1> HIDE DEF c, out, new
<1>u. /\ DOMAIN local_updates' = DOMAIN local_updates
      /\ \A r \in DOMAIN local_updates : local_updates'[r] = IF r = rid THEN new ELSE local_updates[r]
  BY <1>1
<1>6. UnboundedLogTypeOK'
  <2>1. \A r \in DOMAIN local_updates' : local_updates'[r] \in UpdateState
    BY <1>2, <1>n, <1>u DEF UnboundedLogTypeOK
  <2> QED BY <1>1, <1>2, <1>3, <1>4, <1>u, <2>1 DEF UnboundedLogTypeOK, Become
<1>7. Current(c, local_versions[n]) = old.lversion + 1
  BY <1>c DEF Current
<1>h. /\ old.idx + 1 \in 1 .. Len(queue)
      /\ local_updates[rid].state = "Placed" /\ local_updates[rid].idx = old.lversion
  <2>1. NextIs(local_updates, queue, old.idx, old.lversion)
    <3> HIDE DEF old, queue, rid
    <3> QED BY <1>1, <1>3, NextRequest
  <2> QED BY <2>1 DEF NextIs
<1>q. \A i \in 1 .. Len(queue) : i # old.idx + 1 => queue[i] # rid
  BY <1>3, <1>h DEF seq_unique
<1>8. NodeOK(combiner'[n], local_versions'[n], replicas'[n], tail', version_upper_bound',
             log', local_updates', n)
  <2>1. Matches(log, local_updates', queue, old.idx + 1, old.lversion + 1, old.tail, n)
    <3>1. ASSUME NEW i \in 1 .. Len(queue), i # old.idx + 1
          PROVE  /\ queue[i] \in DOMAIN local_updates => queue[i] \in DOMAIN local_updates'
                 /\ local_updates'[queue[i]] = local_updates[queue[i]]
      BY <1>1, <1>q, <1>u, <3>1
    <3> HIDE DEF old, queue, rid
    <3> QED BY <1>1, <1>3, <3>1, MatchesPastLocal DEF old
  <2>2. /\ c.lversion \in local_versions[n] .. c.tail /\ old.lversion + 1 <= tail
        /\ c.idx <= Len(queue)
    <3> HIDE DEF old, queue
    <3> QED BY <1>1, <1>3, <1>c, <1>h DEF old
  <2>3. Answered(local_updates', queue, old.idx + 1)
    <3> SUFFICES ASSUME NEW i \in 1 .. old.idx + 1, queue[i] \in DOMAIN local_updates
                 PROVE  local_updates'[queue[i]].state \in {"Applied", "Done"}
      BY <1>u DEF Answered
    <3>1. i = old.idx + 1 \/ i \in 1 .. old.idx
      <4> HIDE DEF old
      <4> QED BY <1>3
    <3>2. CASE i = old.idx + 1
      BY <1>u, <1>n, <3>2
    <3>3. CASE i \in 1 .. old.idx
      BY <1>3, <1>n, <1>u, <3>3 DEF Answered
    <3> QED BY <3>1, <3>2, <3>3
  <2>4. CombinerOK(c, local_versions[n], tail, version_upper_bound, log, local_updates', n)
    BY <1>3, <1>c, <2>1, <2>2, <2>3 DEF CombinerOK
  <2>5. local_versions[n] <= version_upper_bound
    BY Working
  <2> QED BY <1>1, <1>3, <1>5, <1>7, <2>2, <2>4, <2>5 DEF NodeOK
<1>9. Requests(c) = Requests(old) /\ rid \in Requests(old)
  BY <1>3, <1>c, <1>h DEF Requests
<1>10. ASSUME NEW m \in NodeId \ {n}
       PROVE  /\ combiner'[m] = combiner[m] /\ local_versions'[m] = local_versions[m]
              /\ replicas'[m] = replicas[m]
              /\ Untouched(local_updates, local_updates', combiner[m].queued_ops)
              /\ Requests(combiner'[n]) \cap Requests(combiner[m]) = {}
  <2>1. Requests(old) \cap Requests(combiner[m]) = {} /\ combiner[m].queued_ops \in Seq(ReqId)
    BY <1>2, Working DEF QueuesApart
  <2>2. \A i \in 1 .. Len(combiner[m].queued_ops) : combiner[m].queued_ops[i] # rid
    BY <1>9, <2>1 DEF Requests
  <2> QED BY <1>1, <1>5, <1>9, <1>u, <2>1, <2>2 DEF Untouched
<1>11. Current(combiner[n], local_versions[n]) <= Current(combiner'[n], local_versions'[n])
  <2>1. old.lversion <= old.lversion + 1
    BY <1>3
  <2> QED BY <1>1, <1>3, <1>5, <1>7, <2>1
<1>12. \A r \in DOMAIN local_updates' : UpdateOK(local_updates'[r], tail', version_upper_bound', log')
  <2>1. old.lversion < tail
    <3> HIDE DEF old
    <3> QED BY <1>1, <1>3 DEF old
  <2>2. UpdateOK(new, tail, version_upper_bound, log)
    BY <1>3, <1>n, <2>1 DEF UpdateOK
  <2> QED BY <1>1, <1>2, <1>u, <2>2 DEF UpdatesOK
<1>13. /\ tail <= tail' /\ version_upper_bound <= version_upper_bound' /\ version_upper_bound' <= tail'
       /\ \A k \in 0 .. tail - 1 : log'[k] = log[k]
       /\ \A k \in tail .. tail' - 1 : log'[k].node_id = n
  BY <1>1, Before
<1>14. local_reads' = local_reads
  BY <1>1
<1> QED BY <1>6, <1>8, <1>10, <1>11, <1>12, <1>13, <1>14, CombinerFrame


(* A request that is not in the log is in no queue. *)
LEMMA InitNotQueued ==
  ASSUME Ind, NEW n \in NodeId, NEW rid \in DOMAIN local_updates, local_updates[rid].state = "Init"
  PROVE  \A i \in 1 .. Len(combiner[n].queued_ops) : combiner[n].queued_ops[i] # rid
<1> DEFINE c == combiner[n]
           queue == c.queued_ops
<1>1. /\ c \in CombinerState /\ queue \in Seq(ReqId)
      /\ CombinerOK(c, local_versions[n], tail, version_upper_bound, log, local_updates, n)
  BY Working
<1>2. Len(queue) \in Nat
  BY <1>1
<1> SUFFICES ASSUME NEW i \in 1 .. Len(queue), queue[i] = rid PROVE FALSE
  OBVIOUS
<1>3. CASE c.state = "Ready"
  BY <1>1, <1>3, CombinerFields
<1>4. CASE c.state \in {"Placed", "LoadedLocalVersion"}
  <2>1. \E start, end : Matches(log, local_updates, queue, 0, start, end, n)
    BY <1>1, <1>4 DEF CombinerOK
  <2>2. i \in 0 + 1 .. Len(queue)
    OBVIOUS
  <2> QED BY <2>1, <2>2 DEF Matches
<1>5. CASE c.state = "Loop"
  <2>1. c.idx \in Nat
    BY <1>1, <1>5, CombinerFields
  <2>2. /\ Matches(log, local_updates, queue, c.idx, c.lversion, c.tail, n)
        /\ Answered(local_updates, queue, c.idx)
    BY <1>1, <1>5 DEF CombinerOK
  <2>3. i \in 1 .. c.idx \/ i \in c.idx + 1 .. Len(queue)
    <3> HIDE DEF c, queue
    <3> QED BY <1>2, <2>1
  <2>4. i \notin 1 .. c.idx
    BY <2>2 DEF Answered
  <2>5. i \notin c.idx + 1 .. Len(queue)
    BY <2>2 DEF Matches
  <2> QED BY <2>3, <2>4, <2>5
<1>6. CASE c.state = "UpdatedVersion"
  BY <1>1, <1>6 DEF CombinerOK, Answered
<1> QED BY <1>1, <1>3, <1>4, <1>5, <1>6, CombinerFields

(* What a queue is after a request has been appended to it. *)
LEMMA QueueAppend ==
  ASSUME NEW queue \in Seq(ReqId), NEW rid \in ReqId
  PROVE  /\ Append(queue, rid) \in Seq(ReqId)
         /\ Len(queue) \in Nat
         /\ Len(Append(queue, rid)) = Len(queue) + 1
         /\ \A i \in 1 .. Len(queue) : Append(queue, rid)[i] = queue[i]
         /\ Append(queue, rid)[Len(queue) + 1] = rid
OBVIOUS

(* A log l that grew by an entry of n, and updates of which rid is at it. *)
PlacedAt(l, l2, updates, updates2, queue, rid, start, t, n) ==
  /\ queue \in Seq(ReqId) /\ rid \in ReqId /\ start \in Nat /\ t \in Nat /\ start <= t
  /\ \A k \in 0 .. t - 1 : l2[k] = l[k]
  /\ l2[t].node_id = n
  /\ \A i \in 1 .. Len(queue) :
        /\ queue[i] \in DOMAIN updates => queue[i] \in DOMAIN updates2
        /\ updates2[queue[i]] = updates[queue[i]]
  /\ rid \in DOMAIN updates2 /\ updates2[rid].state = "Placed" /\ updates2[rid].idx = t
  /\ Matches(l, updates, queue, 0, start, t, n)

LEMMA MatchesAppend ==
  ASSUME NEW l, NEW l2, NEW updates, NEW updates2, NEW queue, NEW rid, NEW start, NEW t, NEW n,
         PlacedAt(l, l2, updates, updates2, queue, rid, start, t, n)
  PROVE  Matches(l2, updates2, Append(queue, rid), 0, start, t + 1, n)
<1> USE DEF PlacedAt
<1> DEFINE queue2 == Append(queue, rid)
<1>1. /\ Len(queue) \in Nat /\ Len(queue2) = Len(queue) + 1 /\ queue2[Len(queue) + 1] = rid
      /\ \A i \in 1 .. Len(queue) : queue2[i] = queue[i]
  BY QueueAppend
<1> HIDE DEF queue2
<1>2. ASSUME NEW i \in 1 .. Len(queue)
      PROVE  /\ queue2[i] \in DOMAIN updates2
             /\ updates2[queue2[i]] = updates[queue[i]]
             /\ updates2[queue2[i]].state = "Placed"
             /\ updates2[queue2[i]].idx \in start .. t - 1
             /\ l2[updates2[queue2[i]].idx].node_id = n
  <2>1. /\ queue[i] \in DOMAIN updates /\ updates[queue[i]].state = "Placed"
        /\ updates[queue[i]].idx \in start .. t - 1
        /\ l[updates[queue[i]].idx].node_id = n
    BY <1>1 DEF Matches
  <2>2. updates[queue[i]].idx \in 0 .. t - 1
    BY <2>1
  <2> QED BY <1>1, <2>1, <2>2
<1>3. ASSUME NEW i \in 0 + 1 .. Len(queue2)
      PROVE  i \in 1 .. Len(queue) \/ i = Len(queue) + 1
  BY <1>1
<1>4. ASSUME NEW i \in 0 + 1 .. Len(queue2)
      PROVE  /\ queue2[i] \in DOMAIN updates2
             /\ updates2[queue2[i]].state = "Placed"
             /\ updates2[queue2[i]].idx \in start .. (t + 1) - 1
             /\ l2[updates2[queue2[i]].idx].node_id = n
  <2>1. CASE i \in 1 .. Len(queue)
    <3>1. updates2[queue2[i]].idx \in start .. t - 1
      BY <1>2, <2>1
    <3>2. updates2[queue2[i]].idx \in start .. (t + 1) - 1
      BY <3>1
    <3> QED BY <1>2, <2>1, <3>2
  <2>2. CASE i = Len(queue) + 1
    BY <1>1, <2>2
  <2> QED BY <1>3, <2>1, <2>2
<1>5. ASSUME NEW i \in 0 + 1 .. Len(queue2), NEW j \in 0 + 1 .. Len(queue2), i < j
      PROVE  updates2[queue2[i]].idx < updates2[queue2[j]].idx
  <2>1. i \in 1 .. Len(queue)
    BY <1>1, <1>5
  <2>2. CASE j \in 1 .. Len(queue)
    <3>1. updates[queue[i]].idx < updates[queue[j]].idx
      BY <1>1, <1>5, <2>1, <2>2 DEF Matches
    <3> QED BY <1>2, <2>1, <2>2, <3>1
  <2>3. CASE j = Len(queue) + 1
    <3>1. updates2[queue2[i]].idx \in start .. t - 1 /\ updates2[queue2[j]].idx = t
      BY <1>1, <1>2, <2>1, <2>3
    <3> QED BY <3>1
  <2> QED BY <1>3, <2>2, <2>3
<1>6. ASSUME NEW k \in start .. (t + 1) - 1, l2[k].node_id = n
      PROVE  \E i \in 0 + 1 .. Len(queue2) : updates2[queue2[i]].idx = k
  <2>1. CASE k = t
    <3>1. Len(queue) + 1 \in 0 + 1 .. Len(queue2)
      BY <1>1
    <3> QED BY <1>1, <2>1, <3>1
  <2>2. CASE k # t
    <3>1. k \in start .. t - 1 /\ k \in 0 .. t - 1
      BY <2>2
    <3>2. PICK i \in 0 + 1 .. Len(queue) : updates[queue[i]].idx = k
      BY <1>6, <3>1 DEF Matches
    <3>3. i \in 1 .. Len(queue) /\ i \in 0 + 1 .. Len(queue2)
      BY <1>1, <3>2
    <3> QED BY <1>2, <3>2, <3>3
  <2> QED BY <2>1, <2>2
<1> QED BY <1>4, <1>5, <1>6 DEF Matches, queue2

(* A request is placed at the end of the log and of its combiner's queue. *)
LEMMA PlaceStep ==
  ASSUME Ind, NEW n \in NodeId, NEW rid \in ReqId, update_place_ops_in_log_one(n, rid)
  PROVE  Ind'
<1> DEFINE old == combiner[n]
           queue == old.queued_ops
           queue2 == Append(queue, rid)
           c == Placed(queue2)
           op == local_updates[rid].op
           entry == [op |-> op, node_id |-> n]
           new == UpdatePlaced(op, tail)
<1>1. /\ old.state = "Placed" /\ rid \in DOMAIN local_updates /\ local_updates[rid].state = "Init"
      /\ tail < MAX_LOG /\ tail' = tail + 1 /\ log' = insert(log, tail, entry)
      /\ local_updates' = [local_updates EXCEPT ![rid] = new] /\ Become(n, c)
      /\ UNCHANGED <<replicas, local_versions, version_upper_bound, local_reads>>
  BY DEF update_place_ops_in_log_one, Combining
<1>2. UnboundedLogTypeOK /\ QueuesApart /\ UpdatesOK
  BY DEF Ind
<1>3. /\ old \in CombinerState /\ queue \in Seq(ReqId) /\ tail \in LogIdx /\ tail \in Nat
      /\ version_upper_bound \in Nat /\ version_upper_bound <= tail
      /\ local_versions[n] \in Nat /\ local_versions[n] <= version_upper_bound
      /\ replicas[n] = Prefix(log, Current(old, local_versions[n]))
      /\ CombinerOK(old, local_versions[n], tail, version_upper_bound, log, local_updates, n)
      /\ DOMAIN log = 0 .. tail - 1
  BY Working, LogIdxIsNat, Before
<1>4. seq_unique(queue) /\ Matches(log, local_updates, queue, 0, local_versions[n], tail, n)
  BY <1>1, <1>3 DEF CombinerOK
<1>5. /\ queue2 \in Seq(ReqId) /\ Len(queue) \in Nat /\ Len(queue2) = Len(queue) + 1
      /\ queue2[Len(queue) + 1] = rid
      /\ \A i \in 1 .. Len(queue) : queue2[i] = queue[i]
  BY <1>3, QueueAppend
<1>6. op \in Ops
  <2>1. local_updates[rid] \in UpdateState
    BY <1>1, <1>2 DEF UnboundedLogTypeOK
  <2> QED BY <1>1, <2>1, UpdateFields
<1>7. new \in UpdateState /\ new.state = "Placed" /\ new.idx = tail
  BY <1>3, <1>6 DEF UpdateState, UpdatePlaced
<1>8. c \in CombinerState /\ c.state = "Placed" /\ c.queued_ops = queue2
  BY <1>5 DEF CombinerState, Placed
<1>9. entry \in [op : Ops, node_id : NodeId] /\ entry.node_id = n
  BY <1>6
<1> HIDE DEF queue2, c, entry, new, op
<1>10. /\ combiner'[n] = c
       /\ \A m \in NodeId \ {n} : combiner'[m] = combiner[m]
  BY <1>1, <1>2 DEF Become, UnboundedLogTypeOK
<1>11. /\ log' \in [0 .. tail' - 1 -> [op : Ops, node_id : NodeId]]
       /\ \A k \in 0 .. tail - 1 : log'[k] = log[k]
       /\ log'[tail] = entry
  <2>1. /\ DOMAIN log \cup {tail} = 0 .. (tail + 1) - 1
        /\ \A k \in 0 .. tail - 1 : k # tail
    BY <1>3
  <2>2. log' = [k \in 0 .. (tail + 1) - 1 |-> IF k = tail THEN entry ELSE log[k]]
    BY <1>1, <2>1 DEF insert
  <2>3. \A k \in 0 .. (tail + 1) - 1 : k # tail => k \in 0 .. tail - 1
    BY <1>3
  <2>4. \A k \in 0 .. tail - 1 : log[k] \in [op : Ops, node_id : NodeId]
    BY <1>2 DEF UnboundedLogTypeOK
  <2>5. log' \in [0 .. (tail + 1) - 1 -> [op : Ops, node_id : NodeId]]
    BY <1>9, <2>2, <2>3, <2>4
  <2>6. tail \in 0 .. (tail + 1) - 1 /\ \A k \in 0 .. tail - 1 : k \in 0 .. (tail + 1) - 1
    BY <1>3
  <2> QED BY <1>1, <2>1, <2>2, <2>5, <2>6
<1>12. /\ DOMAIN local_updates' = DOMAIN local_updates
       /\ \A r \in DOMAIN local_updates : local_updates'[r] = IF r = rid THEN new ELSE local_updates[r]
  BY <1>1
<1>13. tail' \in LogIdx /\ tail' \in Nat
  BY <1>1, <1>3, UnboundedLogAssumption DEF LogIdx
<1>14. UnboundedLogTypeOK'
  <2>1. \A r \in DOMAIN local_updates' : local_updates'[r] \in UpdateState
    BY <1>2, <1>7, <1>12 DEF UnboundedLogTypeOK
  <2>2. combiner' \in [NodeId -> CombinerState]
    BY <1>1, <1>2, <1>8 DEF UnboundedLogTypeOK, Become
  <2> QED BY <1>1, <1>2, <1>11, <1>12, <1>13, <2>1, <2>2 DEF UnboundedLogTypeOK
<1>15. \A m \in NodeId : \A i \in 1 .. Len(combiner[m].queued_ops) : combiner[m].queued_ops[i] # rid
  BY <1>1, InitNotQueued
<1>16. Current(old, local_versions[n]) = local_versions[n] /\ Current(c, local_versions[n]) = local_versions[n]
  BY <1>1, <1>8 DEF Current
<1>17. NodeOK(combiner'[n], local_versions'[n], replicas'[n], tail', version_upper_bound',
              log', local_updates', n)
  <2>1. Matches(log', local_updates', queue2, 0, local_versions[n], tail + 1, n)
    <3>1. \A i \in 1 .. Len(queue) :
            /\ queue[i] \in DOMAIN local_updates => queue[i] \in DOMAIN local_updates'
            /\ local_updates'[queue[i]] = local_updates[queue[i]]
      <4> SUFFICES ASSUME NEW i \in 1 .. Len(queue)
                   PROVE  local_updates'[queue[i]] = local_updates[queue[i]]
        BY <1>12
      <4>1. i \in 0 + 1 .. Len(queue) /\ queue[i] # rid
        BY <1>15
      <4>2. queue[i] \in DOMAIN local_updates
        BY <1>4, <4>1 DEF Matches
      <4> QED BY <1>12, <4>1, <4>2
    <3>2. /\ rid \in DOMAIN local_updates' /\ local_updates'[rid].state = "Placed"
          /\ local_updates'[rid].idx = tail
      BY <1>1, <1>7, <1>12
    <3>3. local_versions[n] <= tail /\ log'[tail].node_id = n
      BY <1>3, <1>9, <1>11
    <3>4. queue \in Seq(ReqId) /\ tail \in Nat /\ local_versions[n] \in Nat
      BY <1>3
    <3>5. Matches(log, local_updates, queue, 0, local_versions[n], tail, n)
      BY <1>4
    <3> HIDE DEF old, queue
    <3>6. PlacedAt(log, log', local_updates, local_updates', queue, rid, local_versions[n], tail, n)
      BY <3>1, <3>2, <3>3, <3>4, <3>5, <1>11 DEF PlacedAt
    <3> QED BY <3>6, MatchesAppend DEF queue2
  <2>2. seq_unique(queue2)
    <3> SUFFICES ASSUME NEW i \in 1 .. Len(queue) + 1, NEW j \in 1 .. Len(queue) + 1, i # j
                 PROVE  queue2[i] # queue2[j]
      BY <1>5 DEF seq_unique
    <3>1. \A k \in 1 .. Len(queue) + 1 : k \in 1 .. Len(queue) \/ k = Len(queue) + 1
      BY <1>5
    <3>2. \A k \in 1 .. Len(queue) : queue2[k] = queue[k] /\ queue[k] # rid
      BY <1>5, <1>15
    <3>3. CASE i \in 1 .. Len(queue) /\ j \in 1 .. Len(queue)
      <4>1. DOMAIN queue = 1 .. Len(queue)
        BY <1>3
      <4> QED BY <1>4, <3>2, <3>3, <4>1 DEF seq_unique
    <3>4. CASE i = Len(queue) + 1 \/ j = Len(queue) + 1
      BY <1>5, <3>1, <3>2, <3>4
    <3> QED BY <3>1, <3>3, <3>4
  <2>3. CombinerOK(c, local_versions[n], tail + 1, version_upper_bound, log', local_updates', n)
    BY <1>8, <2>1, <2>2 DEF CombinerOK
  <2>4. Prefix(log', local_versions[n]) = Prefix(log, local_versions[n])
    <3>1. \A i \in 1 .. local_versions[n] : i - 1 \in 0 .. tail - 1
      BY <1>3
    <3>2. \A i \in 1 .. local_versions[n] : log'[i - 1].op = log[i - 1].op
      BY <1>11, <3>1
    <3> QED BY <3>2 DEF Prefix
  <2>5. local_versions[n] <= tail + 1
    BY <1>3
  <2> QED BY <1>1, <1>3, <1>10, <1>16, <2>3, <2>4, <2>5 DEF NodeOK
<1>18. Requests(c) = Requests(old) \cup {rid}
  <2>1. DOMAIN queue2 = 1 .. Len(queue) + 1 /\ DOMAIN queue = 1 .. Len(queue)
    BY <1>3, <1>5
  <2>2. \A k : k \in 1 .. Len(queue) + 1 <=> k \in 1 .. Len(queue) \/ k = Len(queue) + 1
    BY <1>5
  <2> QED BY <1>5, <1>8, <2>1, <2>2 DEF Requests
<1>19. ASSUME NEW m \in NodeId \ {n}
       PROVE  /\ combiner'[m] = combiner[m] /\ local_versions'[m] = local_versions[m]
              /\ replicas'[m] = replicas[m]
              /\ Untouched(local_updates, local_updates', combiner[m].queued_ops)
              /\ Requests(combiner'[n]) \cap Requests(combiner[m]) = {}
  <2>1. Requests(old) \cap Requests(combiner[m]) = {} /\ combiner[m].queued_ops \in Seq(ReqId)
    BY <1>2, Working DEF QueuesApart
  <2>2. rid \notin Requests(combiner[m])
    BY <1>15, <2>1 DEF Requests
  <2>3. Untouched(local_updates, local_updates', combiner[m].queued_ops)
    BY <1>12, <1>15 DEF Untouched
  <2> QED BY <1>1, <1>10, <1>18, <2>1, <2>2, <2>3
<1>20. Current(combiner[n], local_versions[n]) <= Current(combiner'[n], local_versions'[n])
  BY <1>1, <1>3, <1>10, <1>16
<1>21. ASSUME NEW r \in DOMAIN local_updates'
       PROVE  UpdateOK(local_updates'[r], tail', version_upper_bound', log')
  <2>1. CASE r = rid
    BY <1>7, <1>12, <2>1 DEF UpdateOK
  <2>2. CASE r # rid
    <3> DEFINE update == local_updates[r]
    <3>1. update \in UpdateState /\ UpdateOK(update, tail, version_upper_bound, log)
      BY <1>2, <1>12 DEF UnboundedLogTypeOK, UpdatesOK
    <3>2. /\ tail <= tail' /\ version_upper_bound <= version_upper_bound' /\ version_upper_bound' \in Nat
      BY <1>1, <1>3
    <3> HIDE DEF update
    <3>3. UpdateOK(update, tail', version_upper_bound', log')
      BY <1>3, <1>11, <1>13, <3>1, <3>2, UpdateStays
    <3> QED BY <1>12, <2>2, <3>3 DEF update
  <2> QED BY <2>1, <2>2
<1>22. /\ tail <= tail' /\ version_upper_bound <= version_upper_bound' /\ version_upper_bound' <= tail'
       /\ \A k \in tail .. tail' - 1 : log'[k].node_id = n
  <2>1. \A k \in tail .. (tail + 1) - 1 : k = tail
    BY <1>3
  <2>2. version_upper_bound <= tail + 1
    BY <1>3
  <2> QED BY <1>1, <1>3, <1>9, <1>11, <2>1, <2>2
<1>23. local_reads' = local_reads
  BY <1>1
<1> QED BY <1>11, <1>14, <1>17, <1>19, <1>20, <1>21, <1>22, <1>23, CombinerFrame

-----------------------------------------------------------------------------

LEMMA IndStep == Ind /\ [Next]_vars => Ind'
<1> SUFFICES ASSUME Ind, [Next]_vars PROVE Ind'
  OBVIOUS
<1>1. CASE UNCHANGED vars \/ readonly_view_oob
  <2>1. UNCHANGED <<log, tail, replicas, local_versions, version_upper_bound, local_updates, combiner>>
    BY <1>1 DEF vars, readonly_view_oob
  <2>2. local_reads' = local_reads
    BY <1>1 DEF vars, readonly_view_oob
  <2>3. DOMAIN local_reads \subseteq ReqId
    BY DEF Ind, UnboundedLogTypeOK
  <2>4. \A rid \in DOMAIN local_reads :
            LET n == local_reads[rid].node_id
            IN  /\ local_reads[rid] \in ReadonlyState
                /\ ReadOK(local_reads[rid], Current(combiner[n], local_versions[n]), version_upper_bound, log)
    BY DEF Ind, UnboundedLogTypeOK, ReadsOK
  <2> QED BY <2>1, <2>2, <2>3, <2>4, ReadStep
<1>2. ASSUME NEW rid \in ReqId, RequestStep(rid) PROVE Ind'
  BY <1>2, ReadSteps, UpdateSteps DEF RequestStep
<1>3. ASSUME NEW n \in NodeId, CombinerStep(n) PROVE Ind'
  BY <1>3, PlaceStep, DispatchLocal, DispatchRemote, QuietCombinerSteps DEF CombinerStep
<1> QED BY <1>1, <1>2, <1>3 DEF Next

LEMMA IndCorrect == Spec => []Ind
BY InitInd, IndStep, PTL DEF Spec

(* Versions stay in order, every combiner answers the requests of its node *)
(* and no others, replicas are prefixes of the log, and answers stay right *)
(* until they are taken, for any number of nodes and requests (the         *)
(* invariants of unbounded_log.rs).                                        *)
THEOREM UnboundedLogCorrect == Spec => []UnboundedLogInv
BY IndCorrect, IndImplies, PTL


-----------------------------------------------------------------------------
(* The simple log. Its state, as the interpretation has it, is a function  *)
(* of the state here; the requests in flight are mapped one by one.        *)

SimpleRead(read) ==
  IF read.state = "Init" THEN [state |-> "Init", node_id |-> read.node_id]
  ELSE [state |-> "Req", version |-> read.version_upper_bound, node_id |-> read.node_id]

SimpleReads(reads) == [rid \in DOMAIN reads |-> SimpleRead(reads[rid])]

Waiting(updates) == {rid \in DOMAIN updates : updates[rid].state = "Init"}

SimpleRequests(updates) == [rid \in Waiting(updates) |-> updates[rid].op]

SimpleResponses(updates) == [rid \in DOMAIN updates \ Waiting(updates) |-> updates[rid].idx]

LEMMA Interpretation ==
  /\ interp_readonly_reqs = SimpleReads(local_reads)
  /\ interp_update_reqs = SimpleRequests(local_updates)
  /\ interp_update_resps = SimpleResponses(local_updates)
BY DEF interp_readonly_reqs, interp_update_reqs, interp_update_resps, Unplaced, SimpleReads, SimpleRead,
       SimpleRequests, SimpleResponses, Waiting

LEMMA InterpretationNext ==
  (/\ interp_readonly_reqs = SimpleReads(local_reads)
   /\ interp_update_reqs = SimpleRequests(local_updates)
   /\ interp_update_resps = SimpleResponses(local_updates))'
BY Interpretation, PTL

LEMMA ReadComes ==
  ASSUME NEW reads, NEW rid, NEW read
  PROVE  SimpleReads(insert(reads, rid, read)) = Simple!insert(SimpleReads(reads), rid, SimpleRead(read))
BY DEF SimpleReads, insert, Simple!insert

LEMMA ReadGoes ==
  ASSUME NEW reads, NEW rid
  PROVE  SimpleReads(remove(reads, rid)) = Simple!remove(SimpleReads(reads), rid)
BY DEF SimpleReads, remove, Simple!remove

LEMMA ReadChanges ==
  ASSUME NEW reads, NEW rid \in DOMAIN reads, NEW read
  PROVE  SimpleReads([reads EXCEPT ![rid] = read]) = [SimpleReads(reads) EXCEPT ![rid] = SimpleRead(read)]
BY DEF SimpleReads

LEMMA UpdateComes ==
  ASSUME NEW updates, NEW rid, rid \notin DOMAIN updates, NEW op
  PROVE  /\ SimpleRequests(insert(updates, rid, UpdateInit(op)))
              = Simple!insert(SimpleRequests(updates), rid, op)
         /\ SimpleResponses(insert(updates, rid, UpdateInit(op))) = SimpleResponses(updates)
<1> DEFINE new == insert(updates, rid, UpdateInit(op))
<1>1. /\ DOMAIN new = DOMAIN updates \cup {rid} /\ new[rid].state = "Init" /\ new[rid].op = op
      /\ \A r \in DOMAIN updates : new[r] = updates[r]
  BY DEF insert, UpdateInit
<1> HIDE DEF new
<1>2. Waiting(new) = Waiting(updates) \cup {rid} /\ rid \notin Waiting(updates)
  BY <1>1 DEF Waiting
<1>3. Waiting(updates) \subseteq DOMAIN updates
  BY DEF Waiting
<1>4. SimpleRequests(new) = Simple!insert(SimpleRequests(updates), rid, op)
  BY <1>1, <1>2, <1>3 DEF SimpleRequests, Simple!insert
<1>5. SimpleResponses(new) = SimpleResponses(updates)
  <2>1. DOMAIN new \ Waiting(new) = DOMAIN updates \ Waiting(updates)
    BY <1>1, <1>2
  <2> QED BY <1>1, <2>1 DEF SimpleResponses
<1> QED BY <1>4, <1>5 DEF new

LEMMA UpdateGoes ==
  ASSUME NEW updates, NEW rid \in DOMAIN updates, updates[rid].state # "Init"
  PROVE  /\ SimpleRequests(remove(updates, rid)) = SimpleRequests(updates)
         /\ SimpleResponses(remove(updates, rid)) = Simple!remove(SimpleResponses(updates), rid)
<1> DEFINE new == remove(updates, rid)
<1>1. /\ DOMAIN new = DOMAIN updates \ {rid}
      /\ \A r \in DOMAIN new : new[r] = updates[r]
  BY DEF remove
<1> HIDE DEF new
<1>2. Waiting(new) = Waiting(updates) /\ Waiting(new) \subseteq DOMAIN new
  BY <1>1 DEF Waiting
<1>3. SimpleRequests(new) = SimpleRequests(updates)
  BY <1>1, <1>2 DEF SimpleRequests
<1>4. SimpleResponses(new) = Simple!remove(SimpleResponses(updates), rid)
  <2>1. DOMAIN new \ Waiting(new) = (DOMAIN updates \ Waiting(updates)) \ {rid}
    BY <1>1, <1>2
  <2> QED BY <1>1, <2>1 DEF SimpleResponses, Simple!remove
<1> QED BY <1>3, <1>4 DEF new

(* An update changes its state behind the scenes: its place is the same.   *)
LEMMA UpdateStaysPut ==
  ASSUME NEW updates, NEW rid \in DOMAIN updates, NEW new, updates[rid].state # "Init",
         new.state # "Init", new.idx = updates[rid].idx
  PROVE  /\ SimpleRequests([updates EXCEPT ![rid] = new]) = SimpleRequests(updates)
         /\ SimpleResponses([updates EXCEPT ![rid] = new]) = SimpleResponses(updates)
<1> DEFINE updates2 == [updates EXCEPT ![rid] = new]
<1>1. /\ DOMAIN updates2 = DOMAIN updates /\ updates2[rid] = new
      /\ \A r \in DOMAIN updates : r # rid => updates2[r] = updates[r]
  OBVIOUS
<1> HIDE DEF updates2
<1>2. Waiting(updates2) = Waiting(updates) /\ rid \notin Waiting(updates)
      /\ Waiting(updates) \subseteq DOMAIN updates
  BY <1>1 DEF Waiting
<1>3. SimpleRequests(updates2) = SimpleRequests(updates)
  BY <1>1, <1>2 DEF SimpleRequests
<1>4. SimpleResponses(updates2) = SimpleResponses(updates)
  BY <1>1, <1>2 DEF SimpleResponses
<1> QED BY <1>3, <1>4 DEF updates2

LEMMA UpdateGetsPlace ==
  ASSUME NEW updates, NEW rid \in DOMAIN updates, NEW new, updates[rid].state = "Init",
         new.state # "Init"
  PROVE  /\ SimpleRequests([updates EXCEPT ![rid] = new]) = Simple!remove(SimpleRequests(updates), rid)
         /\ SimpleResponses([updates EXCEPT ![rid] = new])
              = Simple!insert(SimpleResponses(updates), rid, new.idx)
<1> DEFINE updates2 == [updates EXCEPT ![rid] = new]
<1>1. /\ DOMAIN updates2 = DOMAIN updates /\ updates2[rid] = new
      /\ \A r \in DOMAIN updates : r # rid => updates2[r] = updates[r]
  OBVIOUS
<1> HIDE DEF updates2
<1>2. Waiting(updates2) = Waiting(updates) \ {rid} /\ rid \in Waiting(updates)
      /\ Waiting(updates) \subseteq DOMAIN updates
  BY <1>1 DEF Waiting
<1>3. SimpleRequests(updates2) = Simple!remove(SimpleRequests(updates), rid)
  BY <1>1, <1>2 DEF SimpleRequests, Simple!remove
<1>4. SimpleResponses(updates2) = Simple!insert(SimpleResponses(updates), rid, new.idx)
  <2>1. DOMAIN updates2 \ Waiting(updates2) = (DOMAIN updates \ Waiting(updates)) \cup {rid}
    BY <1>1, <1>2
  <2> QED BY <1>1, <1>2, <2>1 DEF SimpleResponses, Simple!insert
<1> QED BY <1>3, <1>4 DEF updates2

(* The simple log is as long as the log, and its states are the prefixes.  *)
LEMMA SimpleLength ==
  ASSUME tail \in Nat
  PROVE  Len(interp_log) = tail
<1>1. interp_log \in [1 .. tail -> {interp_log[i] : i \in 1 .. tail}]
  BY DEF interp_log
<1> HIDE DEF interp_log
<1>2. interp_log \in Seq({interp_log[i] : i \in 1 .. tail})
  BY <1>1
<1> QED BY <1>1, <1>2

LEMMA SimpleState ==
  ASSUME tail \in Nat, NEW v \in Nat, v <= tail
  PROVE  Simple!nrstate_at_version(v) = Prefix(log, v)
<1>1. \A i \in 1 .. v : i \in 1 .. tail
  OBVIOUS
<1>2. \A i \in 1 .. v : interp_log[i].op = log[i - 1].op
  BY <1>1 DEF interp_log
<1>3. Simple!nrstate_at_version(v) = [i \in 1 .. v |-> interp_log[i].op]
  BY DEF Simple!nrstate_at_version, Simple!compute_nrstate_at_version
<1> QED BY <1>2, <1>3 DEF Prefix

LEMMA SimpleInit == Init => Simple!Init
<1> SUFFICES ASSUME Init PROVE Simple!Init
  OBVIOUS
<1>1. interp_log = << >>
  <2>1. 1 .. tail = {}
    BY DEF Init
  <2> QED BY <2>1 DEF interp_log
<1>2. interp_replica_versions = [r \in Simple!Replica |-> 0]
  BY DEF Init, interp_replica_versions, current_local_version, Ready, Simple!Replica, NodeId
<1>3. /\ interp_readonly_reqs = Simple!Empty /\ interp_update_reqs = Simple!Empty
      /\ interp_update_resps = Simple!Empty
  BY Interpretation DEF Init, Empty, Simple!Empty, SimpleReads, SimpleRequests, SimpleResponses, Waiting
<1> QED BY <1>1, <1>2, <1>3 DEF Simple!Init, Init, Internal, Simple!Internal

LEMMA LogKept ==
  ASSUME UNCHANGED <<log, tail>>
  PROVE  UNCHANGED interp_log
BY DEF interp_log

(* A step that the simple log does not see. *)
LEMMA SimpleQuiet ==
  ASSUME label' = Internal,
         UNCHANGED <<log, tail, version_upper_bound>>, UNCHANGED interp_replica_versions,
         interp_readonly_reqs' = interp_readonly_reqs,
         interp_update_reqs' = interp_update_reqs, interp_update_resps' = interp_update_resps
  PROVE  Simple!Next
BY LogKept DEF Simple!Next, Simple!no_op, Internal, Simple!Internal

LEMMA VersionsKept ==
  ASSUME UNCHANGED <<local_versions, combiner>>
  PROVE  UNCHANGED interp_replica_versions
BY DEF interp_replica_versions, current_local_version

(* A request that is not in flight here is not in flight there. *)
LEMMA FreshIsUnused ==
  ASSUME NEW rid, Fresh(rid)
  PROVE  Simple!Unused(rid)
<1>1. /\ DOMAIN interp_readonly_reqs = DOMAIN local_reads
      /\ DOMAIN interp_update_reqs \subseteq DOMAIN local_updates
      /\ DOMAIN interp_update_resps \subseteq DOMAIN local_updates
  BY DEF interp_readonly_reqs, interp_update_reqs, interp_update_resps, Unplaced
<1>2. rid \notin DOMAIN local_reads /\ rid \notin DOMAIN local_updates
  BY DEF Fresh
<1> QED BY <1>1, <1>2 DEF Simple!Unused

LEMMA ReadsMap ==
  ASSUME Ind, NEW rid \in ReqId,
         \/ \E n \in NodeId : add_ticket_read(rid, n)
         \/ consume_stub_read(rid)
         \/ readonly_version_upper_bound(rid) \/ readonly_ready_to_read(rid) \/ readonly_apply(rid)
  PROVE  Simple!Next
<1> DEFINE read == local_reads[rid]
<1>1. UNCHANGED <<log, tail, local_versions, version_upper_bound, local_updates, combiner>>
  BY DEF add_ticket_read, consume_stub_read, readonly_version_upper_bound, readonly_ready_to_read,
         readonly_apply
<1>2. UNCHANGED interp_replica_versions
  BY <1>1, VersionsKept
<1>3. interp_update_reqs' = interp_update_reqs /\ interp_update_resps' = interp_update_resps
  BY <1>1, Interpretation, InterpretationNext
<1>4. /\ interp_readonly_reqs = SimpleReads(local_reads)
      /\ interp_readonly_reqs' = SimpleReads(local_reads')
  BY Interpretation, InterpretationNext
<1>5. rid \in DOMAIN local_reads => SimpleReads(local_reads)[rid] = SimpleRead(read)
  BY DEF SimpleReads
<1>6. CASE \E n \in NodeId : add_ticket_read(rid, n)
  <2>1. PICK n \in NodeId : add_ticket_read(rid, n)
    BY <1>6
  <2>2. local_reads' = insert(local_reads, rid, ReadInit(n)) /\ label' = Start(rid) /\ Fresh(rid)
    BY <2>1 DEF add_ticket_read
  <2>3. SimpleRead(ReadInit(n)) = [state |-> "Init", node_id |-> n]
    BY DEF SimpleRead, ReadInit
  <2>4. interp_readonly_reqs' = Simple!insert(interp_readonly_reqs, rid, [state |-> "Init", node_id |-> n])
    BY <1>4, <2>2, <2>3, ReadComes
  <2>5. Simple!Unused(rid) /\ label' = Simple!Start(rid)
    BY <2>2, FreshIsUnused DEF Start, Simple!Start
  <2>6. Simple!readonly_start(rid, n)
    BY <1>1, <1>2, <1>3, <2>4, <2>5, LogKept DEF Simple!readonly_start
  <2> QED BY <2>6 DEF Simple!Next, Simple!Replica, NodeId
<1>7. CASE consume_stub_read(rid)
  <2>1. /\ rid \in DOMAIN local_reads /\ read.state = "Done"
        /\ local_reads' = remove(local_reads, rid) /\ label' = End(rid, read.ret)
    BY <1>7 DEF consume_stub_read
  <2>2. /\ read \in ReadonlyState
        /\ ReadOK(read, Current(combiner[read.node_id], local_versions[read.node_id]), version_upper_bound, log)
    BY <2>1 DEF Ind, UnboundedLogTypeOK, ReadsOK
  <2>3. read.node_id \in NodeId /\ read.version_upper_bound \in Nat
    BY <2>1, <2>2, ReadFields, LogIdxIsNat
  <2>4. PICK v \in read.version_upper_bound .. version_upper_bound :
          /\ v <= Current(combiner[read.node_id], local_versions[read.node_id])
          /\ read.ret = Prefix(log, v)
    BY <2>1, <2>2 DEF ReadOK
  <2>5. tail \in Nat /\ version_upper_bound \in Nat /\ version_upper_bound <= tail
    BY Before
  <2>6. v \in Nat /\ v <= tail /\ v <= version_upper_bound /\ read.version_upper_bound <= v
    BY <2>3, <2>4, <2>5
  <2>7. Len(interp_log) = tail
    BY <2>5, SimpleLength
  <2>8. v <= interp_replica_versions[read.node_id]
    BY <2>3, <2>4, CurrentIs DEF interp_replica_versions
  <2>9. /\ SimpleRead(read).state = "Req" /\ SimpleRead(read).node_id = read.node_id
        /\ SimpleRead(read).version = read.version_upper_bound
    BY <2>1 DEF SimpleRead
  <2>10. /\ rid \in DOMAIN interp_readonly_reqs /\ interp_readonly_reqs[rid] = SimpleRead(read)
         /\ interp_readonly_reqs' = Simple!remove(interp_readonly_reqs, rid)
    BY <1>4, <1>5, <2>1, ReadGoes DEF SimpleReads
  <2>11. label' = Simple!End(rid, Simple!dispatch_spec(Simple!nrstate_at_version(v)))
    BY <2>1, <2>4, <2>5, <2>6, SimpleState DEF End, Simple!End, Simple!dispatch_spec
  <2>12. v \in Simple!Version
    <3>1. Simple!Version = 0 .. Len(interp_log)
      BY DEF Simple!Version
    <3> QED BY <2>5, <2>6, <2>7, <3>1
  <2>13. Simple!readonly_finish(rid, v)
    BY <1>1, <1>2, <1>3, <2>6, <2>7, <2>8, <2>9, <2>10, <2>11, LogKept
       DEF Simple!readonly_finish
  <2> QED BY <2>12, <2>13 DEF Simple!Next
<1>8. CASE readonly_version_upper_bound(rid)
  <2> DEFINE new == VersionUpperBound(read.node_id, version_upper_bound)
             there == [state |-> "Req", version |-> version_upper_bound, node_id |-> read.node_id]
  <2>1. /\ rid \in DOMAIN local_reads /\ read.state = "Init" /\ label' = Internal
        /\ local_reads' = [local_reads EXCEPT ![rid] = new]
    BY <1>8 DEF readonly_version_upper_bound
  <2>2. SimpleRead(new) = there
    BY DEF SimpleRead, VersionUpperBound
  <2>3. SimpleRead(read).state = "Init" /\ SimpleRead(read).node_id = read.node_id
    BY <2>1 DEF SimpleRead
  <2> HIDE DEF new
  <2>4. /\ rid \in DOMAIN interp_readonly_reqs /\ interp_readonly_reqs[rid] = SimpleRead(read)
        /\ interp_readonly_reqs' = [interp_readonly_reqs EXCEPT ![rid] = there]
    BY <1>4, <1>5, <2>1, <2>2, ReadChanges DEF SimpleReads
  <2>5. Simple!readonly_read_version(rid)
    BY <1>1, <1>2, <1>3, <2>1, <2>3, <2>4, LogKept
       DEF Simple!readonly_read_version, Internal, Simple!Internal
  <2> QED BY <2>5 DEF Simple!Next
<1>9. CASE readonly_ready_to_read(rid) \/ readonly_apply(rid)
  <2>1. PICK new : /\ rid \in DOMAIN local_reads /\ label' = Internal
                   /\ read.state # "Init" /\ new.state # "Init"
                   /\ new.node_id = read.node_id
                   /\ new.version_upper_bound = read.version_upper_bound
                   /\ local_reads' = [local_reads EXCEPT ![rid] = new]
    <3>1. CASE readonly_ready_to_read(rid)
      BY <3>1 DEF readonly_ready_to_read, ReadyToRead
    <3>2. CASE readonly_apply(rid)
      BY <3>2 DEF readonly_apply, ReadDone
    <3> QED BY <1>9, <3>1, <3>2
  <2>2. SimpleRead(new) = SimpleRead(read)
    BY <2>1 DEF SimpleRead
  <2>3. SimpleReads(local_reads') = SimpleReads(local_reads)
    BY <2>1, <2>2 DEF SimpleReads
  <2>4. interp_readonly_reqs' = interp_readonly_reqs
    BY <1>4, <2>3
  <2> QED BY <1>1, <1>2, <1>3, <2>1, <2>4, SimpleQuiet
<1> QED BY <1>6, <1>7, <1>8, <1>9

LEMMA UpdatesMap ==
  ASSUME Ind, NEW rid \in ReqId,
         add_ticket_write(rid) \/ consume_stub_write(rid) \/ update_done(rid)
  PROVE  Simple!Next
<1> DEFINE update == local_updates[rid]
<1>1. UNCHANGED <<log, tail, local_versions, version_upper_bound, local_reads, combiner>>
  BY DEF add_ticket_write, consume_stub_write, update_done
<1>2. UNCHANGED interp_replica_versions
  BY <1>1, VersionsKept
<1>3. interp_readonly_reqs' = interp_readonly_reqs
  BY <1>1, Interpretation, InterpretationNext
<1>4. /\ interp_update_reqs = SimpleRequests(local_updates)
      /\ interp_update_reqs' = SimpleRequests(local_updates')
      /\ interp_update_resps = SimpleResponses(local_updates)
      /\ interp_update_resps' = SimpleResponses(local_updates')
  BY Interpretation, InterpretationNext
<1>5. CASE add_ticket_write(rid)
  <2>1. /\ local_updates' = insert(local_updates, rid, UpdateInit(WriteOp(rid)))
        /\ label' = Start(rid) /\ Fresh(rid) /\ rid \notin DOMAIN local_updates
    BY <1>5 DEF add_ticket_write, Fresh
  <2>2. /\ interp_update_reqs' = Simple!insert(interp_update_reqs, rid, WriteOp(rid))
        /\ interp_update_resps' = interp_update_resps
    BY <1>4, <2>1, UpdateComes
  <2>3. Simple!Unused(rid) /\ label' = Simple!Start(rid)
    BY <2>1, FreshIsUnused DEF Start, Simple!Start
  <2>4. Simple!update_start(rid)
    BY <1>1, <1>2, <1>3, <2>2, <2>3, LogKept DEF Simple!update_start
  <2> QED BY <2>4 DEF Simple!Next
<1>6. CASE consume_stub_write(rid)
  <2>1. /\ rid \in DOMAIN local_updates /\ update.state = "Done"
        /\ local_updates' = remove(local_updates, rid) /\ label' = End(rid, update.ret)
    BY <1>6 DEF consume_stub_write
  <2>2. update \in UpdateState /\ UpdateOK(update, tail, version_upper_bound, log)
    BY <2>1 DEF Ind, UnboundedLogTypeOK, UpdatesOK
  <2>3. tail \in Nat /\ version_upper_bound \in Nat /\ version_upper_bound <= tail
    BY Before
  <2>4. update.idx \in Nat
    BY <2>1, <2>2, UpdateFields, LogIdxIsNat
  <2>5. update.idx < version_upper_bound /\ update.idx <= tail /\ update.ret = Prefix(log, update.idx)
    BY <2>1, <2>2, <2>3, <2>4 DEF UpdateOK
  <2>6. /\ interp_update_reqs' = interp_update_reqs
        /\ interp_update_resps' = Simple!remove(interp_update_resps, rid)
    BY <1>4, <2>1, UpdateGoes
  <2>7. rid \in DOMAIN interp_update_resps /\ interp_update_resps[rid] = update.idx
    BY <1>4, <2>1 DEF SimpleResponses, Waiting
  <2>8. Len(interp_log) = tail
    BY <2>3, SimpleLength
  <2>9. label' = Simple!End(rid, Simple!nrstate_at_version(update.idx))
    BY <2>1, <2>3, <2>4, <2>5, SimpleState DEF End, Simple!End
  <2>10. Simple!update_finish(rid)
    BY <1>1, <1>2, <1>3, <2>3, <2>5, <2>6, <2>7, <2>8, <2>9, LogKept
       DEF Simple!update_finish, Simple!dispatch_mut_spec
  <2> QED BY <2>10 DEF Simple!Next
<1>7. CASE update_done(rid)
  <2> DEFINE new == UpdateDone(update.ret, update.idx)
  <2>1. /\ rid \in DOMAIN local_updates /\ update.state # "Init" /\ label' = Internal
        /\ local_updates' = [local_updates EXCEPT ![rid] = new]
    BY <1>7 DEF update_done
  <2>2. new.state # "Init" /\ new.idx = update.idx
    BY DEF UpdateDone
  <2> HIDE DEF new
  <2>3. interp_update_reqs' = interp_update_reqs /\ interp_update_resps' = interp_update_resps
    BY <1>4, <2>1, <2>2, UpdateStaysPut
  <2> QED BY <1>1, <1>2, <1>3, <2>1, <2>3, SimpleQuiet
<1> QED BY <1>5, <1>6, <1>7

(* The version of node n is what its combiner makes of it.                 *)
LEMMA VersionMoves ==
  ASSUME Ind, NEW n \in NodeId, NEW c, Become(n, c),
         \A m \in NodeId \ {n} : local_versions'[m] = local_versions[m]
  PROVE  interp_replica_versions' = [interp_replica_versions EXCEPT ![n] = Current(c, local_versions'[n])]
<1>1. combiner \in [NodeId -> CombinerState]
  BY DEF Ind, UnboundedLogTypeOK
<1>2. combiner'[n] = c /\ \A m \in NodeId \ {n} : combiner'[m] = combiner[m]
  BY <1>1 DEF Become
<1>3. \A m \in NodeId : current_local_version(m)' = Current(combiner'[m], local_versions'[m])
  BY DEF current_local_version, Current
<1>4. \A m \in NodeId : current_local_version(m) = Current(combiner[m], local_versions[m])
  BY CurrentIs
<1>5. \A m \in NodeId \ {n} : current_local_version(m)' = current_local_version(m)
  BY <1>2, <1>3, <1>4
<1>6. current_local_version(n)' = Current(c, local_versions'[n])
  BY <1>2, <1>3
<1> QED BY <1>5, <1>6 DEF interp_replica_versions

(* A combiner's step that leaves its version where it is. *)
LEMMA VersionStays ==
  ASSUME Ind, NEW n \in NodeId, NEW c, Become(n, c),
         \A m \in NodeId \ {n} : local_versions'[m] = local_versions[m],
         Current(c, local_versions'[n]) = Current(combiner[n], local_versions[n])
  PROVE  UNCHANGED interp_replica_versions
<1>1. interp_replica_versions' = [interp_replica_versions EXCEPT ![n] = Current(c, local_versions'[n])]
  BY VersionMoves
<1>2. interp_replica_versions[n] = Current(combiner[n], local_versions[n])
  BY CurrentIs DEF interp_replica_versions
<1> QED BY <1>1, <1>2 DEF interp_replica_versions

LEMMA QuietCombinersMap ==
  ASSUME Ind, NEW n \in NodeId,
         \/ exec_trivial_start(n) \/ exec_load_local_version(n) \/ exec_load_global_head(n)
         \/ exec_finish(n) \/ exec_finish_no_change(n)
  PROVE  Simple!Next
<1> DEFINE old == combiner[n]
           lv == local_versions[n]
<1>1. /\ UNCHANGED <<log, tail, version_upper_bound, local_reads, local_updates>>
      /\ label' = Internal
  BY DEF exec_trivial_start, exec_load_local_version, exec_load_global_head, exec_finish,
         exec_finish_no_change
<1>2. /\ interp_readonly_reqs' = interp_readonly_reqs
      /\ interp_update_reqs' = interp_update_reqs /\ interp_update_resps' = interp_update_resps
  BY <1>1, Interpretation, InterpretationNext
<1>3. CombinerOK(old, lv, tail, version_upper_bound, log, local_updates, n)
  BY Working
<1>4. \E c : /\ Become(n, c)
             /\ \A m \in NodeId \ {n} : local_versions'[m] = local_versions[m]
             /\ Current(c, local_versions'[n]) = Current(old, lv)
  <2>1. CASE exec_trivial_start(n)
    <3>1. old.state = "Ready" /\ Become(n, Placed(<< >>)) /\ UNCHANGED local_versions
      BY <2>1 DEF exec_trivial_start, Combining
    <3>2. Current(Placed(<< >>), lv) = Current(old, lv)
      BY <3>1 DEF Current, Placed
    <3> QED BY <3>1, <3>2
  <2>2. CASE exec_load_local_version(n)
    <3> DEFINE c == LoadedLocalVersion(old.queued_ops, lv)
    <3>1. old.state = "Placed" /\ Become(n, c) /\ UNCHANGED local_versions
      BY <2>2 DEF exec_load_local_version, Combining
    <3>2. Current(c, lv) = Current(old, lv)
      BY <3>1 DEF Current, LoadedLocalVersion
    <3> QED BY <3>1, <3>2
  <2>3. CASE exec_load_global_head(n)
    <3> DEFINE c == Loop(old.queued_ops, old.lversion, 0, tail)
    <3>1. old.state = "LoadedLocalVersion" /\ Become(n, c) /\ UNCHANGED local_versions
      BY <2>3 DEF exec_load_global_head, Combining
    <3>2. old.lversion = lv
      BY <1>3, <3>1 DEF CombinerOK
    <3>3. Current(c, lv) = old.lversion /\ Current(old, lv) = lv
      BY <3>1 DEF Current, Loop
    <3> QED BY <3>1, <3>2, <3>3
  <2>4. CASE exec_finish(n)
    <3>1. /\ old.state = "UpdatedVersion" /\ Become(n, Ready)
          /\ local_versions' = [local_versions EXCEPT ![n] = old.tail]
      BY <2>4 DEF exec_finish, Combining
    <3>2. local_versions \in [NodeId -> LogIdx]
      BY DEF Ind, UnboundedLogTypeOK
    <3>3. /\ local_versions'[n] = old.tail
          /\ \A m \in NodeId \ {n} : local_versions'[m] = local_versions[m]
      BY <3>1, <3>2
    <3>4. Current(Ready, old.tail) = old.tail /\ Current(old, lv) = old.tail
      BY <3>1 DEF Current, Ready
    <3> QED BY <3>1, <3>3, <3>4
  <2>5. CASE exec_finish_no_change(n)
    <3>1. old.state = "LoadedLocalVersion" /\ Become(n, Ready) /\ UNCHANGED local_versions
      BY <2>5 DEF exec_finish_no_change, Combining
    <3>2. Current(Ready, lv) = Current(old, lv)
      BY <3>1 DEF Current, Ready
    <3> QED BY <3>1, <3>2
  <2> QED BY <2>1, <2>2, <2>3, <2>4, <2>5
<1>5. UNCHANGED interp_replica_versions
  BY <1>4, VersionStays
<1> QED BY <1>1, <1>2, <1>5, SimpleQuiet

LEMMA VersionUpperBoundMaps ==
  ASSUME Ind, NEW n \in NodeId, exec_update_version_upper_bound(n)
  PROVE  Simple!Next
<1> DEFINE old == combiner[n]
           lv == local_versions[n]
           c == UpdatedVersion(old.queued_ops, old.tail)
<1>1. /\ old.state = "Loop" /\ old.lversion = old.tail /\ Become(n, c) /\ label' = Internal
      /\ version_upper_bound' = IF version_upper_bound >= old.tail THEN version_upper_bound ELSE old.tail
      /\ UNCHANGED <<log, tail, local_versions, local_reads, local_updates>>
  BY DEF exec_update_version_upper_bound, Combining
<1>2. /\ interp_readonly_reqs' = interp_readonly_reqs
      /\ interp_update_reqs' = interp_update_reqs /\ interp_update_resps' = interp_update_resps
  BY <1>1, Interpretation, InterpretationNext
<1>3. /\ old \in CombinerState /\ tail \in Nat /\ version_upper_bound \in Nat /\ version_upper_bound <= tail
      /\ CombinerOK(old, lv, tail, version_upper_bound, log, local_updates, n)
  BY Working, Before
<1>4. old.tail \in Nat /\ old.tail <= tail
  BY <1>1, <1>3, CombinerFields, LogIdxIsNat DEF CombinerOK
<1>5. Current(c, lv) = old.tail /\ Current(old, lv) = old.lversion
  BY <1>1 DEF Current, UpdatedVersion
<1>6. UNCHANGED interp_replica_versions
  <2> HIDE DEF c
  <2> QED BY <1>1, <1>5, VersionStays
<1>7. Len(interp_log) = tail
  BY <1>3, SimpleLength
<1>8. /\ version_upper_bound' \in 0 .. tail /\ version_upper_bound <= version_upper_bound'
      /\ version_upper_bound' <= tail
  BY <1>1, <1>3, <1>4
<1>9. Simple!update_incr_version(version_upper_bound')
  BY <1>1, <1>2, <1>6, <1>7, <1>8, LogKept
     DEF Simple!update_incr_version, Internal, Simple!Internal
<1>10. Simple!Version = 0 .. Len(interp_log)
  BY DEF Simple!Version
<1> QED BY <1>7, <1>8, <1>9, <1>10 DEF Simple!Next

LEMMA DispatchMaps ==
  ASSUME Ind, NEW n \in NodeId, exec_dispatch_local(n) \/ exec_dispatch_remote(n)
  PROVE  Simple!Next
<1> DEFINE old == combiner[n]
           queue == old.queued_ops
           v == old.lversion + 1
<1>1. /\ old.state = "Loop" /\ old.lversion < old.tail /\ label' = Internal
      /\ UNCHANGED <<log, tail, local_versions, version_upper_bound, local_reads>>
  BY DEF exec_dispatch_local, exec_dispatch_remote, Combining
<1>2. /\ queue \in Seq(ReqId) /\ old.idx \in Nat
      /\ old.lversion \in Nat /\ old.tail \in Nat /\ tail \in Nat /\ old.tail <= tail
      /\ Matches(log, local_updates, queue, old.idx, old.lversion, old.tail, n)
      /\ Current(old, local_versions[n]) = old.lversion
  BY <1>1, InLoop
<1>3. \E c : Become(n, c) /\ Current(c, local_versions[n]) = v
  <2>1. CASE exec_dispatch_local(n)
    <3> DEFINE c == Loop(queue, v, old.idx + 1, old.tail)
    <3>1. Become(n, c)
      BY <2>1 DEF exec_dispatch_local
    <3>2. Current(c, local_versions[n]) = v
      BY DEF Current, Loop
    <3> QED BY <3>1, <3>2
  <2>2. CASE exec_dispatch_remote(n)
    <3> DEFINE c == Loop(queue, v, old.idx, old.tail)
    <3>1. Become(n, c)
      BY <2>2 DEF exec_dispatch_remote
    <3>2. Current(c, local_versions[n]) = v
      BY DEF Current, Loop
    <3> QED BY <3>1, <3>2
  <2> QED BY <2>1, <2>2
<1>4. /\ SimpleRequests(local_updates') = SimpleRequests(local_updates)
      /\ SimpleResponses(local_updates') = SimpleResponses(local_updates)
  <2>1. CASE exec_dispatch_local(n)
    <3> DEFINE rid == queue[old.idx + 1]
               new == UpdateApplied(dispatch_mut_spec(replicas[n], log[old.lversion].op).ret, old.lversion)
    <3>1. /\ log[old.lversion].node_id = n /\ rid \in DOMAIN local_updates
          /\ local_updates' = [local_updates EXCEPT ![rid] = new]
      BY <2>1 DEF exec_dispatch_local
    <3>2. new.state # "Init" /\ new.idx = old.lversion
      BY DEF UpdateApplied
    <3> HIDE DEF new
    <3>3. NextIs(local_updates, queue, old.idx, old.lversion)
      BY <1>1, <1>2, <3>1, NextRequest
    <3>4. local_updates[rid].state # "Init" /\ local_updates[rid].idx = old.lversion
      BY <3>3 DEF NextIs
    <3> HIDE DEF rid
    <3> QED BY <3>1, <3>2, <3>4, UpdateStaysPut
  <2>2. CASE exec_dispatch_remote(n)
    BY <2>2 DEF exec_dispatch_remote
  <2> QED BY <2>1, <2>2
<1>5. /\ interp_readonly_reqs' = interp_readonly_reqs
      /\ interp_update_reqs' = interp_update_reqs /\ interp_update_resps' = interp_update_resps
  BY <1>1, <1>4, Interpretation, InterpretationNext
<1>6. interp_replica_versions' = [interp_replica_versions EXCEPT ![n] = v]
  BY <1>1, <1>3, VersionMoves
<1>7. interp_replica_versions[n] = old.lversion
  BY <1>2, CurrentIs DEF interp_replica_versions
<1>8. Len(interp_log) = tail
  BY <1>2, SimpleLength
<1>9. interp_replica_versions[n] < v /\ v <= Len(interp_log) /\ v \in 0 .. Len(interp_log)
  BY <1>1, <1>2, <1>7, <1>8
<1>10. Simple!update_replica_update(n, v)
  BY <1>1, <1>5, <1>6, <1>9, LogKept
     DEF Simple!update_replica_update, Internal, Simple!Internal
<1>11. v \in Simple!Version /\ n \in Simple!Replica
  BY <1>9 DEF Simple!Version, Simple!Replica, NodeId
<1> HIDE DEF v
<1> QED BY <1>10, <1>11 DEF Simple!Next

LEMMA PlaceMaps ==
  ASSUME Ind, NEW n \in NodeId, NEW rid \in ReqId, update_place_ops_in_log_one(n, rid)
  PROVE  Simple!Next
<1> DEFINE old == combiner[n]
           op == local_updates[rid].op
           c == Placed(Append(old.queued_ops, rid))
           new == UpdatePlaced(op, tail)
<1>1. /\ old.state = "Placed" /\ rid \in DOMAIN local_updates /\ local_updates[rid].state = "Init"
      /\ tail' = tail + 1 /\ log' = insert(log, tail, [op |-> op, node_id |-> n])
      /\ local_updates' = [local_updates EXCEPT ![rid] = new] /\ Become(n, c) /\ label' = Internal
      /\ UNCHANGED <<local_versions, version_upper_bound, local_reads>>
  BY DEF update_place_ops_in_log_one, Combining
<1>2. Current(c, local_versions[n]) = Current(old, local_versions[n])
  BY <1>1 DEF Current, Placed
<1>3. new.state # "Init" /\ new.idx = tail
  BY DEF UpdatePlaced
<1> HIDE DEF c, new
<1>4. UNCHANGED interp_replica_versions
  BY <1>1, <1>2, VersionStays
<1>5. tail \in Nat /\ DOMAIN log = 0 .. tail - 1
  BY Before
<1>6. Len(interp_log) = tail
  BY <1>5, SimpleLength
<1>7. interp_log' = Append(interp_log, [op |-> op])
  <2> DEFINE S == {[op |-> log[i - 1].op] : i \in 1 .. tail} \cup {[op |-> op]}
             e == [op |-> op]
  <2>1. interp_log \in Seq(S) /\ e \in S
    <3>1. interp_log \in [1 .. tail -> S] /\ e \in S
      BY DEF interp_log
    <3> HIDE DEF S, e
    <3>2. interp_log \in Seq(S)
      BY <1>5, <3>1
    <3> QED BY <3>1, <3>2
  <2>2. /\ log'[tail].op = op
        /\ \A i \in 1 .. tail : log'[i - 1] = log[i - 1]
    <3>1. \A i \in 1 .. tail : i - 1 \in 0 .. tail - 1 /\ i - 1 # tail
      BY <1>5
    <3> QED BY <1>1, <1>5, <3>1 DEF insert
  <2>3. interp_log' = [i \in 1 .. tail + 1 |-> [op |-> log'[i - 1].op]]
    BY <1>1 DEF interp_log
  <2>4. /\ \A i \in 1 .. tail : interp_log'[i] = interp_log[i]
        /\ interp_log'[tail + 1] = e
    <3>1. \A i \in 1 .. tail : i \in 1 .. tail + 1
      BY <1>5
    <3>2. tail + 1 \in 1 .. tail + 1 /\ (tail + 1) - 1 = tail
      BY <1>5
    <3> QED BY <2>2, <2>3, <3>1, <3>2 DEF interp_log
  <2> HIDE DEF S, e
  <2>5. interp_log' \in Seq(S) /\ Len(interp_log') = tail + 1
    <3>1. interp_log' \in [1 .. tail + 1 -> {interp_log'[i] : i \in 1 .. tail + 1}]
      BY <2>3
    <3>2. \A i \in 1 .. tail + 1 : interp_log'[i] \in S
      <4>1. \A i \in 1 .. tail + 1 : i \in 1 .. tail \/ i = tail + 1
        BY <1>5
      <4>2. \A i \in 1 .. tail : interp_log[i] \in S
        BY <1>6, <2>1
      <4> QED BY <2>1, <2>4, <4>1, <4>2
    <3>3. interp_log' \in [1 .. tail + 1 -> S]
      BY <3>1, <3>2
    <3> QED BY <1>5, <3>3
  <2>6. Append(interp_log, e) \in Seq(S) /\ Len(Append(interp_log, e)) = tail + 1
    BY <1>6, <2>1
  <2>7. ASSUME NEW i \in 1 .. tail + 1
        PROVE  interp_log'[i] = Append(interp_log, e)[i]
    <3>1. i \in 1 .. tail => Append(interp_log, e)[i] = interp_log[i]
      BY <1>6, <2>1
    <3>2. Append(interp_log, e)[tail + 1] = e
      BY <1>6, <2>1
    <3>3. i \in 1 .. tail \/ i = tail + 1
      BY <1>5
    <3> QED BY <2>4, <3>1, <3>2, <3>3
  <2>8. interp_log' = Append(interp_log, e)
    BY <2>5, <2>6, <2>7, SeqEqual
  <2> QED BY <2>8 DEF e
<1>8. /\ SimpleRequests(local_updates') = Simple!remove(SimpleRequests(local_updates), rid)
      /\ SimpleResponses(local_updates') = Simple!insert(SimpleResponses(local_updates), rid, tail)
  BY <1>1, <1>3, UpdateGetsPlace
<1>9. /\ interp_readonly_reqs' = interp_readonly_reqs
      /\ interp_update_reqs' = Simple!remove(interp_update_reqs, rid)
      /\ interp_update_resps' = Simple!insert(interp_update_resps, rid, tail)
      /\ rid \in DOMAIN interp_update_reqs /\ interp_update_reqs[rid] = op
  <2>1. rid \in DOMAIN SimpleRequests(local_updates) /\ SimpleRequests(local_updates)[rid] = op
    BY <1>1 DEF SimpleRequests, Waiting
  <2> QED BY <1>1, <1>8, <2>1, Interpretation, InterpretationNext
<1>10. Simple!update_add_op_to_log(rid)
  <2> HIDE DEF op
  <2> QED BY <1>1, <1>4, <1>6, <1>7, <1>9
             DEF Simple!update_add_op_to_log, Internal, Simple!Internal
<1> QED BY <1>10 DEF Simple!Next

LEMMA StepMaps == Ind /\ [Next]_vars => [Simple!Next]_(Simple!vars)
<1> SUFFICES ASSUME Ind, [Next]_vars PROVE Simple!Next \/ UNCHANGED Simple!vars
  OBVIOUS
<1>1. CASE UNCHANGED vars
  <2>1. /\ UNCHANGED interp_replica_versions /\ UNCHANGED <<log, tail, version_upper_bound, label>>
        /\ interp_readonly_reqs' = interp_readonly_reqs
        /\ interp_update_reqs' = interp_update_reqs /\ interp_update_resps' = interp_update_resps
    BY <1>1, VersionsKept, Interpretation, InterpretationNext DEF vars
  <2> QED BY <2>1, LogKept DEF Simple!vars
<1>2. CASE readonly_view_oob
  <2>1. /\ UNCHANGED interp_replica_versions /\ UNCHANGED <<log, tail, version_upper_bound>> /\ label' = Internal
        /\ interp_readonly_reqs' = interp_readonly_reqs
        /\ interp_update_reqs' = interp_update_reqs /\ interp_update_resps' = interp_update_resps
    BY <1>2, VersionsKept, Interpretation, InterpretationNext DEF readonly_view_oob
  <2> QED BY <2>1, SimpleQuiet
<1>3. ASSUME NEW rid \in ReqId, RequestStep(rid) PROVE Simple!Next
  BY <1>3, ReadsMap, UpdatesMap DEF RequestStep
<1>4. ASSUME NEW n \in NodeId, CombinerStep(n) PROVE Simple!Next
  BY <1>4, PlaceMaps, DispatchMaps, QuietCombinersMap, VersionUpperBoundMaps DEF CombinerStep
<1> QED BY <1>1, <1>2, <1>3, <1>4 DEF Next

(* A client that talks to replicas and combiners cannot tell them from one *)
(* log: every step of the unbounded log is a step of the simple log with   *)
(* the same label, or one that it does not see                             *)
(* (unbounded_log_refines_simplelog.rs).                                   *)
THEOREM RefinesSimpleLogCorrect == Spec => RefinesSimpleLog
<1>1. Ind /\ [Next]_vars => [Simple!Next]_(Simple!vars)
  BY StepMaps
<1> QED BY <1>1, IndCorrect, SimpleInit, PTL DEF Spec, RefinesSimpleLog, Simple!Spec

-----------------------------------------------------------------------------
(* The same with batches *)

LEMMA NoDuplicates ==
  ASSUME NEW k \in Nat, NEW S, NEW f \in [1 .. k -> S], Cardinality({f[i] : i \in 1 .. k}) = k,
         NEW i \in 1 .. k, NEW j \in 1 .. k, f[i] = f[j]
  PROVE  i = j
<1> DEFINE added == {f[x] : x \in 1 .. k}
<1>1. f \in Surjection(1 .. k, added)
  BY DEF Surjection
<1>2. IsFiniteSet(1 .. k) /\ Cardinality(1 .. k) = k
  BY FS_Interval
<1>3. f \in Injection(1 .. k, added)
  BY <1>1, <1>2, FS_SurjSameCardinalityImpliesInj
<1> QED BY <1>3 DEF Injection, IsInjective

LEMMA Batch ==
  ASSUME NEW rids \in Batches
  PROVE  \E k \in 1 .. Cardinality(Waiting(local_updates)) :
            /\ k \in Nat \ {0}
            /\ rids \in [1 .. k -> Waiting(local_updates)]
            /\ rids \in Seq(Waiting(local_updates)) /\ Len(rids) = k /\ DOMAIN rids = 1 .. k
<1>1. PICK k \in 1 .. Cardinality(Waiting(local_updates)) : rids \in [1 .. k -> Waiting(local_updates)]
  BY DEF Batches, Waiting
<1>2. k \in Nat \ {0}
  OBVIOUS
<1>3. rids \in Seq(Waiting(local_updates)) /\ Len(rids) = k /\ DOMAIN rids = 1 .. k
  BY <1>1, <1>2
<1> QED BY <1>1, <1>2, <1>3

(* What it means that the batch rids of n enters the log. *)
Enters(n, rids) ==
  LET k == Len(rids)
      op(rid) == local_updates[rid].op
  IN  /\ combiner[n] = Ready
      /\ k \in Nat \ {0} /\ rids \in Seq(ReqId) /\ DOMAIN rids = 1 .. k
      /\ \A i, j \in 1 .. k : rids[i] = rids[j] => i = j
      /\ \A i \in 1 .. k :
            /\ rids[i] \in DOMAIN local_updates /\ local_updates[rids[i]].state = "Init"
            /\ op(rids[i]) \in Ops
      /\ tail' = tail + k /\ tail' \in LogIdx
      /\ DOMAIN log' = 0 .. tail' - 1
      /\ \A x \in 0 .. tail - 1 : log'[x] = log[x]
      /\ \A x \in tail .. tail' - 1 : x - tail + 1 \in 1 .. k
                                      /\ log'[x] = [op |-> op(rids[x - tail + 1]), node_id |-> n]
      /\ log' = [x \in 0 .. tail' - 1 |-> log'[x]]
      /\ DOMAIN local_updates' = DOMAIN local_updates
      /\ \A i \in 1 .. k : local_updates'[rids[i]] = UpdatePlaced(op(rids[i]), tail + i - 1)
      /\ \A rid \in DOMAIN local_updates :
            (\A i \in 1 .. k : rids[i] # rid) => local_updates'[rid] = local_updates[rid]
      /\ combiner' = [combiner EXCEPT ![n] = Placed(rids)]
      /\ label' = Internal
      /\ UNCHANGED <<replicas, local_versions, version_upper_bound, local_reads>>

LEMMA Appending ==
  ASSUME Ind, NEW n \in NodeId, NEW rids \in Batches, append_entries(n, rids)
  PROVE  Enters(n, rids)
<1> DEFINE added == {rids[i] : i \in DOMAIN rids}
           place(rid) == CHOOSE i \in DOMAIN rids : rids[i] = rid
           reserved == tail .. tail + Len(rids) - 1
           op(rid) == local_updates[rid].op
<1>1. /\ combiner[n].state = "Ready"
      /\ Cardinality(added) = Len(rids)
      /\ \A rid \in added : rid \in DOMAIN local_updates /\ local_updates[rid].state = "Init"
      /\ tail + Len(rids) <= MAX_LOG
      /\ tail' = tail + Len(rids)
      /\ log' = [x \in DOMAIN log \cup reserved |->
           IF x \in reserved THEN [op |-> op(rids[x - tail + 1]), node_id |-> n] ELSE log[x]]
      /\ local_updates' = [rid \in DOMAIN local_updates |->
           IF rid \in added THEN UpdatePlaced(op(rid), tail + place(rid) - 1) ELSE local_updates[rid]]
      /\ combiner' = [combiner EXCEPT ![n] = Placed(rids)]
      /\ label' = Internal
      /\ UNCHANGED <<replicas, local_versions, version_upper_bound, local_reads>>
  BY DEF append_entries, Combining, Become
<1>2. PICK k \in Nat \ {0} :
        /\ rids \in [1 .. k -> Waiting(local_updates)] /\ rids \in Seq(Waiting(local_updates))
        /\ Len(rids) = k /\ DOMAIN rids = 1 .. k
  BY Batch
<1>3. /\ DOMAIN local_updates \subseteq ReqId
      /\ \A rid \in DOMAIN local_updates : local_updates[rid] \in UpdateState
      /\ tail \in Nat /\ DOMAIN log = 0 .. tail - 1
  BY Before DEF Ind, UnboundedLogTypeOK
<1>4. combiner[n] = Ready
  BY <1>1, Before, CombinerFields DEF CombinerState
<1>5. ASSUME NEW i \in 1 .. k, NEW j \in 1 .. k, rids[i] = rids[j] PROVE i = j
  <2>1. Cardinality({rids[x] : x \in 1 .. k}) = k
    BY <1>1, <1>2
  <2> QED BY <1>2, <1>5, <2>1, NoDuplicates
<1>6. ASSUME NEW i \in 1 .. k
      PROVE  /\ rids[i] \in added
             /\ rids[i] \in DOMAIN local_updates /\ local_updates[rids[i]].state = "Init"
             /\ op(rids[i]) \in Ops
  <2>1. rids[i] \in added
    BY <1>2
  <2>2. rids[i] \in DOMAIN local_updates /\ local_updates[rids[i]].state = "Init"
    BY <1>1, <2>1
  <2> QED BY <1>3, <2>1, <2>2, UpdateFields
<1>7. rids \in Seq(ReqId)
  <2>1. Waiting(local_updates) \subseteq ReqId
    BY <1>3 DEF Waiting
  <2>2. rids \in [1 .. k -> ReqId]
    BY <1>2, <2>1
  <2> QED BY <1>2, <2>2
<1>8. tail + k \in LogIdx
  BY <1>1, <1>2, <1>3, UnboundedLogAssumption DEF LogIdx
<1>9. /\ DOMAIN log \cup reserved = 0 .. (tail + k) - 1
      /\ \A x \in 0 .. tail - 1 : x \notin reserved /\ x \in 0 .. (tail + k) - 1
      /\ \A x \in tail .. (tail + k) - 1 : x \in reserved /\ x \in 0 .. (tail + k) - 1 /\ x - tail + 1 \in 1 .. k
  BY <1>2, <1>3
<1> HIDE DEF reserved
<1>10. /\ DOMAIN log' = 0 .. (tail + k) - 1
       /\ log' = [x \in 0 .. (tail + k) - 1 |-> log'[x]]
       /\ \A x \in 0 .. tail - 1 : log'[x] = log[x]
       /\ \A x \in tail .. (tail + k) - 1 : x - tail + 1 \in 1 .. k
                                      /\ log'[x] = [op |-> op(rids[x - tail + 1]), node_id |-> n]
  BY <1>1, <1>9
<1>11. ASSUME NEW i \in 1 .. k
       PROVE  local_updates'[rids[i]] = UpdatePlaced(op(rids[i]), tail + i - 1)
  <2>1. \A x \in DOMAIN rids : rids[x] = rids[i] <=> x = i
    BY <1>2, <1>5
  <2>2. place(rids[i]) = i
    <3>1. i \in DOMAIN rids
      BY <1>2
    <3> QED BY <2>1, <3>1
  <2> HIDE DEF place
  <2> QED BY <1>1, <1>6, <2>2
<1>12. ASSUME NEW rid \in DOMAIN local_updates, \A i \in 1 .. k : rids[i] # rid
       PROVE  local_updates'[rid] = local_updates[rid]
  <2>1. rid \notin added
    BY <1>2, <1>12
  <2> QED BY <1>1, <2>1
<1>13. DOMAIN local_updates' = DOMAIN local_updates
  BY <1>1
<1> HIDE DEF added, place
<1> QED BY <1>1, <1>2, <1>4, <1>5, <1>6, <1>7, <1>8, <1>10, <1>11, <1>12, <1>13 DEF Enters


(* A batch gets into the log in one piece and is the queue of its combiner. *)
LEMMA AppendStep ==
  ASSUME Ind, NEW n \in NodeId, NEW rids \in Batches, append_entries(n, rids)
  PROVE  Ind'
<1> DEFINE k == Len(rids)
           op(rid) == local_updates[rid].op
           c == Placed(rids)
           v == local_versions[n]
<1>1. Enters(n, rids)
  BY Appending
<1>2. UnboundedLogTypeOK /\ QueuesApart /\ UpdatesOK
  BY DEF Ind
<1>3. /\ tail \in Nat /\ version_upper_bound \in Nat /\ version_upper_bound <= tail
      /\ v \in Nat /\ v <= version_upper_bound
      /\ replicas[n] = Prefix(log, v)
      /\ NoneOf(log, v, tail, n)
  <2>1. combiner[n].state = "Ready" /\ Current(combiner[n], v) = v
    BY <1>1 DEF Enters, Ready, Current
  <2> QED BY <2>1, Working, LogIdxIsNat, Before DEF CombinerOK
<1>4. c \in CombinerState /\ c.state = "Placed" /\ c.queued_ops = rids /\ Current(c, v) = v
  BY <1>1 DEF Enters, CombinerState, Placed, Current
<1>5. /\ combiner'[n] = c
      /\ \A m \in NodeId \ {n} : combiner'[m] = combiner[m]
  BY <1>1, <1>2 DEF Enters, UnboundedLogTypeOK
<1>6. k \in Nat \ {0} /\ tail' = tail + k /\ tail' \in LogIdx /\ tail' \in Nat
  BY <1>1, <1>3 DEF Enters
<1>7. ASSUME NEW i \in 1 .. k
      PROVE  /\ rids[i] \in DOMAIN local_updates /\ rids[i] \in DOMAIN local_updates'
             /\ local_updates[rids[i]].state = "Init"
             /\ local_updates'[rids[i]] = UpdatePlaced(op(rids[i]), tail + i - 1)
             /\ local_updates'[rids[i]].state = "Placed"
             /\ local_updates'[rids[i]].idx = tail + i - 1
             /\ tail + i - 1 \in LogIdx
             /\ op(rids[i]) \in Ops
  <2>1. tail + i - 1 \in LogIdx
    BY <1>3, <1>6, UnboundedLogAssumption DEF LogIdx
  <2> QED BY <1>1, <2>1 DEF Enters, UpdatePlaced
<1>8. ASSUME NEW rid \in DOMAIN local_updates
      PROVE  local_updates'[rid] = local_updates[rid] \/ \E i \in 1 .. k : rid = rids[i]
  BY <1>1 DEF Enters
<1>a. ASSUME NEW x \in tail .. tail' - 1
      PROVE  log'[x] \in [op : Ops, node_id : NodeId] /\ log'[x].node_id = n
  <2>1. x - tail + 1 \in 1 .. k /\ log'[x] = [op |-> op(rids[x - tail + 1]), node_id |-> n]
    BY <1>1 DEF Enters
  <2> DEFINE o == op(rids[x - tail + 1])
  <2>2. o \in Ops
    BY <1>7, <2>1
  <2>3. log'[x] = [op |-> o, node_id |-> n]
    BY <2>1
  <2> HIDE DEF o
  <2> QED BY <2>2, <2>3
<1>9. /\ DOMAIN local_updates' = DOMAIN local_updates
      /\ local_reads' = local_reads /\ replicas' = replicas /\ local_versions' = local_versions
      /\ version_upper_bound' = version_upper_bound
      /\ \A x \in 0 .. tail - 1 : log'[x] = log[x]
      /\ \A x \in tail .. tail' - 1 : log'[x].node_id = n
  BY <1>1, <1>a DEF Enters
<1>10. log' \in [0 .. tail' - 1 -> [op : Ops, node_id : NodeId]]
  <2>1. \A x \in 0 .. tail' - 1 : x \in 0 .. tail - 1 \/ x \in tail .. tail' - 1
    BY <1>3, <1>6
  <2>2. \A x \in 0 .. tail - 1 : log[x] \in [op : Ops, node_id : NodeId]
    BY <1>2 DEF UnboundedLogTypeOK
  <2>3. \A x \in tail .. tail' - 1 : log'[x] \in [op : Ops, node_id : NodeId]
    BY <1>a
  <2>4. log' = [x \in 0 .. tail' - 1 |-> log'[x]]
    BY <1>1 DEF Enters
  <2> QED BY <1>9, <2>1, <2>2, <2>3, <2>4
<1>11. UnboundedLogTypeOK'
  <2>1. \A rid \in DOMAIN local_updates' : local_updates'[rid] \in UpdateState
    <3> SUFFICES ASSUME NEW rid \in DOMAIN local_updates PROVE local_updates'[rid] \in UpdateState
      BY <1>9
    <3>1. CASE local_updates'[rid] = local_updates[rid]
      BY <1>2, <3>1 DEF UnboundedLogTypeOK
    <3>2. ASSUME NEW i \in 1 .. k, rid = rids[i] PROVE local_updates'[rid] \in UpdateState
      <4> DEFINE o == op(rids[i])
                 at == tail + i - 1
      <4>1. local_updates'[rid] = UpdatePlaced(o, at) /\ o \in Ops /\ at \in LogIdx
        BY <1>7, <3>2
      <4> HIDE DEF o, at
      <4> QED BY <4>1 DEF UpdateState, UpdatePlaced
    <3> QED BY <1>8, <3>1, <3>2
  <2>2. combiner' \in [NodeId -> CombinerState]
    BY <1>1, <1>2, <1>4 DEF UnboundedLogTypeOK, Enters
  <2> QED BY <1>2, <1>6, <1>9, <1>10, <2>1, <2>2 DEF UnboundedLogTypeOK
<1>12. ASSUME NEW m \in NodeId, NEW x \in 1 .. Len(combiner[m].queued_ops), NEW i \in 1 .. k
       PROVE  combiner[m].queued_ops[x] # rids[i]
  BY <1>7, InitNotQueued
<1> HIDE DEF k, c, v, op
<1>13. Matches(log', local_updates', rids, 0, v, tail', n)
  <2>0. \A i \in 0 + 1 .. Len(rids) : i \in 1 .. k
    BY DEF k
  <2>1. ASSUME NEW i \in 1 .. k
        PROVE  /\ local_updates'[rids[i]].idx \in v .. tail' - 1
               /\ local_updates'[rids[i]].idx \in tail .. tail' - 1
    BY <1>3, <1>6, <1>7
  <2>2. \A i, j \in 1 .. k : i < j => local_updates'[rids[i]].idx < local_updates'[rids[j]].idx
    BY <1>3, <1>6, <1>7
  <2>3. ASSUME NEW x \in v .. tail' - 1, log'[x].node_id = n
        PROVE  \E i \in 0 + 1 .. Len(rids) : local_updates'[rids[i]].idx = x
    <3>1. ~(x < tail)
      <4>1. x < tail => x \in v .. tail - 1 /\ x \in 0 .. tail - 1
        BY <1>3
      <4> QED BY <1>3, <1>9, <2>3, <4>1 DEF NoneOf
    <3>2. x - tail + 1 \in 1 .. k /\ tail + (x - tail + 1) - 1 = x
      BY <1>3, <1>6, <3>1
    <3>3. local_updates'[rids[x - tail + 1]].idx = x
      BY <1>7, <3>2
    <3>4. x - tail + 1 \in 0 + 1 .. Len(rids)
      BY <1>6, <3>2 DEF k
    <3> QED BY <3>3, <3>4
  <2> QED BY <1>7, <1>9, <2>0, <2>1, <2>2, <2>3 DEF Matches
<1>14. seq_unique(rids)
  BY <1>1 DEF Enters, seq_unique
<1>15. CombinerOK(c, v, tail', version_upper_bound, log', local_updates', n)
  BY <1>4, <1>13, <1>14 DEF CombinerOK
<1>16. NodeOK(combiner'[n], local_versions'[n], replicas'[n], tail', version_upper_bound',
              log', local_updates', n)
  <2>1. Prefix(log', v) = Prefix(log, v)
    BY <1>3, <1>9, PrefixSame
  <2>2. v <= tail'
    BY <1>3, <1>6
  <2> QED BY <1>3, <1>4, <1>5, <1>9, <1>15, <2>1, <2>2 DEF NodeOK, v
<1>17. ASSUME NEW m \in NodeId \ {n}
       PROVE  /\ combiner'[m] = combiner[m] /\ local_versions'[m] = local_versions[m]
              /\ replicas'[m] = replicas[m]
              /\ Untouched(local_updates, local_updates', combiner[m].queued_ops)
              /\ Requests(combiner'[n]) \cap Requests(combiner[m]) = {}
  <2>1. combiner[m].queued_ops \in Seq(ReqId)
    BY Working
  <2>2. Requests(combiner'[n]) \cap Requests(combiner[m]) = {}
    <3>1. DOMAIN rids = 1 .. k /\ DOMAIN combiner[m].queued_ops = 1 .. Len(combiner[m].queued_ops)
      BY <1>1, <2>1 DEF Enters, k
    <3>2. combiner'[n].queued_ops = rids
      BY <1>4, <1>5
    <3> QED BY <1>12, <3>1, <3>2 DEF Requests
  <2>3. Untouched(local_updates, local_updates', combiner[m].queued_ops)
    <3> SUFFICES ASSUME NEW x \in 1 .. Len(combiner[m].queued_ops),
                        combiner[m].queued_ops[x] \in DOMAIN local_updates
                 PROVE  local_updates'[combiner[m].queued_ops[x]] = local_updates[combiner[m].queued_ops[x]]
      BY <1>9 DEF Untouched
    <3> QED BY <1>8, <1>12
  <2> QED BY <1>5, <1>9, <2>2, <2>3
<1>18. Current(combiner[n], local_versions[n]) <= Current(combiner'[n], local_versions'[n])
  <2>1. Current(combiner[n], v) = v
    BY <1>1 DEF Enters, Ready, Current
  <2> QED BY <1>3, <1>4, <1>5, <1>9, <2>1 DEF v
<1>19. tail <= tail' /\ version_upper_bound <= version_upper_bound' /\ version_upper_bound' <= tail'
  BY <1>3, <1>6, <1>9
<1>20. ASSUME NEW rid \in DOMAIN local_updates'
       PROVE  UpdateOK(local_updates'[rid], tail', version_upper_bound', log')
  <2>1. CASE local_updates'[rid] = local_updates[rid]
    <3> DEFINE update == local_updates[rid]
    <3>1. update \in UpdateState /\ UpdateOK(update, tail, version_upper_bound, log)
      BY <1>2, <1>9 DEF UnboundedLogTypeOK, UpdatesOK
    <3> HIDE DEF update
    <3>2. UpdateOK(update, tail', version_upper_bound', log')
      BY <1>3, <1>6, <1>9, <1>19, <3>1, UpdateStays
    <3> QED BY <2>1, <3>2 DEF update
  <2>2. CASE \E i \in 1 .. k : rid = rids[i]
    BY <1>7, <2>2 DEF UpdateOK
  <2> QED BY <1>8, <1>9, <2>1, <2>2
<1> QED BY <1>9, <1>11, <1>16, <1>17, <1>18, <1>19, <1>20, CombinerFrame

LEMMA ReadAndReturnStep ==
  ASSUME Ind, NEW rid \in ReqId, read_and_return(rid)
  PROVE  Ind'
<1>1. /\ UNCHANGED <<log, tail, replicas, local_versions, version_upper_bound, local_updates, combiner>>
      /\ DOMAIN local_reads' = DOMAIN local_reads \ {rid}
      /\ \A r \in DOMAIN local_reads' : local_reads'[r] = local_reads[r]
  BY DEF read_and_return, remove
<1>2. DOMAIN local_reads' \subseteq ReqId
  BY <1>1 DEF Ind, UnboundedLogTypeOK
<1>3. \A r \in DOMAIN local_reads' :
          LET m == local_reads'[r].node_id
          IN  /\ local_reads'[r] \in ReadonlyState
              /\ ReadOK(local_reads'[r], Current(combiner[m], local_versions[m]), version_upper_bound, log)
  BY <1>1 DEF Ind, UnboundedLogTypeOK, ReadsOK
<1> QED BY <1>1, <1>2, <1>3, ReadStep

LEMMA IndBatchStep == Ind /\ [BatchNext]_vars => Ind'
BY IndStep, AppendStep, ReadAndReturnStep DEF BatchNext

LEMMA IndBatchCorrect == BatchSpec => []Ind
BY InitInd, IndBatchStep, PTL DEF BatchSpec

LEMMA SeqIsFunction ==
  ASSUME NEW S, NEW s \in Seq(S), NEW n \in Nat, Len(s) = n
  PROVE  s = [i \in 1 .. n |-> s[i]]
OBVIOUS

LEMMA SimpleEntriesSeq ==
  ASSUME tail \in Nat
  PROVE  interp_log \in Seq({interp_log[i] : i \in 1 .. tail})
<1>1. interp_log \in [1 .. tail -> {interp_log[i] : i \in 1 .. tail}]
  BY DEF interp_log
<1> HIDE DEF interp_log
<1> QED BY <1>1

(* The simple log after the batch rids: longer by its entries, and its     *)
(* requests have become responses.                                         *)
SimpleEnters(rids) ==
  LET k == Len(rids)
      added == {rids[i] : i \in 1 .. k}
  IN  /\ added \subseteq DOMAIN interp_update_reqs
      /\ Len(interp_log) = tail
      /\ interp_log' = interp_log \o [i \in 1 .. k |-> [op |-> interp_update_reqs[rids[i]]]]
      /\ interp_update_reqs' = [rid \in DOMAIN interp_update_reqs \ added |-> interp_update_reqs[rid]]
      /\ DOMAIN interp_update_resps' = DOMAIN interp_update_resps \cup added
      /\ interp_update_resps' = [rid \in DOMAIN interp_update_resps' |-> interp_update_resps'[rid]]
      /\ \A i \in 1 .. k : interp_update_resps'[rids[i]] = tail + i - 1
      /\ \A rid \in DOMAIN interp_update_resps : rid \notin added /\ interp_update_resps'[rid] = interp_update_resps[rid]
      /\ label' = Internal
      /\ UNCHANGED interp_replica_versions /\ UNCHANGED version_upper_bound
      /\ interp_readonly_reqs' = interp_readonly_reqs

LEMMA EntersTheSimpleLog ==
  ASSUME Ind, NEW n \in NodeId, NEW rids, Enters(n, rids)
  PROVE  SimpleEnters(rids)
<1> DEFINE k == Len(rids)
           op(rid) == local_updates[rid].op
           added == {rids[i] : i \in 1 .. k}
<1>1. /\ tail \in Nat /\ DOMAIN log = 0 .. tail - 1
      /\ k \in Nat \ {0} /\ tail' = tail + k
  BY Before DEF Enters
<1>2. /\ \A x \in 0 .. tail - 1 : log'[x] = log[x]
      /\ \A x \in tail .. tail' - 1 : log'[x] = [op |-> op(rids[x - tail + 1]), node_id |-> n]
  BY DEF Enters
<1>3. \A i \in 1 .. k : rids[i] \in DOMAIN local_updates /\ local_updates[rids[i]].state = "Init"
  BY DEF Enters
<1>4. Len(interp_log) = tail
  BY <1>1, SimpleLength
<1>5. added \subseteq Waiting(local_updates)
  BY <1>3 DEF Waiting
<1>6. \A i \in 1 .. k : rids[i] \in DOMAIN interp_update_reqs /\ interp_update_reqs[rids[i]] = op(rids[i])
  BY <1>5, Interpretation DEF SimpleRequests
<1>7. interp_log' = interp_log \o [i \in 1 .. k |-> [op |-> interp_update_reqs[rids[i]]]]
  <2> DEFINE m == [i \in 1 .. k |-> [op |-> interp_update_reqs[rids[i]]]]
             S == {[op |-> log[i - 1].op] : i \in 1 .. tail} \cup {[op |-> op(rids[i])] : i \in 1 .. k}
  <2>1. m \in [1 .. k -> S]
    BY <1>6
  <2>2. interp_log \in [1 .. tail -> S]
    BY DEF interp_log
  <2>3. interp_log' = [i \in 1 .. tail + k |-> [op |-> log'[i - 1].op]]
    BY <1>1 DEF interp_log
  <2>4. \A i \in 1 .. tail : i - 1 \in 0 .. tail - 1 /\ interp_log[i] = [op |-> log'[i - 1].op]
    <3>1. \A i \in 1 .. tail : i - 1 \in 0 .. tail - 1
      BY <1>1
    <3> QED BY <1>2, <3>1 DEF interp_log
  <2>5. ASSUME NEW i \in 1 .. k
        PROVE  m[i] = [op |-> log'[tail + i - 1].op]
    <3>1. tail + i - 1 \in tail .. tail' - 1 /\ (tail + i - 1) - tail + 1 = i
      BY <1>1
    <3>2. log'[tail + i - 1] = [op |-> op(rids[i]), node_id |-> n]
      BY <1>2, <3>1
    <3> HIDE DEF op
    <3> QED BY <1>6, <3>2
  <2> HIDE DEF m, S
  <2>6. m \in Seq(S) /\ Len(m) = k /\ interp_log \in Seq(S)
    BY <1>1, <2>1, <2>2
  <2>7. /\ interp_log \o m \in Seq(S) /\ Len(interp_log \o m) = tail + k
        /\ \A i \in 1 .. tail + k :
             (interp_log \o m)[i] = IF i <= tail THEN interp_log[i] ELSE m[i - tail]
    BY <1>1, <1>4, <2>6
  <2>8. ASSUME NEW i \in 1 .. tail + k
        PROVE  (interp_log \o m)[i] = interp_log'[i]
    <3>1. CASE i <= tail
      <4>1. i \in 1 .. tail
        BY <1>1, <3>1
      <4> QED BY <2>3, <2>4, <2>7, <3>1, <4>1
    <3>2. CASE ~(i <= tail)
      <4>1. i - tail \in 1 .. k /\ tail + (i - tail) - 1 = i - 1
        BY <1>1, <3>2
      <4>2. m[i - tail] = [op |-> log'[i - 1].op]
        BY <2>5, <4>1
      <4> QED BY <2>3, <2>7, <3>2, <4>2
    <3> QED BY <3>1, <3>2
  <2>9. interp_log \o m = [i \in 1 .. tail + k |-> (interp_log \o m)[i]]
    <3>1. tail + k \in Nat
      BY <1>1
    <3> QED BY <2>7, <3>1, SeqIsFunction
  <2> QED BY <2>3, <2>8, <2>9 DEF m
<1>8. /\ DOMAIN local_updates' = DOMAIN local_updates
      /\ \A i \in 1 .. k : local_updates'[rids[i]] = UpdatePlaced(op(rids[i]), tail + i - 1)
      /\ \A rid \in DOMAIN local_updates : rid \notin added => local_updates'[rid] = local_updates[rid]
  BY DEF Enters
<1>9. \A i \in 1 .. k : local_updates'[rids[i]].state = "Placed" /\ local_updates'[rids[i]].idx = tail + i - 1
  <2> SUFFICES ASSUME NEW i \in 1 .. k
               PROVE  local_updates'[rids[i]].state = "Placed" /\ local_updates'[rids[i]].idx = tail + i - 1
    OBVIOUS
  <2> DEFINE o == op(rids[i])
             at == tail + i - 1
  <2>1. local_updates'[rids[i]] = UpdatePlaced(o, at)
    BY <1>8
  <2> HIDE DEF o, at
  <2>2. local_updates'[rids[i]].state = "Placed" /\ local_updates'[rids[i]].idx = at
    BY <2>1 DEF UpdatePlaced
  <2> QED BY <2>2 DEF at
<1>10. Waiting(local_updates') = Waiting(local_updates) \ added
  <2>1. \A rid \in added : local_updates'[rid].state # "Init"
    BY <1>9
  <2> HIDE DEF added
  <2> QED BY <1>5, <1>8, <2>1 DEF Waiting
<1>11. \A rid \in Waiting(local_updates') : local_updates'[rid] = local_updates[rid]
  BY <1>8, <1>10 DEF Waiting
<1> HIDE DEF added, op, k
<1>12. interp_update_reqs' = [rid \in DOMAIN interp_update_reqs \ added |-> interp_update_reqs[rid]]
  BY <1>10, <1>11, Interpretation, InterpretationNext DEF SimpleRequests
<1>13. DOMAIN interp_update_resps' = DOMAIN interp_update_resps \cup added
  <2>1. DOMAIN local_updates' \ Waiting(local_updates') = (DOMAIN local_updates \ Waiting(local_updates)) \cup added
    BY <1>5, <1>8, <1>10 DEF Waiting
  <2> QED BY <2>1, Interpretation, InterpretationNext DEF SimpleResponses
<1>14. /\ interp_update_resps' = [rid \in DOMAIN interp_update_resps' |-> interp_update_resps'[rid]]
       /\ \A rid \in DOMAIN interp_update_resps' : interp_update_resps'[rid] = local_updates'[rid].idx
       /\ \A rid \in DOMAIN interp_update_resps : interp_update_resps[rid] = local_updates[rid].idx
       /\ DOMAIN interp_update_resps = DOMAIN local_updates \ Waiting(local_updates)
  BY Interpretation, InterpretationNext DEF SimpleResponses
<1>15. \A i \in 1 .. k : interp_update_resps'[rids[i]] = tail + i - 1
  BY <1>9, <1>13, <1>14 DEF added
<1>16. \A rid \in DOMAIN interp_update_resps : rid \notin added /\ interp_update_resps'[rid] = interp_update_resps[rid]
  BY <1>5, <1>8, <1>13, <1>14
<1>17. UNCHANGED interp_replica_versions
  <2>1. combiner' = [combiner EXCEPT ![n] = Placed(rids)] /\ local_versions' = local_versions /\ combiner[n] = Ready
    BY DEF Enters
  <2>2. Current(Placed(rids), local_versions[n]) = Current(combiner[n], local_versions[n])
    BY <2>1 DEF Current, Placed, Ready
  <2> QED BY <2>1, <2>2, VersionStays DEF Become
<1>18. interp_readonly_reqs' = interp_readonly_reqs
  BY Interpretation, InterpretationNext DEF Enters
<1>19. label' = Internal /\ UNCHANGED version_upper_bound
  BY DEF Enters
<1>20. added \subseteq DOMAIN interp_update_reqs
  BY <1>5, Interpretation DEF SimpleRequests
<1> QED BY <1>4, <1>7, <1>12, <1>13, <1>14, <1>15, <1>16, <1>17, <1>18, <1>19, <1>20 DEF SimpleEnters, added, k

LEMMA AppendMaps ==
  ASSUME Ind, NEW n \in NodeId, NEW rids \in Batches, append_entries(n, rids)
  PROVE  Simple!Next \/ \E r \in Simple!Batches : Simple!update_add_ops_to_log(r)
<1> DEFINE added == {rids[i] : i \in 1 .. Len(rids)}
           entries == [i \in 1 .. Len(rids) |-> [op |-> interp_update_reqs[rids[i]]]]
<1>1. Enters(n, rids)
  BY Appending
<1>2. SimpleEnters(rids)
  BY <1>1, EntersTheSimpleLog
<1>3. /\ Len(rids) \in Nat \ {0} /\ DOMAIN rids = 1 .. Len(rids) /\ rids \in Seq(ReqId) /\ tail \in Nat
      /\ \A i, j \in 1 .. Len(rids) : rids[i] = rids[j] => i = j
  BY <1>1, Before DEF Enters
<1>4. Len(rids) \in 1 .. Cardinality(Waiting(local_updates)) /\ rids \in [1 .. Len(rids) -> Waiting(local_updates)]
  BY Batch
<1>5. DOMAIN interp_update_reqs = Waiting(local_updates)
  BY Interpretation DEF SimpleRequests
<1>6. CASE Len(rids) = 1
  <2> DEFINE rid == rids[1]
             e == [op |-> interp_update_reqs[rid]]
  <2>1. rid \in ReqId /\ added = {rid} /\ entries = << e >>
    <3>1. 1 .. Len(rids) = {1}
      BY <1>6
    <3>2. rid \in ReqId /\ added = {rid}
      BY <1>3, <3>1
    <3>3. entries = [i \in {1} |-> e]
      BY <3>1
    <3> HIDE DEF entries, e
    <3>4. [i \in {1} |-> e] = << e >>
      OBVIOUS
    <3> QED BY <3>2, <3>3, <3>4
  <2>2. interp_log' = Append(interp_log, e) /\ Len(interp_log) = tail
    <3>1. interp_log' = interp_log \o << e >> /\ Len(interp_log) = tail
      BY <1>2, <2>1 DEF SimpleEnters
    <3>2. interp_log \in Seq({interp_log[i] : i \in 1 .. tail})
      BY <1>3, SimpleEntriesSeq
    <3> HIDE DEF e
    <3> QED BY <3>1, <3>2
  <2>3. rid \in DOMAIN interp_update_reqs /\ interp_update_reqs' = Simple!remove(interp_update_reqs, rid)
    BY <1>2, <2>1 DEF SimpleEnters, Simple!remove
  <2>4. interp_update_resps' = Simple!insert(interp_update_resps, rid, tail)
    <3>1. interp_update_resps'[rid] = tail
      <4>1. 1 \in 1 .. Len(rids) /\ tail + 1 - 1 = tail
        BY <1>3, <1>6
      <4> QED BY <1>2, <4>1 DEF SimpleEnters
    <3> QED BY <1>2, <2>1, <3>1 DEF SimpleEnters, Simple!insert
  <2>5. Simple!update_add_op_to_log(rid)
    BY <1>2, <2>2, <2>3, <2>4
       DEF SimpleEnters, Simple!update_add_op_to_log, Internal, Simple!Internal
  <2> QED BY <2>1, <2>5 DEF Simple!Next
<1>7. CASE Len(rids) # 1
  <2>1. rids \in Simple!Batches
    <3>1. Simple!Cardinality(DOMAIN interp_update_reqs) = Cardinality(Waiting(local_updates))
      BY <1>5 DEF Cardinality, Simple!Cardinality
    <3>2. Len(rids) \in 2 .. Cardinality(Waiting(local_updates))
      BY <1>3, <1>4, <1>7
    <3> QED BY <1>4, <1>5, <3>1, <3>2 DEF Simple!Batches
  <2>2. Simple!Cardinality(added) = Len(rids)
    <3>1. Cardinality(added) = Len(rids)
      BY <1>3 DEF append_entries
    <3> QED BY <3>1 DEF Cardinality, Simple!Cardinality
  <2> DEFINE place(rid) == CHOOSE i \in DOMAIN rids : rids[i] = rid
  <2>3. \A i \in 1 .. Len(rids) : place(rids[i]) = i
    <3> SUFFICES ASSUME NEW i \in 1 .. Len(rids) PROVE place(rids[i]) = i
      OBVIOUS
    <3>1. \A x \in DOMAIN rids : rids[x] = rids[i] <=> x = i
      BY <1>3
    <3>2. i \in DOMAIN rids
      BY <1>3
    <3> QED BY <3>1, <3>2
  <2> HIDE DEF place
  <2>4. interp_update_resps' = [rid \in DOMAIN interp_update_resps \cup added |->
           IF rid \in added THEN Len(interp_log) + place(rid) - 1 ELSE interp_update_resps[rid]]
    <3>1. \A rid \in added : interp_update_resps'[rid] = Len(interp_log) + place(rid) - 1
      BY <1>2, <2>3 DEF SimpleEnters
    <3> QED BY <1>2, <3>1 DEF SimpleEnters
  <2>5. /\ added \subseteq DOMAIN interp_update_reqs
        /\ interp_log' = interp_log \o [i \in DOMAIN rids |-> [op |-> interp_update_reqs[rids[i]]]]
        /\ interp_update_reqs' = [rid \in DOMAIN interp_update_reqs \ added |-> interp_update_reqs[rid]]
        /\ label' = Simple!Internal
        /\ UNCHANGED interp_replica_versions /\ UNCHANGED version_upper_bound
        /\ interp_readonly_reqs' = interp_readonly_reqs
    BY <1>2, <1>3 DEF SimpleEnters, Internal, Simple!Internal
  <2>6. added = {rids[i] : i \in DOMAIN rids}
    BY <1>3
  <2> DEFINE all == {rids[i] : i \in DOMAIN rids}
  <2>7. all = added
    BY <2>6
  <2> HIDE DEF added
  <2>8. /\ all \subseteq DOMAIN interp_update_reqs
        /\ Simple!Cardinality(all) = Len(rids)
        /\ interp_log' = interp_log \o [i \in DOMAIN rids |-> [op |-> interp_update_reqs[rids[i]]]]
        /\ interp_update_reqs' = [rid \in DOMAIN interp_update_reqs \ all |-> interp_update_reqs[rid]]
        /\ interp_update_resps' = [rid \in DOMAIN interp_update_resps \cup all |->
             IF rid \in all THEN Len(interp_log) + place(rid) - 1 ELSE interp_update_resps[rid]]
        /\ label' = Simple!Internal
        /\ UNCHANGED <<interp_replica_versions, version_upper_bound, interp_readonly_reqs>>
    <3> HIDE DEF all
    <3> QED BY <2>2, <2>4, <2>5, <2>7
  <2>9. Simple!update_add_ops_to_log(rids)
    BY <2>8, Zenon DEF Simple!update_add_ops_to_log, place
  <2> QED BY <2>1, <2>9
<1> QED BY <1>6, <1>7

(* The read takes effect at the version its replica has come to. *)
LEMMA ReadAndReturnMaps ==
  ASSUME Ind, NEW rid \in ReqId, read_and_return(rid)
  PROVE  Simple!Next
<1> DEFINE read == local_reads[rid]
           node == read.node_id
           v == local_versions[node]
<1>1. /\ rid \in DOMAIN local_reads /\ read.state = "ReadyToRead" /\ combiner[node].state = "Ready"
      /\ local_reads' = remove(local_reads, rid)
      /\ label' = End(rid, dispatch_spec(replicas[node]))
      /\ UNCHANGED <<log, tail, local_versions, version_upper_bound, local_updates, combiner>>
  BY DEF read_and_return, Combining
<1>2. UNCHANGED interp_replica_versions /\ interp_update_reqs' = interp_update_reqs /\ interp_update_resps' = interp_update_resps
  BY <1>1, VersionsKept, Interpretation, InterpretationNext
<1>3. /\ read \in ReadonlyState
      /\ ReadOK(read, Current(combiner[node], v), version_upper_bound, log)
  BY <1>1 DEF Ind, UnboundedLogTypeOK, ReadsOK
<1>4. node \in NodeId /\ read.version_upper_bound \in Nat
  BY <1>1, <1>3, ReadFields, LogIdxIsNat
<1>5. Current(combiner[node], v) = v
  BY <1>1 DEF Current
<1>6. /\ tail \in Nat /\ version_upper_bound \in Nat /\ version_upper_bound <= tail
      /\ v \in Nat /\ v <= version_upper_bound /\ replicas[node] = Prefix(log, v)
  BY <1>4, <1>5, Before DEF NodeOK
<1>7. read.version_upper_bound <= v
  BY <1>1, <1>3, <1>5 DEF ReadOK
<1>8. v <= tail
  BY <1>6
<1>9. Len(interp_log) = tail
  BY <1>6, SimpleLength
<1>10. interp_replica_versions[node] = v
  BY <1>4, <1>5, CurrentIs DEF interp_replica_versions
<1>11. /\ SimpleRead(read).state = "Req" /\ SimpleRead(read).node_id = node
       /\ SimpleRead(read).version = read.version_upper_bound
  BY <1>1 DEF SimpleRead
<1>12. /\ rid \in DOMAIN interp_readonly_reqs /\ interp_readonly_reqs[rid] = SimpleRead(read)
       /\ interp_readonly_reqs' = Simple!remove(interp_readonly_reqs, rid)
  BY <1>1, Interpretation, InterpretationNext, ReadGoes DEF SimpleReads
<1>13. label' = Simple!End(rid, Simple!dispatch_spec(Simple!nrstate_at_version(v)))
  BY <1>1, <1>6, <1>8, SimpleState DEF End, Simple!End, dispatch_spec, Simple!dispatch_spec
<1>14. v \in Simple!Version
  <2>1. Simple!Version = 0 .. Len(interp_log)
    BY DEF Simple!Version
  <2> QED BY <1>6, <1>8, <1>9, <2>1
<1> HIDE DEF v
<1>15. v <= v
  BY <1>6
<1>16. Simple!readonly_finish(rid, v)
  BY <1>1, <1>2, <1>6, <1>7, <1>8, <1>9, <1>10, <1>11, <1>12, <1>13, <1>15, LogKept
     DEF Simple!readonly_finish
<1> QED BY <1>14, <1>16 DEF Simple!Next

LEMMA BatchStepMaps ==
  Ind /\ [BatchNext]_vars =>
    [Simple!Next \/ \E rids \in Simple!Batches : Simple!update_add_ops_to_log(rids)]_(Simple!vars)
BY StepMaps, AppendMaps, ReadAndReturnMaps DEF BatchNext

(* The same when whole batches enter the log in one step, as they do in    *)
(* the implementation, and reads answer and return in one step: the        *)
(* invariants hold as before, and the simple log takes the batch in one    *)
(* step as well (unbounded_log_append_entries of exec/log.rs).             *)
THEOREM BatchesRefineSimpleLog == BatchSpec => Simple!BatchSpec
<1> QED BY BatchStepMaps, IndBatchCorrect, SimpleInit, PTL DEF BatchSpec, Simple!BatchSpec
=============================================================================
