------------------------- MODULE CyclicBufferProofs -------------------------
(***************************************************************************)
(* The circular buffer, for every size of the buffer and any number of     *)
(* replicas: first the order of its pointers, then who holds the cells and *)
(* what the alive bits mean. The bound on the tail is the only thing the   *)
(* code does not have in this form: it is MAX_IDX of log.rs.               *)
(***************************************************************************)
EXTENDS CyclicBuffer, TLAPS

(* pointer_ordering is not inductive: it depends on what the combiners     *)
(* have loaded being a lower bound of the versions of now.                 *)
LoadedValid == \A r \in Replica : reader_state_valid(r) /\ combiner_valid(r)

IndInv == TypeOK /\ pointer_ordering /\ LoadedValid

(* The initial state. *)
LEMMA InitHolds == Init => IndInv
<1> SUFFICES ASSUME Init PROVE IndInv
  OBVIOUS
<1> USE CyclicBufferAssumption DEF Init, Index, Replica
<1>1. TypeOK
  <2>1. contents \subseteq -LOG_SIZE .. MAX_IDX - 1
    OBVIOUS
  <2>2. alive_bits \in [0 .. LOG_SIZE - 1 -> BOOLEAN]
    BY Zenon DEF log_entry_alive_value
  <2>3. combiner \in [Replica -> CombinerState]
    BY DEF CombinerState, Idle
  <2> QED BY <2>1, <2>2, <2>3 DEF TypeOK
<1>2. pointer_ordering
  BY DEF pointer_ordering
<1>3. LoadedValid
  BY DEF LoadedValid, reader_state_valid, combiner_valid, Idle
<1> QED BY <1>1, <1>2, <1>3 DEF IndInv

(* What the fields of a combiner's state are, given which state it is. *)
LEMMA CombinerFields ==
  ASSUME NEW c \in CombinerState
  PROVE  /\ c.state = "Starting" => c.start \in Nat
         /\ c.state \in {"Range", "Guard"} => c.start \in Nat /\ c.end \in Nat /\ c.cur \in Nat
         /\ c.state = "AdvancingHead" => c.idx \in 0 .. num_replicas /\ c.min_local_version \in Nat
         /\ c.state = "AdvancingTail" => c.observed_head \in Nat
         /\ c.state = "Appending" => c.cur_idx \in Nat /\ c.tail \in Nat
<1> USE DEF Index
<1> QED BY CyclicBufferAssumption DEF CombinerState, Idle

(* What a combiner has loaded stays valid while it does nothing, if        *)
(* neither the tail nor any version decreases.                             *)
LEMMA OthersValid ==
  ASSUME NEW s \in Replica, TypeOK, TypeOK', reader_state_valid(s), combiner_valid(s),
         combiner'[s] = combiner[s], local_versions'[s] = local_versions[s],
         tail <= tail', \A n \in Replica : local_versions[n] <= local_versions'[n]
  PROVE  reader_state_valid(s)' /\ combiner_valid(s)'
<1>1. combiner[s] \in CombinerState
  BY DEF TypeOK
<1>2. tail \in Nat /\ tail' \in Nat /\ \A n \in Replica : local_versions[n] \in Nat /\ local_versions'[n] \in Nat
  BY CyclicBufferAssumption DEF TypeOK, Index
<1>3. reader_state_valid(s)'
  BY <1>1, <1>2, CombinerFields DEF reader_state_valid
<1>4. combiner_valid(s)'
  <2>1. combiner[s].state = "AdvancingHead" =>
          \A n \in 0 .. combiner[s].idx - 1 : combiner[s].min_local_version <= local_versions'[n]
    <3> SUFFICES ASSUME combiner[s].state = "AdvancingHead", NEW n \in 0 .. combiner[s].idx - 1
                 PROVE  combiner[s].min_local_version <= local_versions'[n]
      OBVIOUS
    <3>1. n \in Replica
      BY <1>1, CombinerFields, CyclicBufferAssumption DEF Replica
    <3> QED BY <1>1, <1>2, <3>1, CombinerFields DEF combiner_valid
  <2>2. combiner[s].state = "AdvancingTail" =>
          \A n \in Replica : combiner[s].observed_head <= local_versions'[n]
    BY <1>1, <1>2, CombinerFields DEF combiner_valid
  <2>3. combiner[s].state = "Appending" =>
          /\ local_versions'[s] <= combiner[s].cur_idx
          /\ combiner[s].cur_idx <= combiner[s].tail
          /\ combiner[s].tail <= tail'
    BY <1>1, <1>2, CombinerFields DEF combiner_valid
  <2> QED BY <2>1, <2>2, <2>3 DEF combiner_valid
<1> QED BY <1>3, <1>4

(* A step of combiner r preserves the invariant if it leaves pointers and  *)
(* types in order and what r itself has loaded is valid.                   *)
LEMMA StepOf ==
  ASSUME NEW r \in Replica, NEW c \in CombinerState, IndInv, TypeOK', pointer_ordering',
         Become(r, c), tail <= tail',
         \A n \in Replica \ {r} : local_versions'[n] = local_versions[n],
         local_versions[r] <= local_versions'[r],
         reader_state_valid(r)', combiner_valid(r)'
  PROVE  IndInv'
<1>1. TypeOK /\ LoadedValid
  BY DEF IndInv
<1>2. \A n \in Replica : local_versions[n] \in Nat
  BY <1>1, CyclicBufferAssumption DEF TypeOK, Index
<1>3. \A n \in Replica : local_versions[n] <= local_versions'[n]
  BY <1>2
<1>4. ASSUME NEW s \in Replica, s # r
      PROVE  reader_state_valid(s)' /\ combiner_valid(s)'
  <2>1. combiner'[s] = combiner[s]
    BY <1>1, <1>4 DEF Become, TypeOK
  <2>2. reader_state_valid(s) /\ combiner_valid(s)
    BY <1>1 DEF LoadedValid
  <2>3. local_versions'[s] = local_versions[s]
    BY <1>4
  <2> QED BY <1>1, <1>3, <2>1, <2>2, <2>3, OthersValid
<1>5. LoadedValid'
  BY <1>4 DEF LoadedValid, Replica
<1> QED BY <1>5 DEF IndInv

(* The same when nothing but the state of combiner r changes.              *)
LEMMA LocalStep ==
  ASSUME NEW r \in Replica, NEW c \in CombinerState, IndInv, Become(r, c),
         UNCHANGED <<head, tail, local_versions, contents, alive_bits>>,
         reader_state_valid(r)', combiner_valid(r)'
  PROVE  IndInv'
<1>1. TypeOK /\ pointer_ordering
  BY DEF IndInv
<1>2. TypeOK'
  BY <1>1 DEF TypeOK, Become
<1>3. pointer_ordering'
  BY <1>1 DEF pointer_ordering
<1>4. tail \in Nat /\ local_versions[r] \in Nat
  BY <1>1, CyclicBufferAssumption DEF TypeOK, Index
<1>5. tail <= tail' /\ local_versions[r] <= local_versions'[r]
  BY <1>4
<1>6. \A n \in Replica \ {r} : local_versions'[n] = local_versions[n]
  OBVIOUS
<1> QED BY <1>2, <1>3, <1>5, <1>6, StepOf

-----------------------------------------------------------------------------
(* What the invariant says of combiner r before its step, and of its state *)
(* after it. *)
LEMMA Before ==
  ASSUME NEW r \in Replica, IndInv
  PROVE  /\ combiner[r] \in CombinerState
         /\ reader_state_valid(r)
         /\ combiner_valid(r)
         /\ head \in Index /\ tail \in Index /\ local_versions[r] \in Index
         /\ local_versions[r] <= tail
         /\ \A c : Become(r, c) => combiner'[r] = c
<1>1. TypeOK /\ pointer_ordering /\ LoadedValid
  BY DEF IndInv
<1>2. reader_state_valid(r) /\ combiner_valid(r)
  BY <1>1 DEF LoadedValid
<1>3. combiner[r] \in CombinerState /\ head \in Index /\ tail \in Index /\ local_versions[r] \in Index
  BY <1>1 DEF TypeOK
<1>4. local_versions[r] <= tail
  BY <1>1 DEF pointer_ordering
<1>5. \A c : Become(r, c) => combiner'[r] = c
  BY <1>1 DEF TypeOK, Become
<1> QED BY <1>2, <1>3, <1>4, <1>5

(* Back to the idle state, from any other. *)
LEMMA AbortStep ==
  ASSUME NEW r \in Replica, IndInv, Become(r, Idle),
         UNCHANGED <<head, tail, local_versions, contents, alive_bits>>
  PROVE  IndInv'
<1>1. Idle \in CombinerState
  BY DEF CombinerState
<1>2. combiner'[r] = Idle
  BY Before
<1>3. reader_state_valid(r)' /\ combiner_valid(r)'
  BY <1>2 DEF reader_state_valid, combiner_valid, Idle
<1> QED BY <1>1, <1>3, LocalStep

(* The steps of a reader. *)
LEMMA ReaderStep ==
  ASSUME NEW r \in Replica, IndInv,
         \/ reader_start(r) \/ reader_enter(r) \/ reader_guard(r) \/ reader_unguard(r)
         \/ reader_finish(r) \/ reader_abort(r)
  PROVE  IndInv'
<1> DEFINE old == combiner[r]
<1>0. /\ old \in CombinerState
      /\ reader_state_valid(r) /\ combiner_valid(r)
      /\ head \in Index /\ tail \in Index /\ local_versions[r] \in Index
      /\ local_versions[r] <= tail
  BY Before
<1>1. CASE reader_start(r)
  <2> DEFINE c == Starting(local_versions[r])
  <2>1. c \in CombinerState
    BY <1>0 DEF CombinerState, Starting
  <2>2. Become(r, c) /\ UNCHANGED <<head, tail, local_versions, contents, alive_bits>>
    BY <1>1 DEF reader_start
  <2>3. combiner'[r] = c
    BY <2>2, Before
  <2>4. reader_state_valid(r)' /\ combiner_valid(r)'
    BY <2>2, <2>3 DEF reader_state_valid, combiner_valid, Starting
  <2> QED BY <2>1, <2>2, <2>4, LocalStep
<1>2. CASE reader_enter(r)
  <2> DEFINE c == Range(old.start, tail, old.start)
  <2>1. old.state = "Starting" /\ old.start = local_versions[r]
    BY <1>0, <1>2 DEF reader_enter, In, reader_state_valid
  <2>2. c \in CombinerState
    BY <1>0, <2>1 DEF CombinerState, Range
  <2>3. Become(r, c) /\ UNCHANGED <<head, tail, local_versions, contents, alive_bits>>
    BY <1>2 DEF reader_enter
  <2>4. combiner'[r] = c
    BY <2>3, Before
  <2>5. reader_state_valid(r)' /\ combiner_valid(r)'
    BY <1>0, <2>1, <2>3, <2>4 DEF reader_state_valid, combiner_valid, Range, Index
  <2> QED BY <2>2, <2>3, <2>5, LocalStep
<1>3. CASE reader_guard(r)
  <2> DEFINE c == Guard(old.start, old.end, old.cur)
  <2>1. /\ old.state = "Range"
        /\ old.start = local_versions[r] /\ old.start <= old.cur
        /\ old.end <= tail /\ old.cur < old.end
    BY <1>0, <1>3 DEF reader_guard, In, reader_state_valid
  <2>2. c \in CombinerState
    BY <1>0, <2>1 DEF CombinerState, Guard, Idle
  <2>3. Become(r, c) /\ UNCHANGED <<head, tail, local_versions, contents, alive_bits>>
    BY <1>3 DEF reader_guard
  <2>4. combiner'[r] = c
    BY <2>3, Before
  <2>5. old.cur <= old.end
    BY <1>0, <2>1, CombinerFields
  <2>6. reader_state_valid(r)' /\ combiner_valid(r)'
    BY <2>1, <2>3, <2>4, <2>5 DEF reader_state_valid, combiner_valid, Guard
  <2> QED BY <2>2, <2>3, <2>6, LocalStep
<1>4. CASE reader_unguard(r)
  <2> DEFINE c == Range(old.start, old.end, old.cur + 1)
  <2>1. /\ old.state = "Guard"
        /\ old.start = local_versions[r] /\ old.start <= old.cur
        /\ old.end <= tail /\ old.cur < old.end
    BY <1>0, <1>4 DEF reader_unguard, In, reader_state_valid
  <2>2. old.start \in Nat /\ old.end \in Nat /\ old.cur \in Nat /\ tail \in Nat /\ tail <= MAX_IDX
    BY <1>0, <2>1, CombinerFields, CyclicBufferAssumption DEF Index
  <2>3. old.cur + 1 \in Index /\ old.start \in Index /\ old.end \in Index
    BY <2>1, <2>2, CyclicBufferAssumption DEF Index
  <2>4. c \in CombinerState
    BY <2>3 DEF CombinerState, Range
  <2>5. Become(r, c) /\ UNCHANGED <<head, tail, local_versions, contents, alive_bits>>
    BY <1>4 DEF reader_unguard
  <2>6. combiner'[r] = c
    BY <2>5, Before
  <2>7. reader_state_valid(r)' /\ combiner_valid(r)'
    BY <2>1, <2>2, <2>5, <2>6 DEF reader_state_valid, combiner_valid, Range
  <2> QED BY <2>4, <2>5, <2>7, LocalStep
<1>5. CASE reader_finish(r)
  <2>1. /\ old.state = "Range"
        /\ old.start = local_versions[r] /\ old.start <= old.cur /\ old.cur <= old.end
        /\ old.end <= tail
    BY <1>0, <1>5 DEF reader_finish, In, reader_state_valid
  <2>2. old.start \in Nat /\ old.end \in Nat /\ old.cur \in Nat /\ tail \in Nat /\ tail <= MAX_IDX
    BY <1>0, <2>1, CombinerFields, CyclicBufferAssumption DEF Index
  <2>3. old.end \in Index /\ local_versions[r] <= old.end
    BY <2>1, <2>2, CyclicBufferAssumption DEF Index
  <2>4. /\ local_versions' = [local_versions EXCEPT ![r] = old.end]
        /\ Become(r, Idle) /\ UNCHANGED <<head, tail, contents, alive_bits>>
    BY <1>5 DEF reader_finish
  <2>5. TypeOK /\ pointer_ordering
    BY DEF IndInv
  <2>6. local_versions'[r] = old.end /\ \A n \in Replica \ {r} : local_versions'[n] = local_versions[n]
    BY <2>4, <2>5 DEF TypeOK
  <2>7. Idle \in CombinerState
    BY DEF CombinerState
  <2>8. TypeOK'
    BY <2>3, <2>4, <2>5, <2>7 DEF TypeOK, Become
  <2>9. pointer_ordering'
    <3>1. \A n \in Replica : local_versions[n] \in Nat
      BY <2>5, CyclicBufferAssumption DEF TypeOK, Index
    <3>2. head \in Nat
      BY <1>0, CyclicBufferAssumption DEF Index
    <3> QED BY <2>1, <2>2, <2>3, <2>4, <2>5, <2>6, <3>1, <3>2, CyclicBufferAssumption
            DEF pointer_ordering
  <2>10. combiner'[r] = Idle
    BY <2>4, Before
  <2>11. reader_state_valid(r)' /\ combiner_valid(r)'
    BY <2>10 DEF reader_state_valid, combiner_valid, Idle
  <2>12. tail <= tail' /\ local_versions[r] <= local_versions'[r]
    BY <2>2, <2>3, <2>4, <2>6
  <2> QED BY <2>4, <2>6, <2>7, <2>8, <2>9, <2>11, <2>12, StepOf
<1>6. CASE reader_abort(r)
  BY <1>6, AbortStep DEF reader_abort
<1> QED BY <1>1, <1>2, <1>3, <1>4, <1>5, <1>6

(* The steps that advance the head. *)
LEMMA HeadStep ==
  ASSUME NEW r \in Replica, IndInv,
         \/ advance_head_start(r) \/ advance_head_next(r) \/ advance_head_finish(r)
         \/ advance_head_abort(r)
  PROVE  IndInv'
<1> DEFINE old == combiner[r]
<1>0. /\ old \in CombinerState
      /\ combiner_valid(r)
      /\ head \in Index /\ tail \in Index
  BY Before
<1>t. TypeOK /\ pointer_ordering /\ \A n \in Replica : local_versions[n] \in Index
  BY DEF IndInv, TypeOK
<1>n. tail \in Nat /\ \A n \in Replica : local_versions[n] \in Nat
  BY <1>0, <1>t, CyclicBufferAssumption DEF Index
<1>1. CASE advance_head_start(r)
  <2> DEFINE c == AdvancingHead(1, local_versions[0])
  <2>1. 0 \in Replica /\ 1 \in 0 .. num_replicas
    BY CyclicBufferAssumption DEF Replica
  <2>2. c \in CombinerState
    BY <1>t, <2>1 DEF CombinerState, AdvancingHead
  <2>3. Become(r, c) /\ UNCHANGED <<head, tail, local_versions, contents, alive_bits>>
    BY <1>1 DEF advance_head_start
  <2>4. combiner'[r] = c
    BY <2>3, Before
  <2>5. reader_state_valid(r)' /\ combiner_valid(r)'
    BY <1>n, <2>1, <2>3, <2>4 DEF reader_state_valid, combiner_valid, AdvancingHead
  <2> QED BY <2>2, <2>3, <2>5, LocalStep
<1>2. CASE advance_head_next(r)
  <2> DEFINE v == local_versions[old.idx]
             min == IF v < old.min_local_version THEN v ELSE old.min_local_version
             c == AdvancingHead(old.idx + 1, min)
  <2>1. old.state = "AdvancingHead" /\ old.idx < num_replicas
    BY <1>2 DEF advance_head_next, In
  <2>2. old.idx \in 0 .. num_replicas /\ old.min_local_version \in Index
    BY <1>0, <2>1 DEF CombinerState, Idle
  <2>3. old.idx \in Replica /\ old.idx + 1 \in 0 .. num_replicas
    BY <2>1, <2>2, CyclicBufferAssumption DEF Replica
  <2>4. min \in Index
    BY <1>t, <2>2, <2>3
  <2>5. c \in CombinerState
    BY <2>3, <2>4 DEF CombinerState, AdvancingHead
  <2>6. Become(r, c) /\ UNCHANGED <<head, tail, local_versions, contents, alive_bits>>
    BY <1>2 DEF advance_head_next
  <2>7. combiner'[r] = c
    BY <2>6, Before
  <2>8. \A n \in 0 .. old.idx - 1 : old.min_local_version <= local_versions[n]
    BY <1>0, <2>1 DEF combiner_valid
  <2>9. \A n \in 0 .. (old.idx + 1) - 1 : min <= local_versions[n]
    <3> SUFFICES ASSUME NEW n \in 0 .. (old.idx + 1) - 1 PROVE min <= local_versions[n]
      OBVIOUS
    <3>1. n \in Replica /\ (n = old.idx \/ n \in 0 .. old.idx - 1)
      BY <2>1, <2>2, CyclicBufferAssumption DEF Replica
    <3>2. old.min_local_version \in Nat /\ local_versions[n] \in Nat /\ v \in Nat
      BY <1>n, <2>2, <2>3, <3>1, CyclicBufferAssumption DEF Index
    <3>3. CASE n = old.idx
      BY <3>2, <3>3
    <3>4. CASE n \in 0 .. old.idx - 1
      <4>1. old.min_local_version <= local_versions[n]
        BY <2>8, <3>4
      <4> QED BY <3>2, <4>1
    <3> QED BY <3>1, <3>3, <3>4
  <2>10. reader_state_valid(r)' /\ combiner_valid(r)'
    <3> HIDE DEF min
    <3> QED BY <2>6, <2>7, <2>9 DEF reader_state_valid, combiner_valid, AdvancingHead
  <2> QED BY <2>5, <2>6, <2>10, LocalStep
<1>3. CASE advance_head_finish(r)
  <2> DEFINE min == old.min_local_version
  <2>1. old.state = "AdvancingHead" /\ old.idx = num_replicas
    BY <1>3 DEF advance_head_finish, In
  <2>2. min \in Index
    BY <1>0, <2>1 DEF CombinerState, Idle
  <2>3. \A n \in Replica : min <= local_versions[n]
    BY <1>0, <2>1 DEF combiner_valid, Replica
  <2>4. head' = min /\ Become(r, Idle) /\ UNCHANGED <<tail, local_versions, contents, alive_bits>>
    BY <1>3 DEF advance_head_finish
  <2>5. Idle \in CombinerState
    BY DEF CombinerState
  <2>6. TypeOK'
    BY <1>t, <2>2, <2>4, <2>5 DEF TypeOK, Become
  <2>7. pointer_ordering'
    <3>1. 0 \in Replica
      BY CyclicBufferAssumption DEF Replica
    <3>2. min \in Nat
      BY <2>2, CyclicBufferAssumption DEF Index
    <3>3. min <= tail
      BY <1>n, <1>t, <2>3, <3>1, <3>2 DEF pointer_ordering
    <3> QED BY <1>t, <2>3, <2>4, <3>3 DEF pointer_ordering
  <2>8. combiner'[r] = Idle
    BY <2>4, Before
  <2>9. reader_state_valid(r)' /\ combiner_valid(r)'
    BY <2>8 DEF reader_state_valid, combiner_valid, Idle
  <2>10. tail <= tail' /\ local_versions[r] <= local_versions'[r]
    BY <1>n, <2>4
  <2>11. \A n \in Replica \ {r} : local_versions'[n] = local_versions[n]
    BY <2>4
  <2> QED BY <2>4, <2>5, <2>6, <2>7, <2>9, <2>10, <2>11, StepOf
<1>4. CASE advance_head_abort(r)
  BY <1>4, AbortStep DEF advance_head_abort
<1> QED BY <1>1, <1>2, <1>3, <1>4

(* The steps that reserve entries and fill them. *)
LEMMA TailStep ==
  ASSUME NEW r \in Replica, IndInv,
         \/ advance_tail_start(r) \/ (\E t \in Index : advance_tail_finish(r, t))
         \/ advance_tail_abort(r) \/ append_flip_bit(r) \/ append_finish(r)
  PROVE  IndInv'
<1> DEFINE old == combiner[r]
<1>0. /\ old \in CombinerState
      /\ combiner_valid(r)
      /\ head \in Index /\ tail \in Index /\ local_versions[r] \in Index
      /\ local_versions[r] <= tail
  BY Before
<1>t. TypeOK /\ pointer_ordering /\ \A n \in Replica : local_versions[n] \in Index
  BY DEF IndInv, TypeOK
<1>n. head \in Nat /\ tail \in Nat /\ \A n \in Replica : local_versions[n] \in Nat
  BY <1>0, <1>t, CyclicBufferAssumption DEF Index
<1>1. CASE advance_tail_start(r)
  <2> DEFINE c == AdvancingTail(head)
  <2>1. c \in CombinerState
    BY <1>0 DEF CombinerState, AdvancingTail
  <2>2. Become(r, c) /\ UNCHANGED <<head, tail, local_versions, contents, alive_bits>>
    BY <1>1 DEF advance_tail_start
  <2>3. combiner'[r] = c
    BY <2>2, Before
  <2>4. reader_state_valid(r)' /\ combiner_valid(r)'
    BY <1>t, <2>2, <2>3 DEF reader_state_valid, combiner_valid, AdvancingTail, pointer_ordering
  <2> QED BY <2>1, <2>2, <2>4, LocalStep
<1>2. ASSUME NEW t \in Index, advance_tail_finish(r, t)
      PROVE  IndInv'
  <2> DEFINE c == Appending(tail, t)
  <2>1. /\ old.state = "AdvancingTail"
        /\ tail <= t /\ t <= old.observed_head + LOG_SIZE
        /\ tail' = t /\ Become(r, c)
        /\ contents' = contents \ (tail - LOG_SIZE .. t - LOG_SIZE - 1)
        /\ UNCHANGED <<head, local_versions, alive_bits>>
    BY <1>2 DEF advance_tail_finish, In
  <2>2. old.observed_head \in Nat /\ t \in Nat
    BY <1>0, <2>1, CombinerFields, CyclicBufferAssumption DEF Index
  <2>3. \A n \in Replica : old.observed_head <= local_versions[n]
    BY <1>0, <2>1 DEF combiner_valid
  <2>4. c \in CombinerState
    BY <1>0 DEF CombinerState, Appending
  <2>5. TypeOK'
    BY <1>t, <2>1, <2>4 DEF TypeOK, Become
  <2>6. pointer_ordering'
    <3>1. head <= t
      BY <1>n, <1>t, <2>1, <2>2 DEF pointer_ordering
    <3>2. ASSUME NEW n \in Replica
          PROVE  head <= local_versions[n] /\ local_versions[n] <= t /\ t <= local_versions[n] + LOG_SIZE
      BY <1>n, <1>t, <2>1, <2>2, <2>3, CyclicBufferAssumption DEF pointer_ordering
    <3> QED BY <2>1, <3>1, <3>2 DEF pointer_ordering
  <2>7. combiner'[r] = c
    BY <2>1, Before
  <2>8. reader_state_valid(r)' /\ combiner_valid(r)'
    BY <1>0, <1>n, <2>1, <2>2, <2>7 DEF reader_state_valid, combiner_valid, Appending
  <2>9. local_versions[r] <= local_versions'[r] /\ \A n \in Replica \ {r} : local_versions'[n] = local_versions[n]
    BY <1>n, <2>1
  <2> QED BY <2>1, <2>4, <2>5, <2>6, <2>8, <2>9, StepOf
<1>3. CASE advance_tail_abort(r)
  BY <1>3, AbortStep DEF advance_tail_abort
<1>4. CASE append_flip_bit(r)
  <2> DEFINE c == Appending(old.cur_idx + 1, old.tail)
  <2>1. /\ old.state = "Appending"
        /\ old.cur_idx < old.tail
        /\ local_versions[r] <= old.cur_idx /\ old.tail <= tail
    BY <1>0, <1>4 DEF append_flip_bit, In, combiner_valid
  <2>2. old.cur_idx \in Nat /\ old.tail \in Nat /\ tail <= MAX_IDX
    BY <1>0, <2>1, CombinerFields DEF Index
  <2>3. old.cur_idx + 1 \in Index /\ old.tail \in Index /\ old.cur_idx \in 0 .. MAX_IDX - 1
    BY <1>n, <2>1, <2>2, CyclicBufferAssumption DEF Index
  <2>4. c \in CombinerState
    BY <2>3 DEF CombinerState, Appending
  <2>5. /\ Become(r, c)
        /\ alive_bits' = [alive_bits EXCEPT ![log_entry_idx(old.cur_idx)] = log_entry_alive_value(old.cur_idx)]
        /\ contents' = contents \cup {old.cur_idx}
        /\ UNCHANGED <<head, tail, local_versions>>
    BY <1>4 DEF append_flip_bit
  <2>6. TypeOK'
    <3>1. contents' \subseteq -LOG_SIZE .. MAX_IDX - 1
      <4>1. old.cur_idx \in -LOG_SIZE .. MAX_IDX - 1
        <5> HIDE DEF old
        <5> QED BY <2>3, CyclicBufferAssumption
      <4>2. contents \subseteq -LOG_SIZE .. MAX_IDX - 1
        BY <1>t DEF TypeOK
      <4> QED BY <2>5, <4>1, <4>2, Zenon
    <3>2. log_entry_alive_value(old.cur_idx) \in BOOLEAN
      BY Zenon DEF log_entry_alive_value
    <3>3. alive_bits' \in [0 .. LOG_SIZE - 1 -> BOOLEAN]
      BY <1>t, <2>5, <3>2, Zenon DEF TypeOK
    <3> QED BY <1>t, <2>4, <2>5, <3>1, <3>3 DEF TypeOK, Become
  <2>7. pointer_ordering'
    BY <1>t, <2>5 DEF pointer_ordering
  <2>8. combiner'[r] = c
    BY <2>5, Before
  <2>9. reader_state_valid(r)' /\ combiner_valid(r)'
    BY <1>n, <2>1, <2>2, <2>5, <2>8 DEF reader_state_valid, combiner_valid, Appending
  <2>10. /\ tail <= tail' /\ local_versions[r] <= local_versions'[r]
         /\ \A n \in Replica \ {r} : local_versions'[n] = local_versions[n]
    BY <1>n, <2>5
  <2> QED BY <2>4, <2>5, <2>6, <2>7, <2>9, <2>10, StepOf
<1>5. CASE append_finish(r)
  BY <1>5, AbortStep DEF append_finish
<1> QED BY <1>1, <1>2, <1>3, <1>4, <1>5

(* Every step. *)
LEMMA StepHolds == IndInv /\ [Next]_vars => IndInv'
<1> SUFFICES ASSUME IndInv, [Next]_vars PROVE IndInv'
  OBVIOUS
<1>1. CASE UNCHANGED vars
  <2>1. TypeOK'
    BY <1>1 DEF vars, IndInv, TypeOK
  <2>2. pointer_ordering'
    BY <1>1 DEF vars, IndInv, pointer_ordering
  <2>3. ASSUME NEW r \in Replica PROVE reader_state_valid(r)' /\ combiner_valid(r)'
    BY <1>1, Before DEF vars, reader_state_valid, combiner_valid
  <2>4. LoadedValid'
    BY <2>3 DEF LoadedValid, Replica
  <2> QED BY <2>1, <2>2, <2>4 DEF IndInv
<1>2. CASE Next
  BY <1>2, ReaderStep, HeadStep, TailStep DEF Next
<1> QED BY <1>1, <1>2

LEMMA IndInvCorrect == Spec => []IndInv
BY InitHolds, StepHolds, PTL DEF Spec

(* No permission is known under an index beyond the tail's bound, and no   *)
(* combiner loads a value that is not an index (the asserts of log.rs that *)
(* keep the 64-bit arithmetic from wrapping).                              *)
THEOREM CyclicBufferTypeCorrect == Spec => []TypeOK
<1>1. IndInv => TypeOK
  BY DEF IndInv
<1> QED BY <1>1, IndInvCorrect, PTL

(* The tail never laps the slowest replica and no version is below the     *)
(* head, although reservations use a head that was loaded earlier and      *)
(* although the head may be put back (pointer_ordering and                 *)
(* pointer_differences of cyclicbuffer.rs).                                *)
THEOREM PointerOrderingCorrect == Spec => []pointer_ordering
<1>1. IndInv => pointer_ordering
  BY DEF IndInv
<1> QED BY <1>1, IndInvCorrect, PTL

-----------------------------------------------------------------------------
(* Slots and alive values *)

(* An index and its slot. *)
LEMMA Remainder ==
  ASSUME NEW i \in Int
  PROVE  /\ i \div LOG_SIZE \in Int
         /\ log_entry_idx(i) \in 0 .. LOG_SIZE - 1
         /\ i = LOG_SIZE * (i \div LOG_SIZE) + log_entry_idx(i)
<1>1. LOG_SIZE \in Nat \ {0}
  BY CyclicBufferAssumption
<1>2. i \div LOG_SIZE \in Int /\ i % LOG_SIZE \in 0 .. LOG_SIZE - 1
  BY <1>1, SMTT(60)
<1>3. i - LOG_SIZE * (i \div LOG_SIZE) = i % LOG_SIZE
  BY <1>1, SMTT(60)
<1> DEFINE p == LOG_SIZE * (i \div LOG_SIZE)
<1>4. p \in Int
  BY <1>1, <1>2
<1> HIDE DEF p
<1>5. i - p = i % LOG_SIZE => i = p + (i % LOG_SIZE)
  BY <1>1, <1>2, <1>4
<1> QED BY <1>2, <1>3, <1>5 DEF p, log_entry_idx

(* A multiple smaller than its factor. *)
LEMMA Multiple ==
  ASSUME NEW n \in Nat, NEW d \in Int, -n < n * d, n * d < n
  PROVE  d = 0
<1>1. d >= 1 => n * d >= n
  BY SMTT(60)
<1>2. d <= -1 => n * d <= -n
  BY SMTT(60)
<1> QED BY <1>1, <1>2, SMTT(60)

(* Two indices of one window of LOG_SIZE entries have different slots. *)
LEMMA SlotsDiffer ==
  ASSUME NEW i \in Int, NEW j \in Int, i < j + LOG_SIZE, j < i + LOG_SIZE,
         log_entry_idx(i) = log_entry_idx(j)
  PROVE  i = j
<1> DEFINE a == i \div LOG_SIZE
           b == j \div LOG_SIZE
<1>1. LOG_SIZE \in Nat /\ a \in Int /\ b \in Int
  BY CyclicBufferAssumption, Remainder
<1>2. log_entry_idx(i) \in Int
  BY Remainder
<1>3. i = LOG_SIZE * a + log_entry_idx(i) /\ j = LOG_SIZE * b + log_entry_idx(i)
  BY Remainder
<1> HIDE DEF a, b
<1>4. LOG_SIZE * a - LOG_SIZE * b = LOG_SIZE * (a - b)
  BY <1>1
<1>5. LOG_SIZE * a \in Int /\ LOG_SIZE * b \in Int
  BY <1>1
<1>6. i - j = LOG_SIZE * (a - b)
  BY <1>2, <1>3, <1>4, <1>5
<1>7. a - b = 0
  BY <1>1, <1>6, Multiple
<1> QED BY <1>1, <1>3, <1>7

(* Quotient and remainder are unique. *)
LEMMA Quotient ==
  ASSUME NEW n \in Nat \ {0}, NEW q \in Int, NEW r \in 0 .. n - 1
  PROVE  (n * q + r) \div n = q /\ (n * q + r) % n = r
<1>1. (n * q + r) \div n = q
  BY SMTT(60)
<1>2. (n * q + r) % n = r
  BY SMTT(60)
<1> QED BY <1>1, <1>2

(* The entry one round earlier has the same slot, and a bit that says alive *)
(* for the one says not alive for the other. *)
LEMMA RoundsAlternate ==
  ASSUME NEW i \in Int
  PROVE  /\ log_entry_idx(i - LOG_SIZE) = log_entry_idx(i)
         /\ log_entry_alive_value(i - LOG_SIZE) <=> ~log_entry_alive_value(i)
<1> DEFINE q == i \div LOG_SIZE
           r == log_entry_idx(i)
<1>1. LOG_SIZE \in Nat \ {0}
  BY CyclicBufferAssumption
<1>2. q \in Int /\ r \in 0 .. LOG_SIZE - 1 /\ i = LOG_SIZE * q + r
  BY Remainder
<1> HIDE DEF q, r
<1>3. LOG_SIZE * (q - 1) = LOG_SIZE * q - LOG_SIZE /\ LOG_SIZE * q \in Int
  BY <1>1, <1>2
<1>4. i - LOG_SIZE = LOG_SIZE * (q - 1) + r
  BY <1>1, <1>2, <1>3
<1>5. (i - LOG_SIZE) \div LOG_SIZE = q - 1 /\ (i - LOG_SIZE) % LOG_SIZE = r
  BY <1>1, <1>2, <1>4, Quotient
<1>6. (q - 1) % 2 = 0 <=> q % 2 # 0
  BY <1>2
<1> QED BY <1>5, <1>6 DEF log_entry_idx, log_entry_alive_value, q, r

-----------------------------------------------------------------------------
(* The cells *)

(* The indices that may be in use: the last LOG_SIZE before the tail.      *)
Window == tail - LOG_SIZE .. tail - 1

(* The entries a combiner in state c has reserved and has yet to fill.     *)
Filling(c) == IF c.state = "Appending" THEN c.cur_idx .. c.tail - 1 ELSE {}

(* Every index of the window is in the buffer or with one combiner.        *)
CellsSplit ==
  /\ contents \subseteq Window
  /\ \A i \in Window : i \in contents \/ \E r \in Replica : i \in Filling(combiner[r])
  /\ \A r \in Replica : \A i \in Filling(combiner[r]) :
        /\ i \notin contents
        /\ \A s \in Replica \ {r} : i \notin Filling(combiner[s])

(* In the window, alive means in the buffer.                               *)
BitsTell == \A i \in Window : log_entry_is_alive(i) <=> i \in contents

(* A reader in state c has the permissions held to what it has passed.     *)
Passed(c, held) ==
  /\ c.state \in {"Range", "Guard"} => \A i \in c.start .. c.cur - 1 : i \in held
  /\ c.state = "Guard" => c.cur \in held

PassedPresent == \A r \in Replica : Passed(combiner[r], contents)

(* The alive bits are never reset: an entry is not alive when the tail     *)
(* reaches it because its slot holds the entry of the round before, and    *)
(* that one is in the buffer, since everybody has read it. Hence the       *)
(* invariant has to say where every cell of the window is.                 *)
EntriesInv == CellsSplit /\ BitsTell /\ PassedPresent

(* Initially the window is full and alive. *)
LEMMA InitEntries == Init => EntriesInv
<1> SUFFICES ASSUME Init PROVE EntriesInv
  OBVIOUS
<1>1. /\ tail = 0 /\ contents = -LOG_SIZE .. -1
      /\ alive_bits = [s \in 0 .. LOG_SIZE - 1 |-> ~log_entry_alive_value(s)]
      /\ \A r \in Replica : combiner[r] = Idle
  BY DEF Init
<1>2. LOG_SIZE \in Nat \ {0}
  BY CyclicBufferAssumption
<1>3. Window = -LOG_SIZE .. -1
  BY <1>1, <1>2 DEF Window
<1>4. CellsSplit
  BY <1>1, <1>3 DEF CellsSplit, Filling, Idle
<1>5. ASSUME NEW i \in Window PROVE log_entry_is_alive(i)
  <2>1. i \in -LOG_SIZE .. -1
    BY <1>3
  <2>2. i + LOG_SIZE \in 0 .. LOG_SIZE - 1 /\ i + LOG_SIZE \in Int /\ (i + LOG_SIZE) - LOG_SIZE = i
    BY <1>2, <2>1
  <2>3. log_entry_idx(i + LOG_SIZE) = i + LOG_SIZE
    <3>1. log_entry_idx(i + LOG_SIZE) \in 0 .. LOG_SIZE - 1
      BY <2>2, Remainder
    <3> QED BY <1>2, <2>2 DEF log_entry_idx
  <2>4. /\ log_entry_idx(i) = i + LOG_SIZE
        /\ log_entry_alive_value(i) <=> ~log_entry_alive_value(i + LOG_SIZE)
    BY <2>2, <2>3, RoundsAlternate
  <2>5. alive_bits[i + LOG_SIZE] = ~log_entry_alive_value(i + LOG_SIZE)
    BY <1>1, <2>2
  <2>6. log_entry_alive_value(i) \in BOOLEAN /\ log_entry_alive_value(i + LOG_SIZE) \in BOOLEAN
    BY Zenon DEF log_entry_alive_value
  <2> QED BY <2>4, <2>5, <2>6, Zenon DEF log_entry_is_alive
<1>6. BitsTell
  BY <1>1, <1>3, <1>5 DEF BitsTell
<1>7. PassedPresent
  BY <1>1 DEF PassedPresent, Passed, Idle
<1> QED BY <1>4, <1>6, <1>7 DEF EntriesInv

(* What the order of the pointers says of the window. *)
LEMMA WindowFacts ==
  ASSUME IndInv
  PROVE  /\ Window \subseteq Int
         /\ \A r \in Replica : Filling(combiner[r]) \subseteq Window
         /\ \A r \in Replica : \A i \in Filling(combiner[r]) : local_versions[r] <= i
         /\ \A r \in Replica : local_versions[r] .. tail - 1 \subseteq Window
<1>1. TypeOK /\ pointer_ordering /\ LoadedValid
  BY DEF IndInv
<1>2. tail \in Nat /\ LOG_SIZE \in Nat \ {0} /\ \A r \in Replica : local_versions[r] \in Nat
  BY <1>1, CyclicBufferAssumption DEF TypeOK, Index
<1>3. ASSUME NEW r \in Replica
      PROVE  /\ local_versions[r] .. tail - 1 \subseteq Window
             /\ \A i \in Filling(combiner[r]) : i \in Window /\ local_versions[r] <= i
  <2>1. tail <= local_versions[r] + LOG_SIZE
    BY <1>1 DEF pointer_ordering
  <2>2. local_versions[r] .. tail - 1 \subseteq Window
    BY <1>2, <2>1 DEF Window
  <2>3. ASSUME NEW i \in Filling(combiner[r]) PROVE i \in Window /\ local_versions[r] <= i
    <3>1. combiner[r].state = "Appending" /\ i \in combiner[r].cur_idx .. combiner[r].tail - 1
      BY <2>3 DEF Filling
    <3>2. combiner[r] \in CombinerState
      BY <1>1 DEF TypeOK
    <3>3. combiner[r].cur_idx \in Nat /\ combiner[r].tail \in Nat
      BY <3>1, <3>2, CombinerFields
    <3>4. local_versions[r] <= combiner[r].cur_idx /\ combiner[r].tail <= tail
      BY <1>1, <3>1 DEF LoadedValid, combiner_valid
    <3> QED BY <1>2, <2>1, <3>1, <3>3, <3>4 DEF Window
  <2> QED BY <2>2, <2>3
<1> QED BY <1>2, <1>3 DEF Window

(* A step of combiner r that moves neither the tail nor a cell. *)
LEMMA QuietEntries ==
  ASSUME NEW r \in Replica, NEW c, IndInv, EntriesInv, Become(r, c),
         UNCHANGED <<tail, contents, alive_bits>>,
         Filling(c) = Filling(combiner[r]), Passed(c, contents)
  PROVE  EntriesInv'
<1>1. TypeOK /\ CellsSplit /\ BitsTell /\ PassedPresent
  BY DEF IndInv, EntriesInv
<1>2. combiner'[r] = c /\ \A s \in Replica \ {r} : combiner'[s] = combiner[s]
  BY <1>1 DEF TypeOK, Become
<1>3. \A s \in Replica : Filling(combiner'[s]) = Filling(combiner[s])
  BY <1>2
<1>4. Window' = Window /\ Replica' = Replica
  BY DEF Window, Replica
<1>5. CellsSplit'
  BY <1>1, <1>3, <1>4 DEF CellsSplit
<1>6. BitsTell'
  BY <1>1, <1>4 DEF BitsTell, log_entry_is_alive
<1>7. PassedPresent'
  BY <1>1, <1>2 DEF PassedPresent
<1> QED BY <1>5, <1>6, <1>7 DEF EntriesInv

(* Entries are reserved. The ones overwritten were read by everybody, so   *)
(* the buffer holds them, and their slots say alive for their round.       *)
LEMMA ReserveEntries ==
  ASSUME NEW r \in Replica, NEW t \in Index, IndInv, IndInv', EntriesInv, advance_tail_finish(r, t)
  PROVE  EntriesInv'
<1> DEFINE old == combiner[r]
           c == Appending(tail, t)
           low == tail - LOG_SIZE .. t - LOG_SIZE - 1
           new == tail .. t - 1
<1>1. TypeOK /\ CellsSplit /\ BitsTell /\ PassedPresent
  BY DEF IndInv, EntriesInv
<1>2. /\ old.state = "AdvancingTail" /\ tail <= t
      /\ tail' = t /\ contents' = contents \ low
      /\ UNCHANGED <<head, local_versions, alive_bits>>
  BY DEF advance_tail_finish, In
<1>3. /\ tail \in Nat /\ t \in Nat /\ LOG_SIZE \in Nat \ {0}
      /\ \A s \in Replica : local_versions[s] \in Nat
  BY <1>1, CyclicBufferAssumption DEF TypeOK, Index
<1>4. combiner'[r] = c /\ \A s \in Replica \ {r} : combiner'[s] = combiner[s]
  BY <1>1 DEF advance_tail_finish, TypeOK, Become
<1>5. Filling(old) = {} /\ Filling(c) = new
  BY <1>2 DEF Filling, Appending
(* The window moves on by the entries reserved. *)
<1>6. t <= local_versions[r] + LOG_SIZE /\ local_versions[r] <= tail
  BY <1>2, IndInv, IndInv' DEF IndInv, pointer_ordering
<1>7. /\ \A i : i \in Window' <=> i \in Window \ low \/ i \in new
      /\ \A i \in new : i \notin Window /\ i \in Int /\ i - LOG_SIZE \in low
      /\ low \subseteq Window
  BY <1>2, <1>3, <1>6 DEF Window
(* Nobody fills what is overwritten. *)
<1>8. ASSUME NEW s \in Replica, NEW i \in Filling(combiner[s]) PROVE i \notin low
  <2>1. i \in Window /\ i \in Int /\ local_versions[s] <= i
    BY WindowFacts
  <2>2. t <= local_versions[s] + LOG_SIZE
    BY <1>2, IndInv' DEF IndInv, pointer_ordering
  <2> QED BY <1>3, <2>1, <2>2
<1>9. \A s \in Replica : \A i \in Filling(combiner[s]) : i \in Window
  BY WindowFacts
<1>10. low \subseteq contents
  BY <1>1, <1>7, <1>8 DEF CellsSplit
<1>11. CellsSplit'
  <2>1. contents' \subseteq Window'
    BY <1>1, <1>2, <1>7 DEF CellsSplit
  <2>2. ASSUME NEW i \in Window'
        PROVE  i \in contents' \/ \E s \in Replica : i \in Filling(combiner'[s])
    <3>1. CASE i \in new
      BY <1>4, <1>5, <3>1
    <3>2. CASE i \in Window \ low /\ i \in contents
      BY <1>2, <3>2
    <3>3. CASE i \in Window \ low /\ i \notin contents
      <4>1. PICK s \in Replica : i \in Filling(combiner[s])
        BY <1>1, <3>3 DEF CellsSplit
      <4>2. s # r
        BY <1>5, <4>1
      <4> QED BY <1>4, <4>1, <4>2
    <3> QED BY <1>7, <3>1, <3>2, <3>3
  <2>3. ASSUME NEW s \in Replica, NEW i \in Filling(combiner'[s])
        PROVE  i \notin contents' /\ \A u \in Replica \ {s} : i \notin Filling(combiner'[u])
    <3>1. CASE s = r
      <4>1. i \in new /\ i \notin Window
        BY <1>4, <1>5, <1>7, <2>3, <3>1
      <4> QED BY <1>1, <1>2, <1>4, <1>9, <3>1, <4>1 DEF CellsSplit
    <3>2. CASE s # r
      <4>1. i \in Filling(combiner[s]) /\ i \in Window /\ i \notin contents
        BY <1>1, <1>4, <1>9, <2>3, <3>2 DEF CellsSplit
      <4>2. i \notin Filling(combiner'[r])
        BY <1>4, <1>5, <1>7, <4>1
      <4>3. \A u \in Replica \ {s, r} : i \notin Filling(combiner'[u])
        BY <1>1, <1>4, <4>1 DEF CellsSplit
      <4> QED BY <1>2, <4>1, <4>2, <4>3
    <3> QED BY <3>1, <3>2
  <2> QED BY <2>1, <2>2, <2>3 DEF CellsSplit, Replica
<1>12. BitsTell'
  <2> SUFFICES ASSUME NEW i \in Window'
               PROVE  log_entry_is_alive(i)' <=> i \in contents'
    BY DEF BitsTell
  <2>1. log_entry_is_alive(i)' <=> log_entry_is_alive(i)
    BY <1>2 DEF log_entry_is_alive, log_entry_idx, log_entry_alive_value
  <2>2. CASE i \in Window \ low
    BY <1>1, <1>2, <2>1, <2>2 DEF BitsTell
  <2>3. CASE i \in new
    <3>1. i - LOG_SIZE \in low /\ i - LOG_SIZE \in Window
      BY <1>7, <2>3
    <3>2. log_entry_is_alive(i - LOG_SIZE)
      BY <1>1, <1>10, <3>1 DEF BitsTell
    <3>3. ~log_entry_is_alive(i)
      BY <1>7, <2>3, <3>2, RoundsAlternate DEF log_entry_is_alive
    <3>4. i \notin contents
      BY <1>1, <1>7, <2>3 DEF CellsSplit
    <3> QED BY <1>2, <2>1, <3>3, <3>4
  <2> QED BY <1>7, <2>2, <2>3
<1>13. PassedPresent'
  <2> SUFFICES ASSUME NEW s \in Replica PROVE Passed(combiner'[s], contents')
    BY DEF PassedPresent, Replica
  <2>1. CASE s = r
    BY <1>4, <2>1 DEF Passed, Appending
  <2>2. CASE s # r
    <3>1. combiner'[s] = combiner[s] /\ combiner[s] \in CombinerState /\ reader_state_valid(s)
      BY <1>1, <1>4, <2>2 DEF IndInv, LoadedValid, TypeOK
    <3>2. Passed(combiner[s], contents)
      BY <1>1 DEF PassedPresent
    <3>3. t <= local_versions[s] + LOG_SIZE
      BY <1>2, IndInv' DEF IndInv, pointer_ordering
    <3>4. \A i \in Int : local_versions[s] <= i => i \notin low
      BY <1>3, <3>3
    <3>5. combiner[s].state \in {"Range", "Guard"} =>
            /\ \A i \in combiner[s].start .. combiner[s].cur - 1 : i \notin low
            /\ combiner[s].cur \notin low
      <4> SUFFICES ASSUME combiner[s].state \in {"Range", "Guard"}
                   PROVE  /\ \A i \in combiner[s].start .. combiner[s].cur - 1 : i \notin low
                          /\ combiner[s].cur \notin low
        OBVIOUS
      <4>1. combiner[s].start \in Nat /\ combiner[s].cur \in Nat
        BY <3>1, CombinerFields
      <4>2. combiner[s].start = local_versions[s] /\ combiner[s].start <= combiner[s].cur
        BY <3>1 DEF reader_state_valid
      <4> HIDE DEF low
      <4> QED BY <3>4, <4>1, <4>2
    <3> QED BY <1>2, <3>1, <3>2, <3>5 DEF Passed
  <2> QED BY <2>1, <2>2
<1> QED BY <1>11, <1>12, <1>13 DEF EntriesInv

(* An entry is filled: its cell goes back into the buffer and its slot     *)
(* says alive. No other index of the window has that slot.                 *)
LEMMA FillEntry ==
  ASSUME NEW r \in Replica, IndInv, EntriesInv, append_flip_bit(r)
  PROVE  EntriesInv'
<1> DEFINE old == combiner[r]
           k == old.cur_idx
           c == Appending(k + 1, old.tail)
<1>1. TypeOK /\ CellsSplit /\ BitsTell /\ PassedPresent
  BY DEF IndInv, EntriesInv
<1>2. /\ old.state = "Appending" /\ k < old.tail
      /\ alive_bits' = [alive_bits EXCEPT ![log_entry_idx(k)] = log_entry_alive_value(k)]
      /\ contents' = contents \cup {k}
      /\ UNCHANGED <<head, tail, local_versions>>
  BY DEF append_flip_bit, In
<1>3. old \in CombinerState
  BY <1>1 DEF TypeOK
<1>4. k \in Nat /\ old.tail \in Nat
  BY <1>2, <1>3, CombinerFields
<1>5. combiner'[r] = c /\ \A s \in Replica \ {r} : combiner'[s] = combiner[s]
  BY <1>1 DEF append_flip_bit, TypeOK, Become
<1>6. k \in Filling(old) /\ Filling(c) = Filling(old) \ {k}
  <2>1. Filling(old) = k .. old.tail - 1 /\ Filling(c) = k + 1 .. old.tail - 1
    BY <1>2 DEF Filling, Appending
  <2> HIDE DEF old
  <2> QED BY <1>2, <1>4, <2>1
<1>7. k \in Window /\ Window \subseteq Int /\ Window' = Window
  BY <1>2, <1>6, WindowFacts DEF Window
<1> HIDE DEF k, c
<1>8. k \notin contents /\ \A s \in Replica \ {r} : k \notin Filling(combiner[s])
  BY <1>1, <1>6 DEF CellsSplit
<1>9. CellsSplit'
  <2>1. contents' \subseteq Window'
    BY <1>1, <1>2, <1>7 DEF CellsSplit
  <2>2. ASSUME NEW i \in Window'
        PROVE  i \in contents' \/ \E s \in Replica : i \in Filling(combiner'[s])
    <3>1. CASE i = k \/ i \in contents
      BY <1>2, <3>1
    <3>2. CASE i # k /\ i \notin contents
      <4>1. PICK s \in Replica : i \in Filling(combiner[s])
        BY <1>1, <1>7, <3>2 DEF CellsSplit
      <4>2. i \in Filling(combiner'[s])
        BY <1>5, <1>6, <3>2, <4>1
      <4> QED BY <4>2
    <3> QED BY <3>1, <3>2
  <2>3. \A s \in Replica : \A i \in Filling(combiner'[s]) : i \in Filling(combiner[s]) /\ i # k
    BY <1>5, <1>6, <1>8
  <2>4. ASSUME NEW s \in Replica, NEW i \in Filling(combiner'[s])
        PROVE  i \notin contents' /\ \A u \in Replica \ {s} : i \notin Filling(combiner'[u])
    <3>1. i \in Filling(combiner[s]) /\ i # k
      BY <2>3
    <3>2. i \notin contents /\ \A u \in Replica \ {s} : i \notin Filling(combiner[u])
      BY <1>1, <3>1 DEF CellsSplit
    <3> QED BY <1>2, <2>3, <3>1, <3>2
  <2> QED BY <2>1, <2>2, <2>4 DEF CellsSplit, Replica
<1>10. BitsTell'
  <2> SUFFICES ASSUME NEW i \in Window PROVE log_entry_is_alive(i)' <=> i \in contents'
    BY <1>7 DEF BitsTell
  <2>1. i \in Int /\ k \in Int /\ log_entry_idx(i) \in 0 .. LOG_SIZE - 1
    BY <1>7, Remainder
  <2>2. log_entry_is_alive(i)' <=> alive_bits'[log_entry_idx(i)] = log_entry_alive_value(i)
    BY DEF log_entry_is_alive, log_entry_idx, log_entry_alive_value
  <2>3. alive_bits \in [0 .. LOG_SIZE - 1 -> BOOLEAN]
    BY <1>1 DEF TypeOK
  <2>4. CASE i = k
    <3>1. alive_bits'[log_entry_idx(i)] = log_entry_alive_value(i)
      BY <1>2, <2>1, <2>3, <2>4, Zenon
    <3> QED BY <1>2, <2>2, <2>4, <3>1
  <2>5. CASE i # k
    <3>1. tail \in Nat /\ LOG_SIZE \in Nat
      BY <1>1, CyclicBufferAssumption DEF TypeOK, Index
    <3>2. i < k + LOG_SIZE /\ k < i + LOG_SIZE
      BY <1>7, <2>1, <3>1 DEF Window
    <3>3. log_entry_idx(i) # log_entry_idx(k)
      BY <2>1, <2>5, <3>2, SlotsDiffer
    <3>4. alive_bits'[log_entry_idx(i)] = alive_bits[log_entry_idx(i)]
      BY <1>2, <2>1, <2>3, <3>3, Zenon
    <3> QED BY <1>1, <1>2, <2>2, <2>5, <3>4 DEF BitsTell, log_entry_is_alive
  <2> QED BY <2>4, <2>5
<1>11. PassedPresent'
  <2> SUFFICES ASSUME NEW s \in Replica PROVE Passed(combiner'[s], contents')
    BY DEF PassedPresent, Replica
  <2>1. CASE s = r
    BY <1>5, <2>1 DEF Passed, Appending, c
  <2>2. CASE s # r
    BY <1>1, <1>2, <1>5, <2>2 DEF PassedPresent, Passed
  <2> QED BY <2>1, <2>2
<1> QED BY <1>9, <1>10, <1>11 DEF EntriesInv

(* The steps that change neither the tail nor a cell: the reader goes on   *)
(* only past an entry that is alive, and the appender is done only when it *)
(* has filled everything.                                                  *)
LEMMA QuietSteps ==
  ASSUME NEW r \in Replica, IndInv, EntriesInv,
         \/ reader_start(r) \/ reader_enter(r) \/ reader_guard(r) \/ reader_unguard(r)
         \/ reader_finish(r) \/ reader_abort(r)
         \/ advance_head_start(r) \/ advance_head_next(r) \/ advance_head_finish(r)
         \/ advance_head_abort(r)
         \/ advance_tail_start(r) \/ advance_tail_abort(r) \/ append_finish(r)
  PROVE  EntriesInv'
<1> DEFINE old == combiner[r]
<1>1. CellsSplit /\ BitsTell /\ Passed(old, contents)
  BY DEF EntriesInv, PassedPresent
<1>2. old \in CombinerState /\ reader_state_valid(r) /\ tail \in Nat /\ local_versions[r] \in Nat
  BY Before, CyclicBufferAssumption DEF Index
<1>3. CASE reader_start(r)
  <2>1. Become(r, Starting(local_versions[r])) /\ UNCHANGED <<tail, contents, alive_bits>>
    BY <1>3 DEF reader_start
  <2>2. Filling(Starting(local_versions[r])) = Filling(old)
    BY <1>3 DEF reader_start, In, Filling, Starting
  <2>3. Passed(Starting(local_versions[r]), contents)
    BY DEF Passed, Starting
  <2> QED BY <2>1, <2>2, <2>3, QuietEntries
<1>4. CASE reader_enter(r)
  <2> DEFINE c == Range(old.start, tail, old.start)
  <2>1. Become(r, c) /\ UNCHANGED <<tail, contents, alive_bits>> /\ old.state = "Starting"
    BY <1>4 DEF reader_enter, In
  <2>2. old.start \in Nat
    BY <1>2, <2>1, CombinerFields
  <2>3. Filling(c) = Filling(old)
    BY <2>1 DEF Filling, Range
  <2>4. Passed(c, contents)
    <3>1. c.state = "Range" /\ c.start = old.start /\ c.cur = old.start
      BY DEF Range
    <3>2. old.start .. old.start - 1 = {}
      BY <2>2
    <3> QED BY <3>1, <3>2 DEF Passed
  <2> QED BY <2>1, <2>3, <2>4, QuietEntries
<1>5. CASE reader_guard(r)
  <2> DEFINE c == Guard(old.start, old.end, old.cur)
  <2>1. /\ Become(r, c) /\ UNCHANGED <<tail, contents, alive_bits>>
        /\ old.state = "Range" /\ old.cur < old.end /\ log_entry_is_alive(old.cur)
    BY <1>5 DEF reader_guard, In
  <2>2. Filling(c) = Filling(old)
    BY <2>1 DEF Filling, Guard
  <2>3. /\ old.start \in Nat /\ old.cur \in Nat /\ old.end \in Nat
        /\ local_versions[r] <= old.cur /\ old.end <= tail
    BY <1>2, <2>1, CombinerFields DEF reader_state_valid
  <2>4. old.cur \in local_versions[r] .. tail - 1
    <3> HIDE DEF old
    <3> QED BY <1>2, <2>1, <2>3
  <2>5. old.cur \in contents
    BY <1>1, <2>1, <2>4, WindowFacts DEF BitsTell
  <2>6. Passed(c, contents)
    BY <1>1, <2>1, <2>5 DEF Passed, Guard
  <2> QED BY <2>1, <2>2, <2>6, QuietEntries
<1>6. CASE reader_unguard(r)
  <2> DEFINE c == Range(old.start, old.end, old.cur + 1)
  <2>1. /\ Become(r, c) /\ UNCHANGED <<tail, contents, alive_bits>>
        /\ old.state = "Guard"
    BY <1>6 DEF reader_unguard, In
  <2>2. Filling(c) = Filling(old)
    BY <2>1 DEF Filling, Range
  <2>3. old.start \in Nat /\ old.cur \in Nat
    BY <1>2, <2>1, CombinerFields
  <2>4. old.cur \in contents /\ \A i \in old.start .. old.cur - 1 : i \in contents
    BY <1>1, <2>1 DEF Passed
  <2>5. \A i \in old.start .. (old.cur + 1) - 1 : i = old.cur \/ i \in old.start .. old.cur - 1
    <3> HIDE DEF old
    <3> QED BY <2>3
  <2>6. Passed(c, contents)
    <3>1. c.state = "Range" /\ c.start = old.start /\ c.cur = old.cur + 1
      BY DEF Range
    <3> HIDE DEF c, old
    <3> QED BY <2>4, <2>5, <3>1 DEF Passed
  <2> QED BY <2>1, <2>2, <2>6, QuietEntries
<1>7. CASE advance_head_start(r)
  <2> DEFINE c == AdvancingHead(1, local_versions[0])
  <2>1. Become(r, c) /\ UNCHANGED <<tail, contents, alive_bits>> /\ old.state = "Idle"
    BY <1>7 DEF advance_head_start, In
  <2>2. Filling(c) = Filling(old) /\ Passed(c, contents)
    BY <2>1 DEF Filling, Passed, AdvancingHead
  <2> QED BY <2>1, <2>2, QuietEntries
<1>8. CASE advance_head_next(r)
  <2> DEFINE v == local_versions[old.idx]
             min == IF v < old.min_local_version THEN v ELSE old.min_local_version
             c == AdvancingHead(old.idx + 1, min)
  <2>1. Become(r, c) /\ UNCHANGED <<tail, contents, alive_bits>> /\ old.state = "AdvancingHead"
    BY <1>8 DEF advance_head_next, In
  <2>2. Filling(c) = Filling(old) /\ Passed(c, contents)
    <3> HIDE DEF min
    <3> QED BY <2>1 DEF Filling, Passed, AdvancingHead
  <2> QED BY <2>1, <2>2, QuietEntries
<1>9. CASE advance_tail_start(r)
  <2> DEFINE c == AdvancingTail(head)
  <2>1. Become(r, c) /\ UNCHANGED <<tail, contents, alive_bits>> /\ old.state = "Idle"
    BY <1>9 DEF advance_tail_start, In
  <2>2. Filling(c) = Filling(old) /\ Passed(c, contents)
    BY <2>1 DEF Filling, Passed, AdvancingTail
  <2> QED BY <2>1, <2>2, QuietEntries
<1>10. CASE \/ reader_finish(r) \/ reader_abort(r) \/ advance_head_finish(r)
            \/ advance_head_abort(r) \/ advance_tail_abort(r) \/ append_finish(r)
  <2>1. Become(r, Idle) /\ UNCHANGED <<tail, contents, alive_bits>>
    BY <1>10 DEF reader_finish, reader_abort, advance_head_finish, advance_head_abort,
                 advance_tail_abort, append_finish
  <2>2. old.state = "Appending" => old.cur_idx = old.tail
    BY <1>10 DEF reader_finish, reader_abort, advance_head_finish, advance_head_abort,
                 advance_tail_abort, append_finish, In
  <2>3. Filling(old) = {}
    <3>1. CASE old.state = "Appending"
      <4>1. old.tail \in Nat
        BY <1>2, <3>1, CombinerFields
      <4>2. old.tail .. old.tail - 1 = {}
        <5> HIDE DEF old
        <5> QED BY <4>1
      <4> QED BY <2>2, <3>1, <4>2 DEF Filling
    <3>2. CASE old.state # "Appending"
      BY <3>2 DEF Filling
    <3> QED BY <3>1, <3>2
  <2>4. Filling(Idle) = {} /\ Passed(Idle, contents)
    BY DEF Filling, Passed, Idle
  <2> QED BY <2>1, <2>3, <2>4, QuietEntries
<1> QED BY <1>3, <1>4, <1>5, <1>6, <1>7, <1>8, <1>9, <1>10

LEMMA EntriesStep == IndInv /\ IndInv' /\ EntriesInv /\ [Next]_vars => EntriesInv'
<1> SUFFICES ASSUME IndInv, IndInv', EntriesInv, [Next]_vars PROVE EntriesInv'
  OBVIOUS
<1>1. CASE UNCHANGED vars
  <2>1. Window' = Window /\ Replica' = Replica /\ combiner' = combiner /\ contents' = contents
    BY <1>1 DEF vars, Window, Replica
  <2>2. CellsSplit'
    BY <2>1 DEF EntriesInv, CellsSplit
  <2>3. BitsTell'
    BY <1>1, <2>1 DEF vars, EntriesInv, BitsTell, log_entry_is_alive, log_entry_idx, log_entry_alive_value
  <2>4. PassedPresent'
    BY <2>1 DEF EntriesInv, PassedPresent
  <2> QED BY <2>2, <2>3, <2>4 DEF EntriesInv
<1>2. CASE Next
  BY <1>2, QuietSteps, ReserveEntries, FillEntry DEF Next
<1> QED BY <1>1, <1>2

LEMMA EntriesInvCorrect == Spec => [](IndInv /\ EntriesInv)
<1>1. IndInv /\ EntriesInv /\ [Next]_vars => IndInv' /\ EntriesInv'
  BY StepHolds, EntriesStep
<1> QED BY <1>1, InitHolds, InitEntries, PTL DEF Spec

-----------------------------------------------------------------------------
(* What follows of the entries *)

(* What a combiner has loaded stays valid until it uses it: the entries a  *)
(* reader has passed or works on are in the buffer and of its round, and   *)
(* those an appender has yet to fill are not alive (all_reader_state_valid *)
(* and all_combiner_valid of cyclicbuffer.rs).                             *)
THEOREM AllCombinerValidCorrect == Spec => []all_combiner_valid
<1>1. IndInv /\ EntriesInv => all_combiner_valid
  <2> SUFFICES ASSUME IndInv, EntriesInv, NEW r \in Replica
               PROVE  reader_state_valid(r) /\ combiner_valid(r) /\ entries_valid(r)
    BY DEF all_combiner_valid
  <2> DEFINE c == combiner[r]
  <2>1. reader_state_valid(r) /\ combiner_valid(r) /\ CellsSplit /\ BitsTell /\ Passed(c, contents)
    BY DEF IndInv, LoadedValid, EntriesInv, PassedPresent
  <2>2. \A i \in contents : log_entry_is_alive(i)
    BY <2>1 DEF CellsSplit, BitsTell
  <2>3. c.state \in {"Range", "Guard"} =>
          \A i \in c.start .. c.cur - 1 : log_entry_is_alive(i) /\ i \in contents
    BY <2>1, <2>2 DEF Passed
  <2>4. c.state = "Guard" => c.cur \in contents
    BY <2>1 DEF Passed
  <2>5. ASSUME c.state = "Appending"
        PROVE  /\ tail - LOG_SIZE <= c.cur_idx
               /\ \A i \in c.cur_idx .. c.tail - 1 : ~log_entry_is_alive(i)
    <3>1. ASSUME NEW i \in c.cur_idx .. c.tail - 1 PROVE ~log_entry_is_alive(i)
      <4>1. i \in Filling(c)
        BY <2>5 DEF Filling
      <4>2. i \in Window
        BY <4>1, WindowFacts
      <4> QED BY <2>1, <4>1, <4>2 DEF CellsSplit, BitsTell
    <3>2. tail - LOG_SIZE <= c.cur_idx
      <4>1. tail <= local_versions[r] + LOG_SIZE /\ local_versions[r] <= c.cur_idx
        BY <2>1, <2>5 DEF IndInv, pointer_ordering, combiner_valid
      <4>2. c \in CombinerState /\ tail \in Nat /\ local_versions[r] \in Nat /\ LOG_SIZE \in Nat
        BY Before, CyclicBufferAssumption DEF Index
      <4>3. c.cur_idx \in Nat
        BY <2>5, <4>2, CombinerFields
      <4> HIDE DEF c
      <4> QED BY <4>1, <4>2, <4>3
    <3> QED BY <3>1, <3>2
  <2> QED BY <2>1, <2>3, <2>4, <2>5 DEF entries_valid
<1> QED BY <1>1, EntriesInvCorrect, PTL

(* Every cell's permission exists exactly once, in the buffer or with the  *)
(* one combiner that fills the entry: the log never has two owners of one  *)
(* cell (ranges_no_overlap of cyclicbuffer.rs, and what makes the accesses *)
(* to the cells of log.rs free of data races).                             *)
THEOREM OneHolderPerCellCorrect == Spec => []OneHolderPerCell
<1>1. IndInv /\ EntriesInv => OneHolderPerCell
  <2> SUFFICES ASSUME IndInv, EntriesInv PROVE OneHolderPerCell
    OBVIOUS
  <2>1. CellsSplit
    BY DEF EntriesInv
  <2>2. Window \subseteq Int /\ \A r \in Replica : Filling(combiner[r]) \subseteq Window
    BY WindowFacts
  <2>3. ASSUME NEW i \in Window, NEW j \in Window, log_entry_idx(i) = log_entry_idx(j)
        PROVE  i = j
    <3>1. tail \in Nat /\ LOG_SIZE \in Nat
      BY CyclicBufferAssumption DEF IndInv, TypeOK, Index
    <3>2. i \in Int /\ j \in Int /\ i < j + LOG_SIZE /\ j < i + LOG_SIZE
      BY <2>2, <3>1 DEF Window
    <3> QED BY <2>3, <3>2, SlotsDiffer
  <2>4. \A i, j \in contents : log_entry_idx(i) = log_entry_idx(j) => i = j
    BY <2>1, <2>3 DEF CellsSplit
  <2>5. ASSUME NEW r \in Replica, NEW i \in Filling(combiner[r])
        PROVE  /\ \A j \in contents : log_entry_idx(i) # log_entry_idx(j)
               /\ \A s \in Replica \ {r} : \A j \in Filling(combiner[s]) : log_entry_idx(i) # log_entry_idx(j)
    <3>1. i \in Window /\ i \notin contents /\ \A s \in Replica \ {r} : i \notin Filling(combiner[s])
      BY <2>1, <2>2, <2>5 DEF CellsSplit
    <3>2. ASSUME NEW j \in contents PROVE log_entry_idx(i) # log_entry_idx(j)
      BY <2>1, <2>3, <3>1, <3>2 DEF CellsSplit
    <3>3. ASSUME NEW s \in Replica \ {r}, NEW j \in Filling(combiner[s])
          PROVE  log_entry_idx(i) # log_entry_idx(j)
      <4>1. j \in Window /\ i # j
        BY <2>2, <3>1, <3>3
      <4> QED BY <2>3, <3>1, <4>1
    <3> QED BY <3>2, <3>3
  <2> QED BY <2>4, <2>5 DEF OneHolderPerCell, Filling, In
<1> QED BY <1>1, EntriesInvCorrect, PTL

(* The alive bits tell filled entries from reserved ones although their    *)
(* meaning flips in every round and no bit is ever reset                   *)
(* (upcoming_bits_are_not_alive and inv_buffer_contents of                 *)
(* cyclicbuffer.rs).                                                       *)
THEOREM AliveBitsCorrect == Spec => []alive_bits_inv
<1>1. IndInv /\ EntriesInv => alive_bits_inv
  <2> SUFFICES ASSUME IndInv, EntriesInv PROVE alive_bits_inv
    OBVIOUS
  <2>1. CellsSplit /\ BitsTell
    BY DEF EntriesInv
  <2>2. /\ tail \in Nat /\ LOG_SIZE \in Nat \ {0} /\ 0 \in Replica
        /\ \A r \in Replica : local_versions[r] \in Nat /\ local_versions[r] <= tail
    BY CyclicBufferAssumption DEF IndInv, TypeOK, pointer_ordering, Index, Replica
  (* What everybody has read is nobody's to fill. *)
  <2>3. ASSUME NEW i \in Window, \A r \in Replica : i < local_versions[r]
        PROVE  i \in contents
    <3>1. i \in Int
      BY WindowFacts
    <3>2. \A r \in Replica : i \notin Filling(combiner[r])
      <4> SUFFICES ASSUME NEW r \in Replica, i \in Filling(combiner[r]) PROVE FALSE
        OBVIOUS
      <4>1. local_versions[r] <= i /\ i < local_versions[r] /\ local_versions[r] \in Nat
        BY <2>2, <2>3, WindowFacts
      <4> QED BY <3>1, <4>1
    <3> QED BY <2>1, <3>2 DEF CellsSplit
  <2>4. upcoming_bits_are_not_alive
    <3> SUFFICES ASSUME NEW i \in tail .. MAX_IDX + LOG_SIZE,
                        \A r \in Replica : i < local_versions[r] + LOG_SIZE
                 PROVE  ~log_entry_is_alive(i)
      BY DEF upcoming_bits_are_not_alive
    <3>1. i \in Int /\ tail <= i
      BY <2>2, CyclicBufferAssumption
    <3>2. \A r \in Replica : i - LOG_SIZE < local_versions[r]
      BY <2>2, <3>1
    <3>3. i - LOG_SIZE \in Window
      BY <2>2, <3>1, <3>2 DEF Window
    <3>4. log_entry_is_alive(i - LOG_SIZE)
      BY <2>1, <2>3, <3>2, <3>3 DEF BitsTell
    <3> QED BY <3>1, <3>4, RoundsAlternate DEF log_entry_is_alive
  <2>5. inv_buffer_contents
    BY <2>1, <2>3 DEF inv_buffer_contents, CellsSplit, BitsTell, Window
  <2> QED BY <2>4, <2>5 DEF alive_bits_inv
<1> QED BY <1>1, EntriesInvCorrect, PTL
=============================================================================
