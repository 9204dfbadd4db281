----------------------------- MODULE NrLogProofs ----------------------------
(***************************************************************************)
(* The shared log, for any number of replicas and every size of the        *)
(* buffer: it implements the circular buffer, cells are never raced for,   *)
(* alive entries are those of the log, and replicas hand out its answers.  *)
(* The circular buffer's own theorems are used: what holds of its tokens   *)
(* holds of the log's, because every access is one of its transitions.     *)
(* The bound MAX_IDX is the one of log.rs.                                 *)
(***************************************************************************)
EXTENDS NrLogProperties, SequenceTheorems, TLAPS

CBP == INSTANCE CyclicBufferProofs WITH
  contents   <- interp_contents,
  alive_bits <- interp_alive_bits,
  combiner   <- interp_combiner

LEMMA BufferAssumption == CBP!CyclicBufferAssumption
BY NrLogAssumption DEF CBP!CyclicBufferAssumption

-----------------------------------------------------------------------------
(* Control *)

(* The locals of append, advance_head and execute. *)
Appends == [tail : 0 .. MAX_IDX, head : 0 .. MAX_IDX, idx : 0 .. MAX_REQUESTS]

Advances == [global_head : 0 .. MAX_IDX, global_tail : 0 .. MAX_IDX, min : 0 .. MAX_IDX,
             idx : 0 .. num_replicas]

Executes == [caller : {"none", "load_tail", "load_global_head", "done"},
             local_version : 0 .. MAX_IDX, global_tail : 0 .. MAX_IDX]

(* The types of all that steers a combiner: all but its answers and the    *)
(* replica, which depend on what the cells hold.                           *)
ControlTypes ==
  /\ slog \in [0 .. LOG_SIZE - 1 -> [log_entry : Entry \cup {NoEntry}, alive : BOOLEAN]]
  /\ head \in 0 .. MAX_IDX
  /\ tail \in 0 .. MAX_IDX - 1
  /\ local_versions \in [Replica -> 0 .. MAX_IDX]
  /\ version_upper_bound \in 0 .. MAX_IDX
  /\ pc \in [Replica -> PCs]
  /\ operations \in [Replica -> Seq(AllOps)]
  /\ \A r \in Replica : operations[r] \in Batch(r)
  /\ ap \in [Replica -> Appends]
  /\ ah \in [Replica -> Advances]
  /\ ex \in [Replica -> Executes]

(* Where a combiner is, its locals fit: p is its pc, a, h and e its locals *)
(* of append, advance_head and execute, n the size of its batch.           *)
Locals(p, a, h, e, n) ==
  /\ p \notin {"write_entry", "set_alive", "append_return"} => a.idx = 0
  /\ p = "cas_tail" => a.tail <= a.head + GcThreshold /\ a.tail + n < MAX_IDX
  /\ p \in {"write_entry", "set_alive"} => a.idx < n
  /\ p = "append_return" => a.idx = n
  /\ p \notin {"find_min", "store_head"} => h.idx = 0
  /\ p = "find_min" => h.idx < num_replicas
  /\ p = "store_head" => h.idx = num_replicas
  /\ p \in {"wait_alive", "dispatch"} => e.local_version < e.global_tail
  /\ p \in {"bump_version", "store_version"} => e.local_version = e.global_tail
  /\ p \in ExecutePCs <=> e.caller # "none"

LocalsOK == \A r \in Replica : Locals(pc[r], ap[r], ah[r], ex[r], NumOps(r))

(* The invariant of control: with the locals right, what the circular      *)
(* buffer guarantees of its tokens says the rest.                          *)
ControlInv == ControlTypes /\ LocalsOK /\ CBP!IndInv /\ CBP!EntriesInv

(* The token of a combiner, given its control state. *)
View(p, a, h, e, n, v) ==
  CASE p = "cas_tail" -> CBP!AdvancingTail(a.head)
    [] p \in {"write_entry", "set_alive", "append_return"} ->
         CBP!Appending(a.tail + a.idx, a.tail + n)
    [] p \in {"find_min", "store_head"} /\ h.idx > 0 -> CBP!AdvancingHead(h.idx, h.min)
    [] p = "load_exec_tail" -> CBP!Starting(e.local_version)
    [] p \in {"wait_alive", "bump_version", "store_version"} ->
         CBP!Range(v, e.global_tail, e.local_version)
    [] p = "dispatch" -> CBP!Guard(v, e.global_tail, e.local_version)
    [] OTHER -> CBP!Idle

Token(r) == View(pc[r], ap[r], ah[r], ex[r], NumOps(r), local_versions[r])

LEMMA Tokens == interp_combiner = [r \in Replica |-> Token(r)]
<1>1. \A r \in Replica : interp_combiner[r] = Token(r)
  BY DEF interp_combiner, Token, View, cur_idx, new_tail, CBP!AdvancingTail, CBP!Appending,
         CBP!AdvancingHead, CBP!Starting, CBP!Range, CBP!Guard, CBP!Idle
<1>2. interp_combiner = [r \in Replica |-> interp_combiner[r]]
  BY DEF interp_combiner
<1> QED BY <1>1, <1>2

LEMMA TokensNext == interp_combiner' = [r \in Replica |-> Token(r)']
<1>1. (interp_combiner = [r \in Replica |-> Token(r)])'
  BY Tokens, PTL
<1> QED BY <1>1

(* The token, case by case. *)
LEMMA ViewCases ==
  ASSUME NEW p, NEW a, NEW h, NEW e, NEW n, NEW v
  PROVE  /\ p = "cas_tail" => View(p, a, h, e, n, v) = CBP!AdvancingTail(a.head)
         /\ p \in {"write_entry", "set_alive", "append_return"} =>
              View(p, a, h, e, n, v) = CBP!Appending(a.tail + a.idx, a.tail + n)
         /\ p \in {"find_min", "store_head"} /\ h.idx > 0 =>
              View(p, a, h, e, n, v) = CBP!AdvancingHead(h.idx, h.min)
         /\ p \in {"find_min", "store_head"} /\ ~(h.idx > 0) => View(p, a, h, e, n, v) = CBP!Idle
         /\ p = "load_exec_tail" => View(p, a, h, e, n, v) = CBP!Starting(e.local_version)
         /\ p \in {"wait_alive", "bump_version", "store_version"} =>
              View(p, a, h, e, n, v) = CBP!Range(v, e.global_tail, e.local_version)
         /\ p = "dispatch" => View(p, a, h, e, n, v) = CBP!Guard(v, e.global_tail, e.local_version)
         /\ p \in {"ready", "done", "panic", "load_tail", "load_head", "load_global_head",
                   "load_global_tail", "load_version"} => View(p, a, h, e, n, v) = CBP!Idle
<1>1. \A x : x \in {"find_min", "store_head"} =>
        x \notin {"write_entry", "set_alive", "append_return", "wait_alive", "bump_version",
                  "store_version", "cas_tail", "load_exec_tail", "dispatch"}
  OBVIOUS
<1> QED BY <1>1 DEF View

(* Batches are sequences that fit into the space the collector leaves.     *)
LEMMA BatchFits ==
  ASSUME NEW r \in Replica, NEW ops \in Batch(r)
  PROVE  /\ ops \in Seq(Op[r]) /\ ops \in Seq(AllOps)
         /\ Len(ops) \in Nat /\ Len(ops) <= MAX_REQUESTS /\ Len(ops) <= GC_FROM_HEAD
<1>1. PICK n \in 0 .. MAX_REQUESTS : ops \in [1 .. n -> Op[r]]
  BY DEF Batch
<1>2. n \in Nat /\ MAX_REQUESTS <= GC_FROM_HEAD /\ GC_FROM_HEAD \in Nat /\ MAX_REQUESTS \in Nat
  BY NrLogAssumption
<1>3. ops \in Seq(Op[r]) /\ Len(ops) = n
  BY <1>1, <1>2
<1>4. Op[r] \subseteq AllOps
  BY DEF AllOps
<1>5. ops \in Seq(AllOps)
  <2>1. ops \in [1 .. n -> AllOps]
    BY <1>1, <1>4
  <2> QED BY <1>2, <2>1
<1> QED BY <1>1, <1>2, <1>3, <1>5

(* What the types say of combiner r. *)
LEMMA Typed ==
  ASSUME ControlTypes, NEW r \in Replica
  PROVE  /\ head \in Nat /\ tail \in Nat /\ tail < MAX_IDX /\ MAX_IDX \in Nat
         /\ LOG_SIZE \in Nat \ {0} /\ GcThreshold \in Nat /\ num_replicas \in Nat \ {0}
         /\ GC_FROM_HEAD \in Nat /\ GC_FROM_HEAD <= LOG_SIZE /\ GcThreshold + GC_FROM_HEAD = LOG_SIZE
         /\ local_versions[r] \in Nat /\ version_upper_bound \in Nat
         /\ pc[r] \in PCs
         /\ ap[r].tail \in Nat /\ ap[r].head \in Nat /\ ap[r].idx \in Nat
         /\ ah[r].idx \in Nat /\ ah[r].min \in Nat
         /\ ex[r].local_version \in Nat /\ ex[r].global_tail \in Nat
         /\ NumOps(r) \in Nat /\ NumOps(r) <= MAX_REQUESTS /\ NumOps(r) <= GC_FROM_HEAD
<1>1. /\ head \in Nat /\ tail \in Nat /\ tail < MAX_IDX /\ MAX_IDX \in Nat
      /\ local_versions[r] \in Nat /\ version_upper_bound \in Nat /\ pc[r] \in PCs
      /\ num_replicas \in Nat \ {0}
  BY NrLogAssumption DEF ControlTypes
<1>2. /\ LOG_SIZE \in Nat \ {0} /\ GcThreshold \in Nat /\ GC_FROM_HEAD \in Nat
      /\ GC_FROM_HEAD <= LOG_SIZE /\ GcThreshold + GC_FROM_HEAD = LOG_SIZE
  BY NrLogAssumption DEF GcThreshold
<1>3. /\ ap[r].tail \in Nat /\ ap[r].head \in Nat /\ ap[r].idx \in Nat
  BY NrLogAssumption DEF ControlTypes, Appends
<1>4. ah[r].idx \in Nat /\ ah[r].min \in Nat
  BY NrLogAssumption DEF ControlTypes, Advances
<1>5. ex[r].local_version \in Nat /\ ex[r].global_tail \in Nat
  BY NrLogAssumption DEF ControlTypes, Executes
<1>6. NumOps(r) \in Nat /\ NumOps(r) <= MAX_REQUESTS /\ NumOps(r) <= GC_FROM_HEAD
  BY BatchFits DEF ControlTypes, NumOps
<1> QED BY <1>1, <1>2, <1>3, <1>4, <1>5, <1>6

(* What the circular buffer guarantees of the token of r, in terms of the  *)
(* locals of r.                                                            *)
LEMMA Guaranteed ==
  ASSUME ControlInv, NEW r \in Replica
  PROVE  /\ head <= local_versions[r] /\ local_versions[r] <= tail
         /\ tail <= local_versions[r] + LOG_SIZE
         /\ pc[r] = "load_exec_tail" => ex[r].local_version = local_versions[r]
         /\ pc[r] \in {"wait_alive", "dispatch", "bump_version", "store_version"} =>
              /\ local_versions[r] <= ex[r].local_version
              /\ ex[r].local_version <= ex[r].global_tail
              /\ ex[r].global_tail <= tail
         /\ pc[r] \in {"write_entry", "set_alive", "append_return"} =>
              /\ local_versions[r] <= ap[r].tail + ap[r].idx
              /\ ap[r].tail + NumOps(r) <= tail
<1>1. r \in CBP!Replica
  BY DEF CBP!Replica, Replica
<1>2. CBP!pointer_ordering /\ CBP!reader_state_valid(r) /\ CBP!combiner_valid(r)
  BY <1>1 DEF ControlInv, CBP!IndInv, CBP!LoadedValid
<1>3. interp_combiner[r] = Token(r)
  BY Tokens
<1>4. /\ head <= local_versions[r] /\ local_versions[r] <= tail
      /\ tail <= local_versions[r] + LOG_SIZE
  BY <1>1, <1>2 DEF CBP!pointer_ordering
<1>5. CASE pc[r] = "load_exec_tail"
  <2>1. interp_combiner[r] = CBP!Starting(ex[r].local_version)
    BY <1>3, <1>5, ViewCases DEF Token
  <2> QED BY <1>2, <1>4, <1>5, <2>1 DEF CBP!reader_state_valid, CBP!Starting
<1>6. CASE pc[r] \in {"wait_alive", "dispatch", "bump_version", "store_version"}
  <2>1. \/ interp_combiner[r] = CBP!Range(local_versions[r], ex[r].global_tail, ex[r].local_version)
        \/ interp_combiner[r] = CBP!Guard(local_versions[r], ex[r].global_tail, ex[r].local_version)
    BY <1>3, <1>6, ViewCases DEF Token
  <2> QED BY <1>2, <1>4, <1>6, <2>1 DEF CBP!reader_state_valid, CBP!Range, CBP!Guard
<1>7. CASE pc[r] \in {"write_entry", "set_alive", "append_return"}
  <2>1. interp_combiner[r] = CBP!Appending(ap[r].tail + ap[r].idx, ap[r].tail + NumOps(r))
    BY <1>3, <1>7, ViewCases DEF Token
  <2> QED BY <1>2, <1>4, <1>7, <2>1 DEF CBP!combiner_valid, CBP!Appending
<1> QED BY <1>4, <1>5, <1>6, <1>7

-----------------------------------------------------------------------------
(* One combiner's step *)

(* The other combiners stay where they are. *)
Others(r) ==
  \A s \in Replica \ {r} :
     /\ pc'[s] = pc[s] /\ ap'[s] = ap[s] /\ ah'[s] = ah[s] /\ ex'[s] = ex[s]
     /\ operations'[s] = operations[s] /\ local_versions'[s] = local_versions[s]

(* Only the token of r moves. *)
LEMMA TokenMoves ==
  ASSUME NEW r \in Replica, Others(r)
  PROVE  CBP!Become(r, Token(r)')
<1>1. ASSUME NEW s \in Replica \ {r} PROVE Token(s)' = Token(s)
  BY <1>1 DEF Others, Token, NumOps
<1>2. interp_combiner' = [s \in Replica |-> Token(s)']
  BY TokensNext
<1>3. interp_combiner = [s \in Replica |-> Token(s)]
  BY Tokens
<1> HIDE DEF Token
<1>4. interp_combiner' = [interp_combiner EXCEPT ![r] = Token(r)']
  BY <1>1, <1>2, <1>3
<1> QED BY <1>4 DEF CBP!Become

LEMMA ContentsKept ==
  ASSUME NEW r \in Replica, Others(r), tail' = tail, Filling(r)' = Filling(r)
  PROVE  interp_contents' = interp_contents
<1>1. ASSUME NEW s \in Replica PROVE Filling(s)' = Filling(s)
  BY <1>1 DEF Others, Filling, cur_idx, new_tail, NumOps
<1> HIDE DEF Filling
<1> QED BY <1>1 DEF interp_contents

(* A step that neither begins nor ends in the middle of an append, and     *)
(* leaves the shared state alone, is at most a move of a token.            *)
LEMMA JustTheToken ==
  ASSUME NEW r \in Replica, Others(r), UNCHANGED <<slog, head, tail>>,
         pc[r] \notin {"write_entry", "set_alive"}, pc'[r] \notin {"write_entry", "set_alive"}
  PROVE  /\ CBP!Become(r, Token(r)')
         /\ UNCHANGED <<interp_contents, interp_alive_bits>>
<1>1. Filling(r)' = Filling(r)
  BY DEF Filling
<1>2. interp_alive_bits' = interp_alive_bits
  BY DEF interp_alive_bits
<1> QED BY <1>1, <1>2, TokenMoves, ContentsKept

(* If the token stays the same, the circular buffer does not see the step. *)
LEMMA Unseen ==
  ASSUME NEW r \in Replica, Others(r), UNCHANGED <<slog, head, tail, local_versions>>,
         pc[r] \notin {"write_entry", "set_alive"}, pc'[r] \notin {"write_entry", "set_alive"},
         Token(r)' = Token(r)
  PROVE  UNCHANGED CBP!vars
<1>1. CBP!Become(r, Token(r)') /\ UNCHANGED <<interp_contents, interp_alive_bits>>
  BY JustTheToken
<1>2. interp_combiner[r] = Token(r) /\ interp_combiner = [s \in Replica |-> interp_combiner[s]]
  BY Tokens
<1>3. interp_combiner' = interp_combiner
  BY <1>1, <1>2 DEF CBP!Become
<1> QED BY <1>1, <1>3 DEF CBP!vars

(* Two places where a combiner has no token to speak of. *)
LEMMA IdleStep ==
  ASSUME NEW r \in Replica, Others(r), UNCHANGED <<slog, head, tail, local_versions>>,
         pc[r] \in {"ready", "done", "panic", "load_tail", "load_head", "load_global_head",
                    "load_global_tail", "load_version"},
         \/ pc'[r] \in {"ready", "done", "panic", "load_tail", "load_head", "load_global_head",
                        "load_global_tail", "load_version"}
         \/ pc'[r] \in {"find_min", "store_head"} /\ ah'[r].idx = 0
  PROVE  UNCHANGED CBP!vars
<1>1. Token(r) = CBP!Idle
  BY ViewCases DEF Token
<1>2. Token(r)' = CBP!Idle
  <2>1. /\ pc'[r] \in {"ready", "done", "panic", "load_tail", "load_head", "load_global_head",
                       "load_global_tail", "load_version"}
             => View(pc'[r], ap'[r], ah'[r], ex'[r], NumOps(r)', local_versions'[r]) = CBP!Idle
        /\ pc'[r] \in {"find_min", "store_head"} /\ ~(ah'[r].idx > 0)
             => View(pc'[r], ap'[r], ah'[r], ex'[r], NumOps(r)', local_versions'[r]) = CBP!Idle
    BY ViewCases
  <2> QED BY <2>1 DEF Token
<1> QED BY <1>1, <1>2, Unseen

(* What a step does to the control state of r preserves the control state's *)
(* invariant if it is right for r. *)
LEMMA LocalsFrame ==
  ASSUME NEW r \in Replica, LocalsOK, Others(r), Locals(pc'[r], ap'[r], ah'[r], ex'[r], NumOps(r)')
  PROVE  LocalsOK'
<1> SUFFICES ASSUME NEW s \in Replica
             PROVE  Locals(pc'[s], ap'[s], ah'[s], ex'[s], NumOps(s)')
  BY DEF LocalsOK, Locals, GcThreshold
<1>1. CASE s = r
  BY <1>1
<1>2. CASE s # r
  <2>1. NumOps(s)' = NumOps(s) /\ Locals(pc[s], ap[s], ah[s], ex[s], NumOps(s))
    BY <1>2 DEF Others, NumOps, LocalsOK
  <2> QED BY <1>2, <2>1 DEF Others
<1> QED BY <1>1, <1>2

(* Types of what is assigned to locals. *)
LEMMA LocalTypes ==
  ASSUME ControlTypes, NEW r \in Replica, NEW i \in 0 .. MAX_IDX
  PROVE  /\ NoAppend \in Appends /\ NoAdvance \in Advances /\ NoExecute \in Executes
         /\ \A c \in {"load_tail", "load_global_head", "done"} :
               [NoExecute EXCEPT !.caller = c] \in Executes
         /\ [ap EXCEPT ![r].tail = i] \in [Replica -> Appends]
         /\ [ap EXCEPT ![r].head = i] \in [Replica -> Appends]
         /\ [ah EXCEPT ![r].global_head = i] \in [Replica -> Advances]
         /\ [ah EXCEPT ![r].global_tail = i] \in [Replica -> Advances]
         /\ [ex EXCEPT ![r].local_version = i] \in [Replica -> Executes]
         /\ [ex EXCEPT ![r].global_tail = i] \in [Replica -> Executes]
<1>1. 0 \in 0 .. MAX_IDX /\ 0 \in 0 .. MAX_REQUESTS /\ 0 \in 0 .. num_replicas
  BY NrLogAssumption
<1>2. NoAppend \in Appends /\ NoAdvance \in Advances /\ NoExecute \in Executes
  BY <1>1 DEF NoAppend, NoAdvance, NoExecute, Appends, Advances, Executes
<1>3. \A c \in {"load_tail", "load_global_head", "done"} : [NoExecute EXCEPT !.caller = c] \in Executes
  BY <1>1 DEF NoExecute, Executes
<1>4. ap \in [Replica -> Appends] /\ ah \in [Replica -> Advances] /\ ex \in [Replica -> Executes]
  BY DEF ControlTypes
<1>5. [ap EXCEPT ![r].tail = i] \in [Replica -> Appends]
  BY <1>4 DEF Appends
<1>6. [ap EXCEPT ![r].head = i] \in [Replica -> Appends]
  BY <1>4 DEF Appends
<1>7. [ah EXCEPT ![r].global_head = i] \in [Replica -> Advances]
  BY <1>4 DEF Advances
<1>8. [ah EXCEPT ![r].global_tail = i] \in [Replica -> Advances]
  BY <1>4 DEF Advances
<1>9. [ex EXCEPT ![r].local_version = i] \in [Replica -> Executes]
  BY <1>4 DEF Executes
<1>10. [ex EXCEPT ![r].global_tail = i] \in [Replica -> Executes]
  BY <1>4 DEF Executes
<1> QED BY <1>2, <1>3, <1>5, <1>6, <1>7, <1>8, <1>9, <1>10

LEMMA Indices ==
  ASSUME ControlTypes
  PROVE  head \in 0 .. MAX_IDX /\ tail \in 0 .. MAX_IDX
         /\ \A r \in Replica : local_versions[r] \in 0 .. MAX_IDX
BY NrLogAssumption DEF ControlTypes

(* A combiner that neither appends nor reads: where its token is idle.     *)
LEMMA QuietControl ==
  ASSUME ControlInv, NEW r \in Replica,
         \/ \E ops \in Batch(r) : append_start(r, ops)
         \/ LoadTail(r) \/ LoadHead_Wait(r) \/ WarnTailTooBig(r)
         \/ LoadGlobalHead(r) \/ LoadGlobalTail(r) \/ finish(r)
  PROVE  ControlTypes' /\ LocalsOK' /\ UNCHANGED CBP!vars
<1>1. ControlTypes /\ LocalsOK /\ Locals(pc[r], ap[r], ah[r], ex[r], NumOps(r))
  BY DEF ControlInv, LocalsOK
<1>2. CASE \E ops \in Batch(r) : append_start(r, ops)
  <2>1. PICK ops \in Batch(r) : append_start(r, ops)
    BY <1>2
  <2>2. ops \in Seq(AllOps)
    BY BatchFits
  <2>3. /\ pc[r] = "ready" /\ pc' = [pc EXCEPT ![r] = "load_tail"]
        /\ operations' = [operations EXCEPT ![r] = ops]
        /\ UNCHANGED <<shared, ap, ah, ex>>
    BY <2>1 DEF append_start, At, Goto
  <2>4. ControlTypes'
    BY <1>1, <2>2, <2>3 DEF ControlTypes, shared, PCs, AppendPCs
  <2>5. Others(r) /\ pc'[r] = "load_tail"
    BY <1>1, <2>3 DEF ControlTypes, Others, shared
  <2>6. Locals(pc'[r], ap'[r], ah'[r], ex'[r], NumOps(r)')
    BY <1>1, <2>3, <2>5 DEF Locals, ExecutePCs, LoopPCs
  <2>7. UNCHANGED CBP!vars
    BY <2>3, <2>5, IdleStep DEF shared
  <2> QED BY <1>1, <2>4, <2>5, <2>6, <2>7, LocalsFrame
<1>3. CASE LoadTail(r)
  <2>1. /\ pc[r] = "load_tail" /\ pc' = [pc EXCEPT ![r] = "load_head"]
        /\ ap' = [ap EXCEPT ![r].tail = tail]
        /\ UNCHANGED <<shared, operations, ah, ex>>
    BY <1>3 DEF LoadTail, At, Goto
  <2>2. ControlTypes'
    BY <1>1, <2>1, LocalTypes, Indices DEF ControlTypes, shared, PCs, AppendPCs
  <2>3. /\ Others(r) /\ pc'[r] = "load_head" /\ ap'[r].idx = ap[r].idx /\ NumOps(r)' = NumOps(r)
    BY <1>1, <2>1 DEF ControlTypes, Others, shared, NumOps
  <2>4. Locals(pc'[r], ap'[r], ah'[r], ex'[r], NumOps(r)')
    BY <1>1, <2>1, <2>3 DEF Locals, ExecutePCs, LoopPCs
  <2>5. UNCHANGED CBP!vars
    BY <2>1, <2>3, IdleStep DEF shared
  <2> QED BY <1>1, <2>2, <2>3, <2>4, <2>5, LocalsFrame
<1>4. CASE LoadHead_Wait(r)
  <2>1. /\ pc[r] = "load_head" /\ pc' = [pc EXCEPT ![r] = "load_version"]
        /\ ap' = [ap EXCEPT ![r] = NoAppend]
        /\ ex' = [ex EXCEPT ![r] = [NoExecute EXCEPT !.caller = "load_tail"]]
        /\ UNCHANGED <<shared, operations, ah>>
    BY <1>4 DEF LoadHead_Wait, At, Goto, CallExecute
  <2>2. ControlTypes'
    <3> DEFINE e == [NoExecute EXCEPT !.caller = "load_tail"]
    <3>1. NoAppend \in Appends /\ e \in Executes
      BY <1>1, LocalTypes, Indices
    <3>2. ex' = [ex EXCEPT ![r] = e]
      BY <2>1
    <3> HIDE DEF e
    <3> QED BY <1>1, <2>1, <3>1, <3>2 DEF ControlTypes, shared, PCs, ExecutePCs
  <2>3. /\ Others(r) /\ pc'[r] = "load_version" /\ ap'[r].idx = 0 /\ ex'[r].caller = "load_tail"
    BY <1>1, <2>1 DEF ControlTypes, Others, shared, NoAppend, NoExecute
  <2>4. Locals(pc'[r], ap'[r], ah'[r], ex'[r], NumOps(r)')
    BY <1>1, <2>1, <2>3 DEF Locals, ExecutePCs, LoopPCs
  <2>5. UNCHANGED CBP!vars
    BY <2>1, <2>3, IdleStep DEF shared
  <2> QED BY <1>1, <2>2, <2>3, <2>4, <2>5, LocalsFrame
<1>5. CASE WarnTailTooBig(r)
  <2>1. UNCHANGED vars
    BY <1>5 DEF WarnTailTooBig
  <2>2. ControlTypes' /\ Others(r) /\ pc[r] = "panic" /\ pc'[r] = "panic"
    BY <1>1, <1>5, <2>1 DEF vars, shared, ControlTypes, Others, WarnTailTooBig, At
  <2>3. Locals(pc'[r], ap'[r], ah'[r], ex'[r], NumOps(r)')
    BY <1>1, <2>1 DEF vars, NumOps
  <2>4. UNCHANGED CBP!vars
    BY <2>1, <2>2, IdleStep DEF vars, shared
  <2> QED BY <1>1, <2>2, <2>3, <2>4, LocalsFrame
<1>6. CASE LoadGlobalHead(r)
  <2>1. /\ pc[r] = "load_global_head" /\ pc' = [pc EXCEPT ![r] = "load_global_tail"]
        /\ ah' = [ah EXCEPT ![r].global_head = head]
        /\ UNCHANGED <<shared, operations, ap, ex>>
    BY <1>6 DEF LoadGlobalHead, At, Goto
  <2>2. ControlTypes'
    BY <1>1, <2>1, LocalTypes, Indices DEF ControlTypes, shared, PCs, AdvancePCs
  <2>3. Others(r) /\ pc'[r] = "load_global_tail" /\ ah'[r].idx = ah[r].idx /\ NumOps(r)' = NumOps(r)
    BY <1>1, <2>1 DEF ControlTypes, Others, shared, NumOps
  <2>4. Locals(pc'[r], ap'[r], ah'[r], ex'[r], NumOps(r)')
    BY <1>1, <2>1, <2>3 DEF Locals, ExecutePCs, LoopPCs
  <2>5. UNCHANGED CBP!vars
    BY <2>1, <2>3, IdleStep DEF shared
  <2> QED BY <1>1, <2>2, <2>3, <2>4, <2>5, LocalsFrame
<1>7. CASE LoadGlobalTail(r)
  <2>1. /\ pc[r] = "load_global_tail" /\ pc' = [pc EXCEPT ![r] = "find_min"]
        /\ ah' = [ah EXCEPT ![r].global_tail = tail]
        /\ UNCHANGED <<shared, operations, ap, ex>>
    BY <1>7 DEF LoadGlobalTail, At, Goto
  <2>2. ControlTypes'
    BY <1>1, <2>1, LocalTypes, Indices DEF ControlTypes, shared, PCs, AdvancePCs
  <2>3. /\ Others(r) /\ pc'[r] = "find_min" /\ ah'[r].idx = ah[r].idx /\ NumOps(r)' = NumOps(r)
        /\ num_replicas > 0
    BY <1>1, <2>1, NrLogAssumption DEF ControlTypes, Others, shared, NumOps
  <2>4. Locals(pc'[r], ap'[r], ah'[r], ex'[r], NumOps(r)') /\ ah'[r].idx = 0
    BY <1>1, <2>1, <2>3 DEF Locals, ExecutePCs, LoopPCs
  <2>5. UNCHANGED CBP!vars
    BY <2>1, <2>3, <2>4, IdleStep DEF shared
  <2> QED BY <1>1, <2>2, <2>3, <2>4, <2>5, LocalsFrame
<1>8. CASE finish(r)
  <2>1. /\ pc[r] = "done" /\ pc' = [pc EXCEPT ![r] = "ready"]
        /\ operations' = [operations EXCEPT ![r] = << >>]
        /\ UNCHANGED <<shared, ap, ah, ex>>
    BY <1>8 DEF finish, At, Goto
  <2>2. << >> \in Batch(r) /\ << >> \in Seq(AllOps)
    <3>1. << >> \in [1 .. 0 -> Op[r]] /\ 0 \in 0 .. MAX_REQUESTS
      BY NrLogAssumption
    <3>2. << >> \in Seq(AllOps)
      OBVIOUS
    <3> QED BY <3>1, <3>2 DEF Batch
  <2>3. ControlTypes'
    BY <1>1, <2>1, <2>2 DEF ControlTypes, shared, PCs
  <2>4. Others(r) /\ pc'[r] = "ready"
    BY <1>1, <2>1 DEF ControlTypes, Others, shared
  <2>5. Locals(pc'[r], ap'[r], ah'[r], ex'[r], NumOps(r)')
    BY <1>1, <2>1, <2>4 DEF Locals, ExecutePCs, LoopPCs
  <2>6. UNCHANGED CBP!vars
    BY <2>1, <2>4, IdleStep DEF shared
  <2> QED BY <1>1, <2>3, <2>4, <2>5, <2>6, LocalsFrame
<1> QED BY <1>2, <1>3, <1>4, <1>5, <1>6, <1>7, <1>8

(* The token that goes with where a combiner is. *)
TokenFits(r) ==
  /\ interp_combiner[r] = Token(r)
  /\ pc[r] = "cas_tail" => Token(r) = CBP!AdvancingTail(ap[r].head)
  /\ pc[r] \in {"write_entry", "set_alive", "append_return"} =>
       Token(r) = CBP!Appending(ap[r].tail + ap[r].idx, ap[r].tail + NumOps(r))
  /\ pc[r] \in {"find_min", "store_head"} /\ ah[r].idx > 0 =>
       Token(r) = CBP!AdvancingHead(ah[r].idx, ah[r].min)
  /\ pc[r] \in {"find_min", "store_head"} /\ ~(ah[r].idx > 0) => Token(r) = CBP!Idle
  /\ pc[r] = "load_exec_tail" => Token(r) = CBP!Starting(ex[r].local_version)
  /\ pc[r] \in {"wait_alive", "bump_version", "store_version"} =>
       Token(r) = CBP!Range(local_versions[r], ex[r].global_tail, ex[r].local_version)
  /\ pc[r] = "dispatch" =>
       Token(r) = CBP!Guard(local_versions[r], ex[r].global_tail, ex[r].local_version)
  /\ pc[r] \in {"ready", "done", "panic", "load_tail", "load_head", "load_global_head",
                "load_global_tail", "load_version"} => Token(r) = CBP!Idle

LEMMA TokenNow ==
  ASSUME NEW r \in Replica
  PROVE  TokenFits(r)
<1>1. interp_combiner[r] = Token(r)
  BY Tokens
<1> DEFINE p == pc[r]  a == ap[r]  h == ah[r]  e == ex[r]  n == NumOps(r)  v == local_versions[r]
<1>2. Token(r) = View(p, a, h, e, n, v)
  BY DEF Token
<1> SUFFICES
      /\ p = "cas_tail" => View(p, a, h, e, n, v) = CBP!AdvancingTail(a.head)
      /\ p \in {"write_entry", "set_alive", "append_return"} =>
           View(p, a, h, e, n, v) = CBP!Appending(a.tail + a.idx, a.tail + n)
      /\ p \in {"find_min", "store_head"} /\ h.idx > 0 =>
           View(p, a, h, e, n, v) = CBP!AdvancingHead(h.idx, h.min)
      /\ p \in {"find_min", "store_head"} /\ ~(h.idx > 0) => View(p, a, h, e, n, v) = CBP!Idle
      /\ p = "load_exec_tail" => View(p, a, h, e, n, v) = CBP!Starting(e.local_version)
      /\ p \in {"wait_alive", "bump_version", "store_version"} =>
           View(p, a, h, e, n, v) = CBP!Range(v, e.global_tail, e.local_version)
      /\ p = "dispatch" => View(p, a, h, e, n, v) = CBP!Guard(v, e.global_tail, e.local_version)
      /\ p \in {"ready", "done", "panic", "load_tail", "load_head", "load_global_head",
                "load_global_tail", "load_version"} => View(p, a, h, e, n, v) = CBP!Idle
  BY <1>1, <1>2, Zenon DEF TokenFits
<1> HIDE DEF p, a, h, e, n, v
<1> QED BY ViewCases, Zenon

LEMMA TokenNext ==
  ASSUME NEW r \in Replica
  PROVE  TokenFits(r)'
<1>1. TokenFits(r)
  BY TokenNow
<1> QED BY <1>1, PTL

(* The steps of execute. *)
LEMMA ReaderControl ==
  ASSUME ControlInv, NEW r \in Replica, execute(r)
  PROVE  /\ ControlTypes' /\ LocalsOK'
         /\ \/ CBP!reader_start(r) \/ CBP!reader_enter(r) \/ CBP!reader_guard(r)
            \/ CBP!reader_unguard(r) \/ CBP!reader_finish(r) \/ CBP!reader_abort(r)
            \/ UNCHANGED CBP!vars
<1>0. /\ ControlTypes /\ LocalsOK /\ Locals(pc[r], ap[r], ah[r], ex[r], NumOps(r))
      /\ TokenFits(r) /\ TokenFits(r)'
  BY TokenNow, TokenNext DEF ControlInv, LocalsOK
<1>1. CASE LoadLocalVersion(r)
  <2>1. /\ pc[r] = "load_version" /\ pc' = [pc EXCEPT ![r] = "load_exec_tail"]
        /\ ex' = [ex EXCEPT ![r].local_version = local_versions[r]]
        /\ UNCHANGED <<shared, operations, ap, ah>>
    BY <1>1 DEF LoadLocalVersion, At, Goto
  <2>2. ControlTypes'
    BY <1>0, <2>1, LocalTypes, Indices DEF ControlTypes, shared, PCs, ExecutePCs
  <2>3. /\ Others(r) /\ pc'[r] = "load_exec_tail" /\ NumOps(r)' = NumOps(r)
        /\ ex'[r].local_version = local_versions[r] /\ ex'[r].caller = ex[r].caller
    BY <1>0, <2>1 DEF ControlTypes, Others, shared, NumOps, Executes
  <2>4. Locals(pc'[r], ap'[r], ah'[r], ex'[r], NumOps(r)')
    BY <1>0, <2>1, <2>3 DEF Locals, ExecutePCs, LoopPCs
  <2>5. interp_combiner[r] = CBP!Idle /\ Token(r)' = CBP!Starting(local_versions[r])
    BY <1>0, <2>1, <2>3 DEF TokenFits
  <2>6. CBP!reader_start(r)
    BY <2>1, <2>3, <2>5, JustTheToken DEF CBP!reader_start, CBP!In, CBP!Idle, shared
  <2> QED BY <1>0, <2>2, <2>3, <2>4, <2>6, LocalsFrame
<1>2. CASE LoadExecTail_NoWork(r)
  <2> DEFINE c == ex[r].caller
  <2>1. /\ pc[r] = "load_exec_tail" /\ pc' = [pc EXCEPT ![r] = c]
        /\ ex' = [ex EXCEPT ![r] = NoExecute]
        /\ UNCHANGED <<shared, operations, ap, ah>>
    BY <1>2 DEF LoadExecTail_NoWork, ReturnFromExecute, At, Goto
  <2>2. c \in {"load_tail", "load_global_head", "done"}
    BY <1>0, <2>1 DEF ControlTypes, Executes, Locals, ExecutePCs
  <2>3. ControlTypes'
    <3>1. NoExecute \in Executes /\ c \in PCs
      BY <1>0, <2>2, LocalTypes, Indices DEF PCs, AppendPCs, AdvancePCs
    <3> QED BY <1>0, <2>1, <3>1 DEF ControlTypes, shared
  <2>4. Others(r) /\ pc'[r] = c /\ NumOps(r)' = NumOps(r) /\ ex'[r] = NoExecute
    BY <1>0, <2>1 DEF ControlTypes, Others, shared, NumOps
  <2>5. Locals(pc'[r], ap'[r], ah'[r], ex'[r], NumOps(r)')
    BY <1>0, <2>1, <2>2, <2>4 DEF Locals, ExecutePCs, LoopPCs, NoExecute
  <2>6. interp_combiner[r] = CBP!Starting(ex[r].local_version) /\ Token(r)' = CBP!Idle
    BY <1>0, <2>1, <2>2, <2>4 DEF TokenFits
  <2>7. CBP!reader_abort(r)
    <3>1. CBP!Become(r, Token(r)') /\ UNCHANGED <<interp_contents, interp_alive_bits>>
      BY <2>1, <2>2, <2>4, JustTheToken DEF shared
    <3> QED BY <2>1, <2>6, <3>1 DEF CBP!reader_abort, CBP!In, CBP!Starting, shared
  <2> QED BY <1>0, <2>3, <2>4, <2>5, <2>7, LocalsFrame
<1>3. CASE LoadExecTail_Work(r)
  <2>1. /\ pc[r] = "load_exec_tail" /\ pc' = [pc EXCEPT ![r] = "wait_alive"]
        /\ ex[r].local_version # tail
        /\ ex' = [ex EXCEPT ![r].global_tail = tail]
        /\ UNCHANGED <<shared, operations, ap, ah>>
    BY <1>3 DEF LoadExecTail_Work, At, Goto
  <2>2. ControlTypes'
    BY <1>0, <2>1, LocalTypes, Indices DEF ControlTypes, shared, PCs, ExecutePCs, LoopPCs
  <2>3. /\ Others(r) /\ pc'[r] = "wait_alive" /\ NumOps(r)' = NumOps(r)
        /\ ex'[r].local_version = ex[r].local_version /\ ex'[r].caller = ex[r].caller
        /\ ex'[r].global_tail = tail
    BY <1>0, <2>1 DEF ControlTypes, Others, shared, NumOps, Executes
  <2>4. ex[r].local_version < tail /\ ex[r].local_version = local_versions[r]
    <3>1. local_versions[r] \in Nat /\ tail \in Nat
      BY <1>0, Typed
    <3> QED BY <2>1, <3>1, Guaranteed
  <2>5. Locals(pc'[r], ap'[r], ah'[r], ex'[r], NumOps(r)')
    BY <1>0, <2>1, <2>3, <2>4 DEF Locals, ExecutePCs, LoopPCs
  <2>6. /\ interp_combiner[r] = CBP!Starting(local_versions[r])
        /\ Token(r)' = CBP!Range(local_versions[r], tail, local_versions[r])
    BY <1>0, <2>1, <2>3, <2>4 DEF TokenFits, shared
  <2>7. CBP!reader_enter(r)
    BY <2>1, <2>3, <2>6, JustTheToken DEF CBP!reader_enter, CBP!In, CBP!Starting, shared
  <2> QED BY <1>0, <2>2, <2>3, <2>5, <2>7, LocalsFrame
<1>4. CASE WaitAlive(r)
  <2>1. /\ pc[r] = "wait_alive" /\ pc' = [pc EXCEPT ![r] = "dispatch"]
        /\ alive(ex[r].local_version)
        /\ UNCHANGED <<shared, operations, ap, ah, ex>>
    BY <1>4 DEF WaitAlive, At, Goto
  <2>2. ControlTypes'
    BY <1>0, <2>1 DEF ControlTypes, shared, PCs, ExecutePCs, LoopPCs
  <2>3. Others(r) /\ pc'[r] = "dispatch" /\ NumOps(r)' = NumOps(r)
    BY <1>0, <2>1 DEF ControlTypes, Others, shared, NumOps
  <2>4. Locals(pc'[r], ap'[r], ah'[r], ex'[r], NumOps(r)')
    BY <1>0, <2>1, <2>3 DEF Locals, ExecutePCs, LoopPCs
  <2>5. /\ interp_combiner[r] = CBP!Range(local_versions[r], ex[r].global_tail, ex[r].local_version)
        /\ Token(r)' = CBP!Guard(local_versions[r], ex[r].global_tail, ex[r].local_version)
    BY <1>0, <2>1, <2>3 DEF TokenFits, shared
  <2>6. CBP!log_entry_is_alive(ex[r].local_version) /\ ex[r].local_version < ex[r].global_tail
    <3>1. ex[r].local_version \in Int /\ index(ex[r].local_version) \in 0 .. LOG_SIZE - 1
      BY <1>0, Typed, CBP!Remainder, BufferAssumption DEF index, CBP!log_entry_idx
    <3> QED BY <1>0, <2>1, <3>1
            DEF alive, CBP!log_entry_is_alive, CBP!log_entry_idx, CBP!log_entry_alive_value,
                interp_alive_bits, index, is_alive_value, Locals
  <2>7. CBP!reader_guard(r)
    BY <2>1, <2>3, <2>5, <2>6, JustTheToken DEF CBP!reader_guard, CBP!In, CBP!Range, shared
  <2> QED BY <1>0, <2>2, <2>3, <2>4, <2>7, LocalsFrame
<1>5. CASE DispatchEntry(r)
  <2> DEFINE p == IF ex[r].local_version + 1 < ex[r].global_tail THEN "wait_alive" ELSE "bump_version"
             i == ex[r].local_version + 1
  <2>1. /\ pc[r] = "dispatch" /\ pc' = [pc EXCEPT ![r] = p]
        /\ ex' = [ex EXCEPT ![r].local_version = @ + 1]
        /\ UNCHANGED <<shared, operations, ap, ah>>
    BY <1>5 DEF DispatchEntry, At, Goto
  <2>2. /\ ex[r].local_version \in Nat /\ ex[r].global_tail \in Nat /\ tail \in Nat /\ MAX_IDX \in Nat
        /\ ex[r].local_version < ex[r].global_tail /\ ex[r].global_tail <= tail /\ tail < MAX_IDX
    BY <1>0, <2>1, Typed, Guaranteed DEF Locals
  <2>3. i \in 0 .. MAX_IDX /\ ex' = [ex EXCEPT ![r].local_version = i]
    BY <1>0, <2>1, <2>2 DEF ControlTypes, Executes
  <2>4. ControlTypes'
    <3>1. ex' \in [Replica -> Executes]
      <4> HIDE DEF i
      <4> QED BY <1>0, <2>3, LocalTypes
    <3> QED BY <1>0, <2>1, <3>1 DEF ControlTypes, shared, PCs, ExecutePCs, LoopPCs
  <2>5. /\ Others(r) /\ pc'[r] = p /\ NumOps(r)' = NumOps(r) /\ p \in {"wait_alive", "bump_version"}
        /\ ex'[r].local_version = i /\ ex'[r].caller = ex[r].caller
        /\ ex'[r].global_tail = ex[r].global_tail
    BY <1>0, <2>1 DEF ControlTypes, Others, shared, NumOps, Executes
  <2>6. Locals(pc'[r], ap'[r], ah'[r], ex'[r], NumOps(r)')
    BY <1>0, <2>1, <2>2, <2>5 DEF Locals, ExecutePCs, LoopPCs
  <2>7. /\ interp_combiner[r] = CBP!Guard(local_versions[r], ex[r].global_tail, ex[r].local_version)
        /\ Token(r)' = CBP!Range(local_versions[r], ex[r].global_tail, i)
    <3> HIDE DEF p, i
    <3> QED BY <1>0, <2>1, <2>5 DEF TokenFits, shared
  <2>8. CBP!reader_unguard(r)
    <3>1. CBP!Become(r, Token(r)') /\ UNCHANGED <<interp_contents, interp_alive_bits>>
      BY <2>1, <2>5, JustTheToken DEF shared
    <3> QED BY <2>1, <2>7, <3>1 DEF CBP!reader_unguard, CBP!In, CBP!Guard, shared
  <2> QED BY <1>0, <2>4, <2>5, <2>6, <2>8, LocalsFrame
<1>6. CASE BumpVersionUpperBound(r)
  <2>1. /\ pc[r] = "bump_version" /\ pc' = [pc EXCEPT ![r] = "store_version"]
        /\ version_upper_bound' \in {ex[r].global_tail, version_upper_bound}
        /\ UNCHANGED <<slog, head, tail, local_versions, operations, ap, ah, ex>>
    BY <1>6 DEF BumpVersionUpperBound, At, Goto
  <2>2. ControlTypes'
    BY <1>0, <2>1 DEF ControlTypes, PCs, ExecutePCs, LoopPCs, Executes
  <2>3. Others(r) /\ pc'[r] = "store_version" /\ NumOps(r)' = NumOps(r)
    BY <1>0, <2>1 DEF ControlTypes, Others, NumOps
  <2>4. Locals(pc'[r], ap'[r], ah'[r], ex'[r], NumOps(r)')
    BY <1>0, <2>1, <2>3 DEF Locals, ExecutePCs, LoopPCs
  <2>5. Token(r)' = Token(r)
    BY <1>0, <2>1, <2>3 DEF TokenFits
  <2>6. UNCHANGED CBP!vars
    BY <2>1, <2>3, <2>5, Unseen
  <2> QED BY <1>0, <2>2, <2>3, <2>4, <2>6, LocalsFrame
<1>7. CASE StoreLocalVersion(r)
  <2> DEFINE c == ex[r].caller
  <2>1. /\ pc[r] = "store_version" /\ pc' = [pc EXCEPT ![r] = c]
        /\ ex' = [ex EXCEPT ![r] = NoExecute]
        /\ local_versions' = [local_versions EXCEPT ![r] = ex[r].global_tail]
        /\ UNCHANGED <<slog, head, tail, version_upper_bound, operations, ap, ah>>
    BY <1>7 DEF StoreLocalVersion, ReturnFromExecute, At, Goto
  <2>2. c \in {"load_tail", "load_global_head", "done"} /\ ex[r].local_version = ex[r].global_tail
    BY <1>0, <2>1 DEF ControlTypes, Executes, Locals, ExecutePCs, LoopPCs
  <2>3. ControlTypes'
    <3>1. NoExecute \in Executes /\ c \in PCs /\ ex[r].global_tail \in 0 .. MAX_IDX
      <4>1. ex[r] \in Executes
        BY <1>0 DEF ControlTypes
      <4> QED BY <1>0, <2>2, <4>1, LocalTypes, Indices DEF PCs, AppendPCs, AdvancePCs, Executes
    <3> QED BY <1>0, <2>1, <3>1 DEF ControlTypes
  <2>4. Others(r) /\ pc'[r] = c /\ NumOps(r)' = NumOps(r) /\ ex'[r] = NoExecute
    BY <1>0, <2>1 DEF ControlTypes, Others, NumOps
  <2>5. Locals(pc'[r], ap'[r], ah'[r], ex'[r], NumOps(r)')
    BY <1>0, <2>1, <2>2, <2>4 DEF Locals, ExecutePCs, LoopPCs, NoExecute
  <2>6. /\ interp_combiner[r] = CBP!Range(local_versions[r], ex[r].global_tail, ex[r].local_version)
        /\ Token(r)' = CBP!Idle
    BY <1>0, <2>1, <2>2, <2>4 DEF TokenFits
  <2>7. CBP!reader_finish(r)
    <3>1. CBP!Become(r, Token(r)') /\ UNCHANGED <<interp_contents, interp_alive_bits>>
      BY <2>1, <2>2, <2>4, JustTheToken
    <3> QED BY <2>1, <2>2, <2>6, <3>1 DEF CBP!reader_finish, CBP!In, CBP!Range
  <2> QED BY <1>0, <2>3, <2>4, <2>5, <2>7, LocalsFrame
<1> QED BY <1>1, <1>2, <1>3, <1>4, <1>5, <1>6, <1>7 DEF execute

(* The steps of advance_head. *)
LEMMA HeadControl ==
  ASSUME ControlInv, NEW r \in Replica, FindMin(r) \/ NothingToFree(r) \/ StoreHead(r)
  PROVE  /\ ControlTypes' /\ LocalsOK'
         /\ \/ CBP!advance_head_start(r) \/ CBP!advance_head_next(r)
            \/ CBP!advance_head_finish(r) \/ CBP!advance_head_abort(r)
<1>0. /\ ControlTypes /\ LocalsOK /\ Locals(pc[r], ap[r], ah[r], ex[r], NumOps(r))
      /\ TokenFits(r) /\ TokenFits(r)'
  BY TokenNow, TokenNext DEF ControlInv, LocalsOK
<1>t. ah[r] \in Advances /\ num_replicas \in Nat \ {0}
  BY <1>0, NrLogAssumption DEF ControlTypes
<1>1. CASE FindMin(r)
  <2> DEFINE i == ah[r].idx
             v == local_versions[i]
             m == IF i = 0 \/ v < ah[r].min THEN v ELSE ah[r].min
             p == IF i + 1 < num_replicas THEN "find_min" ELSE "store_head"
  <2>1. /\ pc[r] = "find_min" /\ pc' = [pc EXCEPT ![r] = p]
        /\ ah' = [ah EXCEPT ![r].idx = i + 1, ![r].min = m]
        /\ UNCHANGED <<shared, operations, ap, ex>>
    BY <1>0, <1>1 DEF FindMin, At, Goto, ControlTypes
  <2>2. i \in Nat /\ i < num_replicas /\ i \in Replica
    BY <1>0, <1>t, <2>1 DEF Locals, Advances, Replica
  <2>3. v \in 0 .. MAX_IDX /\ ah[r].min \in 0 .. MAX_IDX
    BY <1>0, <1>t, <2>2, Indices DEF Advances
  <2>4. m \in 0 .. MAX_IDX /\ i + 1 \in 0 .. num_replicas
    <3>1. m \in 0 .. MAX_IDX
      <4> HIDE DEF v, i
      <4> QED BY <2>3
    <3>2. i + 1 \in 0 .. num_replicas
      BY <1>t, <2>2
    <3> QED BY <3>1, <3>2
  <2>5. ah' \in [Replica -> Advances] /\ ah'[r].idx = i + 1 /\ ah'[r].min = m
    <3> DEFINE k == i + 1
    <3>1. ah \in [Replica -> Advances] /\ k \in 0 .. num_replicas
      BY <1>0, <2>4 DEF ControlTypes
    <3>2. ah' = [ah EXCEPT ![r].idx = k, ![r].min = m]
      BY <2>1
    <3>3. m \in 0 .. MAX_IDX
      BY <2>4
    <3> HIDE DEF k, m, i
    <3>4. [ah EXCEPT ![r].idx = k] \in [Replica -> Advances]
      BY <3>1 DEF Advances
    <3>5. ah'[r].idx = k /\ ah'[r].min = m
      BY <3>1, <3>2 DEF Advances
    <3>6. ah' \in [Replica -> Advances]
      BY <3>1, <3>2, <3>3 DEF Advances
    <3> QED BY <3>5, <3>6 DEF k
  <2>6. ControlTypes'
    BY <1>0, <2>1, <2>5 DEF ControlTypes, shared, PCs, AdvancePCs
  <2>7. Others(r) /\ pc'[r] = p /\ NumOps(r)' = NumOps(r)
    <3>1. \A s \in Replica \ {r} : ah'[s] = ah[s]
      BY <1>0, <2>1 DEF ControlTypes
    <3>2. pc'[r] = p /\ \A s \in Replica \ {r} : pc'[s] = pc[s]
      BY <1>0, <2>1 DEF ControlTypes
    <3> QED BY <2>1, <3>1, <3>2 DEF Others, shared, NumOps
  <2>8. Locals(pc'[r], ap'[r], ah'[r], ex'[r], NumOps(r)')
    <3>1. CASE i + 1 < num_replicas
      BY <1>0, <2>1, <2>5, <2>7, <3>1 DEF Locals, ExecutePCs, LoopPCs
    <3>2. CASE ~(i + 1 < num_replicas)
      <4>1. i + 1 = num_replicas
        BY <1>t, <2>2, <3>2
      <4> QED BY <1>0, <2>1, <2>5, <2>7, <3>2, <4>1 DEF Locals, ExecutePCs, LoopPCs
    <3> QED BY <3>1, <3>2
  <2>9. p \in {"find_min", "store_head"}
    OBVIOUS
  <2>10. CBP!Become(r, CBP!AdvancingHead(i + 1, m)) /\ UNCHANGED <<interp_contents, interp_alive_bits>>
    <3>1. CBP!Become(r, Token(r)') /\ UNCHANGED <<interp_contents, interp_alive_bits>>
      BY <2>1, <2>7, <2>9, JustTheToken DEF shared
    <3>2. ah'[r].idx > 0
      BY <2>2, <2>5
    <3>3. Token(r)' = CBP!AdvancingHead(ah'[r].idx, ah'[r].min)
      <4> HIDE DEF p
      <4> QED BY <1>0, <2>7, <2>9, <3>2 DEF TokenFits
    <3> QED BY <2>5, <3>1, <3>3
  <2>11. CASE i = 0
    <3>1. interp_combiner[r] = CBP!Idle
      BY <1>0, <2>1, <2>11 DEF TokenFits
    <3>2. i + 1 = 1 /\ m = local_versions[0]
      BY <2>11
    <3>3. CBP!Become(r, CBP!AdvancingHead(1, local_versions[0]))
      BY <2>10, <3>2
    <3>4. CBP!advance_head_start(r)
      BY <2>1, <2>10, <3>1, <3>3 DEF CBP!advance_head_start, CBP!In, CBP!Idle, shared
    <3> QED BY <1>0, <2>6, <2>7, <2>8, <3>4, LocalsFrame
  <2>12. CASE i # 0
    <3>1. interp_combiner[r] = CBP!AdvancingHead(ah[r].idx, ah[r].min)
      <4>1. ah[r].idx > 0
        BY <2>2, <2>12
      <4> QED BY <1>0, <2>1, <4>1 DEF TokenFits
    <3>2. m = IF v < ah[r].min THEN v ELSE ah[r].min
      BY <2>12
    <3>3. CBP!advance_head_next(r)
      <4>1. /\ interp_combiner[r].state = "AdvancingHead" /\ interp_combiner[r].idx = i
            /\ interp_combiner[r].min_local_version = ah[r].min
        BY <3>1 DEF CBP!AdvancingHead
      <4>2. UNCHANGED <<head, tail, local_versions>>
        BY <2>1 DEF shared
      <4> HIDE DEF m, i
      <4> QED BY <2>2, <2>10, <3>2, <4>1, <4>2 DEF CBP!advance_head_next, CBP!In
    <3> QED BY <1>0, <2>6, <2>7, <2>8, <3>3, LocalsFrame
  <2> QED BY <2>11, <2>12
<1>2. CASE NothingToFree(r)
  <2> DEFINE e == [NoExecute EXCEPT !.caller = "load_global_head"]
  <2>1. /\ pc[r] = "store_head" /\ pc' = [pc EXCEPT ![r] = "load_version"]
        /\ ah' = [ah EXCEPT ![r] = NoAdvance] /\ ex' = [ex EXCEPT ![r] = e]
        /\ UNCHANGED <<shared, operations, ap>>
    BY <1>2 DEF NothingToFree, CallExecute, At, Goto
  <2>2. NoAdvance \in Advances /\ e \in Executes
    BY <1>0, LocalTypes, Indices
  <2>3. e.caller = "load_global_head" /\ NoAdvance.idx = 0
    BY DEF NoExecute, NoAdvance
  <2> HIDE DEF e
  <2>4. ControlTypes'
    BY <1>0, <2>1, <2>2 DEF ControlTypes, shared, PCs, ExecutePCs
  <2>5. Others(r) /\ pc'[r] = "load_version" /\ NumOps(r)' = NumOps(r) /\ ex'[r] = e /\ ah'[r] = NoAdvance
    BY <1>0, <2>1 DEF ControlTypes, Others, shared, NumOps
  <2>6. Locals(pc'[r], ap'[r], ah'[r], ex'[r], NumOps(r)')
    BY <1>0, <2>1, <2>3, <2>5 DEF Locals, ExecutePCs, LoopPCs
  <2>7. interp_combiner[r] = CBP!AdvancingHead(ah[r].idx, ah[r].min) /\ Token(r)' = CBP!Idle
    <3>1. ah[r].idx > 0
      BY <1>0, <1>t, <2>1 DEF Locals
    <3> QED BY <1>0, <2>1, <2>5, <3>1 DEF TokenFits
  <2>8. CBP!advance_head_abort(r)
    BY <2>1, <2>5, <2>7, JustTheToken DEF CBP!advance_head_abort, CBP!In, CBP!AdvancingHead, shared
  <2> QED BY <1>0, <2>4, <2>5, <2>6, <2>8, LocalsFrame
<1>3. CASE StoreHead(r)
  <2> DEFINE c == IF ah[r].global_tail < ah[r].min + GcThreshold THEN "done" ELSE "load_global_head"
             e == [NoExecute EXCEPT !.caller = c]
  <2>1. /\ pc[r] = "store_head" /\ pc' = [pc EXCEPT ![r] = "load_version"]
        /\ head' = ah[r].min
        /\ ah' = [ah EXCEPT ![r] = NoAdvance] /\ ex' = [ex EXCEPT ![r] = e]
        /\ UNCHANGED <<slog, tail, local_versions, version_upper_bound, operations, ap>>
    BY <1>3 DEF StoreHead, CallExecute, At, Goto
  <2>2. NoAdvance \in Advances /\ e \in Executes
    <3>1. c \in {"load_tail", "load_global_head", "done"}
      OBVIOUS
    <3> HIDE DEF c
    <3> QED BY <1>0, <3>1, LocalTypes, Indices
  <2>3. e.caller = c /\ c # "none" /\ NoAdvance.idx = 0
    BY DEF NoExecute, NoAdvance
  <2> HIDE DEF e, c
  <2>4. ControlTypes'
    <3>1. ah[r].min \in 0 .. MAX_IDX
      BY <1>t DEF Advances
    <3> QED BY <1>0, <2>1, <2>2, <3>1 DEF ControlTypes, PCs, ExecutePCs
  <2>5. Others(r) /\ pc'[r] = "load_version" /\ NumOps(r)' = NumOps(r) /\ ex'[r] = e /\ ah'[r] = NoAdvance
    BY <1>0, <2>1 DEF ControlTypes, Others, NumOps
  <2>6. Locals(pc'[r], ap'[r], ah'[r], ex'[r], NumOps(r)')
    BY <1>0, <2>1, <2>3, <2>5 DEF Locals, ExecutePCs, LoopPCs
  <2>7. interp_combiner[r] = CBP!AdvancingHead(ah[r].idx, ah[r].min) /\ Token(r)' = CBP!Idle
        /\ ah[r].idx = num_replicas
    <3>1. ah[r].idx > 0 /\ ah[r].idx = num_replicas
      BY <1>0, <1>t, <2>1 DEF Locals
    <3> QED BY <1>0, <2>1, <2>5, <3>1 DEF TokenFits
  <2>8. CBP!Become(r, Token(r)') /\ UNCHANGED <<interp_contents, interp_alive_bits>>
    <3>1. Filling(r)' = Filling(r)
      BY <2>1, <2>5 DEF Filling
    <3>2. interp_alive_bits' = interp_alive_bits
      BY <2>1 DEF interp_alive_bits
    <3> QED BY <2>1, <2>5, <3>1, <3>2, TokenMoves, ContentsKept
  <2>9. CBP!advance_head_finish(r)
    BY <2>1, <2>7, <2>8 DEF CBP!advance_head_finish, CBP!In, CBP!AdvancingHead
  <2> QED BY <1>0, <2>4, <2>5, <2>6, <2>9, LocalsFrame
<1> QED BY <1>1, <1>2, <1>3

(* The steps of append that touch neither the tail nor a cell. *)
LEMMA AppendControl ==
  ASSUME ControlInv, NEW r \in Replica,
         \/ LoadHead_Room(r) \/ CasTailFails(r) \/ AppendReturn_Advance(r) \/ AppendReturn_Execute(r)
  PROVE  /\ ControlTypes' /\ LocalsOK'
         /\ \/ CBP!advance_tail_start(r) \/ CBP!advance_tail_abort(r) \/ CBP!append_finish(r)
            \/ UNCHANGED CBP!vars
<1>0. /\ ControlTypes /\ LocalsOK /\ Locals(pc[r], ap[r], ah[r], ex[r], NumOps(r))
      /\ TokenFits(r) /\ TokenFits(r)'
  BY TokenNow, TokenNext DEF ControlInv, LocalsOK
<1>a. ap[r] \in Appends /\ NoAppend \in Appends /\ NoAppend.idx = 0
  BY <1>0, LocalTypes, Indices DEF ControlTypes, NoAppend
<1>1. CASE LoadHead_Room(r)
  <2> DEFINE p == IF new_tail(r) >= MAX_IDX THEN "panic" ELSE "cas_tail"
  <2>1. /\ pc[r] = "load_head" /\ pc' = [pc EXCEPT ![r] = p]
        /\ ap[r].tail <= head + GcThreshold
        /\ ap' = [ap EXCEPT ![r].head = head]
        /\ UNCHANGED <<shared, operations, ah, ex>>
    BY <1>1 DEF LoadHead_Room, At, Goto
  <2>2. p \in {"panic", "cas_tail"} /\ (p = "cas_tail" => ~(new_tail(r) >= MAX_IDX))
    OBVIOUS
  <2> HIDE DEF p
  <2>3. ControlTypes'
    BY <1>0, <2>1, <2>2, LocalTypes, Indices DEF ControlTypes, shared, PCs, AppendPCs
  <2>4. /\ Others(r) /\ pc'[r] = p /\ NumOps(r)' = NumOps(r)
        /\ ap'[r].idx = ap[r].idx /\ ap'[r].tail = ap[r].tail /\ ap'[r].head = head
    BY <1>0, <1>a, <2>1 DEF ControlTypes, Others, shared, NumOps, Appends
  <2>5. p = "cas_tail" => ap[r].tail + NumOps(r) < MAX_IDX
    BY <1>0, <2>2, Typed DEF new_tail
  <2>6. Locals(pc'[r], ap'[r], ah'[r], ex'[r], NumOps(r)')
    BY <1>0, <2>1, <2>2, <2>4, <2>5 DEF Locals, ExecutePCs, LoopPCs
  <2>7. CBP!Become(r, Token(r)') /\ UNCHANGED <<interp_contents, interp_alive_bits>>
    BY <2>1, <2>2, <2>4, JustTheToken DEF shared
  <2>8. CASE p = "cas_tail"
    <3>1. interp_combiner[r] = CBP!Idle /\ Token(r)' = CBP!AdvancingTail(head)
      BY <1>0, <2>1, <2>4, <2>8 DEF TokenFits
    <3>2. CBP!advance_tail_start(r)
      BY <2>1, <2>7, <3>1 DEF CBP!advance_tail_start, CBP!In, CBP!Idle, shared
    <3> QED BY <1>0, <2>3, <2>4, <2>6, <3>2, LocalsFrame
  <2>9. CASE p = "panic"
    <3>1. UNCHANGED CBP!vars
      BY <2>1, <2>4, <2>9, IdleStep DEF shared
    <3> QED BY <1>0, <2>3, <2>4, <2>6, <3>1, LocalsFrame
  <2> QED BY <2>2, <2>8, <2>9
<1>2. CASE CasTailFails(r)
  <2>1. /\ pc[r] = "cas_tail" /\ pc' = [pc EXCEPT ![r] = "load_tail"]
        /\ ap' = [ap EXCEPT ![r] = NoAppend]
        /\ UNCHANGED <<shared, operations, ah, ex>>
    BY <1>2 DEF CasTailFails, At, Goto
  <2>2. ControlTypes'
    BY <1>0, <1>a, <2>1 DEF ControlTypes, shared, PCs, AppendPCs
  <2>3. Others(r) /\ pc'[r] = "load_tail" /\ NumOps(r)' = NumOps(r) /\ ap'[r] = NoAppend
    BY <1>0, <2>1 DEF ControlTypes, Others, shared, NumOps
  <2>4. Locals(pc'[r], ap'[r], ah'[r], ex'[r], NumOps(r)')
    BY <1>0, <1>a, <2>1, <2>3 DEF Locals, ExecutePCs, LoopPCs
  <2>5. interp_combiner[r] = CBP!AdvancingTail(ap[r].head) /\ Token(r)' = CBP!Idle
    BY <1>0, <2>1, <2>3 DEF TokenFits
  <2>6. CBP!advance_tail_abort(r)
    BY <2>1, <2>3, <2>5, JustTheToken DEF CBP!advance_tail_abort, CBP!In, CBP!AdvancingTail, shared
  <2> QED BY <1>0, <2>2, <2>3, <2>4, <2>6, LocalsFrame
<1>3. CASE AppendReturn_Advance(r) \/ AppendReturn_Execute(r)
  <2> DEFINE e == [NoExecute EXCEPT !.caller = "done"]
             p == pc'[r]
             x == ex'[r]
  <2>1. /\ pc[r] = "append_return" /\ ap' = [ap EXCEPT ![r] = NoAppend]
        /\ \/ pc' = [pc EXCEPT ![r] = "load_global_head"] /\ ex' = ex
           \/ pc' = [pc EXCEPT ![r] = "load_version"] /\ ex' = [ex EXCEPT ![r] = e]
        /\ UNCHANGED <<shared, operations, ah>>
    BY <1>3 DEF AppendReturn_Advance, AppendReturn_Execute, CallExecute, At, Goto
  <2>2. e \in Executes /\ e.caller = "done"
    BY <1>0, LocalTypes, Indices DEF NoExecute
  <2> HIDE DEF e
  <2>3. ControlTypes'
    BY <1>0, <1>a, <2>1, <2>2 DEF ControlTypes, shared, PCs, AdvancePCs, ExecutePCs
  <2>4. /\ Others(r) /\ NumOps(r)' = NumOps(r) /\ ap'[r] = NoAppend
        /\ \/ pc'[r] = "load_global_head" /\ ex'[r] = ex[r]
           \/ pc'[r] = "load_version" /\ ex'[r] = e
    BY <1>0, <2>1 DEF ControlTypes, Others, shared, NumOps
  <2>5. Locals(pc'[r], ap'[r], ah'[r], ex'[r], NumOps(r)')
    BY <1>0, <1>a, <2>1, <2>2, <2>4 DEF Locals, ExecutePCs, LoopPCs
  <2>6. /\ interp_combiner[r] = CBP!Appending(ap[r].tail + ap[r].idx, ap[r].tail + NumOps(r))
        /\ Token(r)' = CBP!Idle /\ ap[r].idx = NumOps(r)
    BY <1>0, <2>1, <2>4 DEF TokenFits, Locals
  <2>7. CBP!append_finish(r)
    <3>1. CBP!Become(r, Token(r)') /\ UNCHANGED <<interp_contents, interp_alive_bits>>
      BY <2>1, <2>4, JustTheToken DEF shared
    <3>2. UNCHANGED <<head, tail, local_versions>>
      BY <2>1 DEF shared
    <3> QED BY <2>6, <3>1, <3>2 DEF CBP!append_finish, CBP!In, CBP!Appending
  <2> QED BY <1>0, <2>3, <2>4, <2>5, <2>7, LocalsFrame
<1> QED BY <1>1, <1>2, <1>3

(* What a combiner has yet to fill is what its token says. *)
LEMMA SameFilling ==
  ASSUME ControlInv, NEW r \in Replica
  PROVE  CBP!Filling(interp_combiner[r]) = Filling(r)
<1>0. TokenFits(r) /\ Locals(pc[r], ap[r], ah[r], ex[r], NumOps(r))
  BY TokenNow DEF ControlInv, LocalsOK
<1>t. /\ ap[r].tail \in Nat /\ ap[r].idx \in Nat /\ NumOps(r) \in Nat /\ ah[r].idx \in Nat
      /\ pc[r] \in PCs
  BY Typed DEF ControlInv
<1>1. CASE pc[r] \in {"write_entry", "set_alive", "append_return"}
  <2>1. interp_combiner[r] = CBP!Appending(ap[r].tail + ap[r].idx, ap[r].tail + NumOps(r))
    BY <1>0, <1>1 DEF TokenFits
  <2> DEFINE i == ap[r].tail + ap[r].idx
             t == ap[r].tail + NumOps(r)
  <2>2. CBP!Filling(interp_combiner[r]) = i .. t - 1
    <3> HIDE DEF i, t
    <3>1. /\ CBP!Appending(i, t).state = "Appending"
          /\ CBP!Appending(i, t).cur_idx = i /\ CBP!Appending(i, t).tail = t
      BY DEF CBP!Appending
    <3>2. interp_combiner[r] = CBP!Appending(i, t)
      BY <2>1 DEF i, t
    <3> QED BY <3>1, <3>2 DEF CBP!Filling
  <2>3. CASE pc[r] = "append_return"
    <3>1. i .. t - 1 = {}
      BY <1>0, <1>t, <2>3 DEF Locals
    <3> QED BY <2>2, <2>3, <3>1 DEF Filling
  <2>4. CASE pc[r] # "append_return"
    <3>1. Filling(r) = cur_idx(r) .. new_tail(r) - 1 /\ cur_idx(r) = i /\ new_tail(r) = t
      BY <1>1, <2>4 DEF Filling, cur_idx, new_tail
    <3> HIDE DEF i, t
    <3> QED BY <2>2, <3>1
  <2> QED BY <2>3, <2>4
<1>2. CASE pc[r] \notin {"write_entry", "set_alive", "append_return"}
  <2>1. interp_combiner[r].state # "Appending"
    <3>1. \/ pc[r] = "cas_tail"
          \/ pc[r] \in {"find_min", "store_head"} /\ ah[r].idx > 0
          \/ pc[r] \in {"find_min", "store_head"} /\ ~(ah[r].idx > 0)
          \/ pc[r] = "load_exec_tail"
          \/ pc[r] \in {"wait_alive", "bump_version", "store_version"}
          \/ pc[r] = "dispatch"
          \/ pc[r] \in {"ready", "done", "panic", "load_tail", "load_head", "load_global_head",
                        "load_global_tail", "load_version"}
      BY <1>2, <1>t DEF PCs, AppendPCs, AdvancePCs, ExecutePCs, LoopPCs
    <3>2. interp_combiner[r] = Token(r)
      BY <1>0 DEF TokenFits
    <3>3. \/ \E x : Token(r) = CBP!AdvancingTail(x)
          \/ \E x, y : Token(r) = CBP!AdvancingHead(x, y)
          \/ Token(r) = CBP!Idle
          \/ \E x : Token(r) = CBP!Starting(x)
          \/ \E x, y, z : Token(r) = CBP!Range(x, y, z)
          \/ \E x, y, z : Token(r) = CBP!Guard(x, y, z)
      <4> HIDE DEF Token
      <4> QED BY <1>0, <3>1 DEF TokenFits
    <3> HIDE DEF Token
    <3> QED BY <3>2, <3>3 DEF CBP!AdvancingTail, CBP!AdvancingHead, CBP!Idle, CBP!Starting,
                              CBP!Range, CBP!Guard
  <2> QED BY <1>2, <2>1 DEF CBP!Filling, Filling
<1> QED BY <1>1, <1>2

(* The cells: every index of the last LOG_SIZE is in the buffer or with    *)
(* one combiner, and one that is being filled is not older than what its   *)
(* combiner has applied. *)
LEMMA Cells ==
  ASSUME ControlInv
  PROVE  /\ interp_contents \subseteq tail - LOG_SIZE .. tail - 1
         /\ \A r \in Replica : \A i \in Filling(r) :
               /\ i \in tail - LOG_SIZE .. tail - 1 /\ local_versions[r] <= i
               /\ i \notin interp_contents
               /\ \A s \in Replica \ {r} : i \notin Filling(s)
         /\ \A i \in tail - LOG_SIZE .. tail - 1 : alive(i) <=> i \in interp_contents
<1>1. CBP!IndInv /\ CBP!CellsSplit /\ CBP!BitsTell
  BY DEF ControlInv, CBP!EntriesInv
<1>2. CBP!Replica = Replica /\ CBP!Window = tail - LOG_SIZE .. tail - 1
  BY DEF CBP!Replica, Replica, CBP!Window
<1>3. /\ \A r \in Replica : CBP!Filling(interp_combiner[r]) \subseteq CBP!Window
      /\ \A r \in Replica : \A i \in CBP!Filling(interp_combiner[r]) : local_versions[r] <= i
      /\ CBP!Window \subseteq Int
  BY <1>1, <1>2, CBP!WindowFacts, BufferAssumption
<1>4. \A r \in Replica : CBP!Filling(interp_combiner[r]) = Filling(r)
  BY SameFilling
<1>5. ASSUME NEW i \in CBP!Window PROVE alive(i) <=> CBP!log_entry_is_alive(i)
  <2>1. i \in Int /\ index(i) \in 0 .. LOG_SIZE - 1
    BY <1>3, CBP!Remainder, BufferAssumption DEF index, CBP!log_entry_idx
  <2> QED BY <2>1 DEF alive, CBP!log_entry_is_alive, CBP!log_entry_idx, CBP!log_entry_alive_value,
                     interp_alive_bits, index, is_alive_value
<1> HIDE DEF Filling
<1>6. \A r \in Replica : \A i \in Filling(r) :
         /\ i \in CBP!Window /\ local_versions[r] <= i /\ i \notin interp_contents
         /\ \A s \in Replica \ {r} : i \notin Filling(s)
  BY <1>1, <1>2, <1>3, <1>4 DEF CBP!CellsSplit
<1>7. interp_contents \subseteq CBP!Window
  BY <1>1 DEF CBP!CellsSplit
<1>8. \A i \in CBP!Window : alive(i) <=> i \in interp_contents
  BY <1>1, <1>5 DEF CBP!BitsTell
<1> QED BY <1>2, <1>6, <1>7, <1>8

(* Reserving entries takes the permissions to what they overwrite. *)
LEMMA CasTailControl ==
  ASSUME ControlInv, NEW r \in Replica, CasTail(r)
  PROVE  /\ ControlTypes' /\ LocalsOK'
         /\ \E t \in CBP!Index : CBP!advance_tail_finish(r, t)
<1>0. /\ ControlTypes /\ LocalsOK /\ Locals(pc[r], ap[r], ah[r], ex[r], NumOps(r))
      /\ TokenFits(r) /\ TokenFits(r)'
  BY TokenNow, TokenNext DEF ControlInv, LocalsOK
<1> DEFINE p == IF NumOps(r) = 0 THEN "append_return" ELSE "write_entry"
           t == new_tail(r)
           low == tail - LOG_SIZE .. t - LOG_SIZE - 1
<1>1. /\ pc[r] = "cas_tail" /\ pc' = [pc EXCEPT ![r] = p]
      /\ tail = ap[r].tail /\ tail' = t
      /\ UNCHANGED <<slog, head, local_versions, version_upper_bound, operations, ap, ah, ex>>
  BY DEF CasTail, At, Goto
<1>2. /\ ap[r].idx = 0 /\ ap[r].tail <= ap[r].head + GcThreshold
      /\ t = tail + NumOps(r) /\ t < MAX_IDX
  BY <1>0, <1>1 DEF Locals, new_tail
<1>3. /\ tail \in Nat /\ NumOps(r) \in Nat /\ NumOps(r) <= GC_FROM_HEAD /\ MAX_IDX \in Nat
      /\ LOG_SIZE \in Nat \ {0} /\ GcThreshold \in Nat /\ GC_FROM_HEAD \in Nat
      /\ GcThreshold + GC_FROM_HEAD = LOG_SIZE /\ ap[r].head \in Nat
  BY <1>0, Typed
<1>4. t \in Nat /\ tail <= t /\ t <= ap[r].head + LOG_SIZE /\ t \in 0 .. MAX_IDX - 1
  <2> HIDE DEF t
  <2> QED BY <1>1, <1>2, <1>3
<1>5. p \in {"append_return", "write_entry"}
  OBVIOUS
<1>6. ControlTypes'
  BY <1>0, <1>1, <1>4, <1>5 DEF ControlTypes, PCs, AppendPCs
<1>7. Others(r) /\ pc'[r] = p /\ NumOps(r)' = NumOps(r)
  BY <1>0, <1>1 DEF ControlTypes, Others, NumOps
<1>8. Locals(pc'[r], ap'[r], ah'[r], ex'[r], NumOps(r)')
  BY <1>0, <1>1, <1>2, <1>3, <1>7 DEF Locals, ExecutePCs, LoopPCs
<1>9. /\ interp_combiner[r] = CBP!AdvancingTail(ap[r].head)
      /\ CBP!Become(r, CBP!Appending(tail, t))
  <2>1. CBP!Become(r, Token(r)')
    BY <1>7, TokenMoves
  <2>2. Token(r)' = CBP!Appending(ap'[r].tail + ap'[r].idx, ap'[r].tail + NumOps(r)')
    <3> HIDE DEF p
    <3> QED BY <1>0, <1>5, <1>7 DEF TokenFits
  <2>3. ap'[r].tail + ap'[r].idx = tail /\ ap'[r].tail + NumOps(r)' = t
    <3> HIDE DEF t
    <3> QED BY <1>1, <1>2, <1>3, <1>7
  <2>4. interp_combiner[r] = CBP!AdvancingTail(ap[r].head)
    BY <1>0, <1>1 DEF TokenFits
  <2> QED BY <2>1, <2>2, <2>3, <2>4
<1>10. interp_contents' = interp_contents \ low
  <2>1. Filling(r) = {}
    BY <1>1 DEF Filling
  <2>2. \A i \in Int : i \in Filling(r)' <=> tail <= i /\ i < t
    <3>1. CASE NumOps(r) = 0
      <4>1. Filling(r)' = {}
        BY <1>7, <3>1 DEF Filling
      <4>2. t = tail
        <5> HIDE DEF t
        <5> QED BY <1>2, <1>3, <3>1
      <4> HIDE DEF t, Filling
      <4> QED BY <1>3, <4>1, <4>2
    <3>2. CASE NumOps(r) # 0
      <4>1. Filling(r)' = cur_idx(r)' .. new_tail(r)' - 1
        BY <1>7, <3>2 DEF Filling
      <4>2. cur_idx(r)' = tail /\ new_tail(r)' = t
        <5>1. cur_idx(r)' = ap[r].tail + 0 /\ new_tail(r)' = new_tail(r)
          BY <1>1, <1>2, <1>7 DEF cur_idx, new_tail
        <5> QED BY <1>1, <1>3, <5>1
      <4> HIDE DEF t, Filling
      <4> QED BY <1>3, <1>4, <4>1, <4>2
    <3> QED BY <3>1, <3>2
  <2>3. ASSUME NEW s \in Replica \ {r} PROVE Filling(s)' = Filling(s)
    BY <1>7, <2>3 DEF Others, Filling, cur_idx, new_tail, NumOps
  <2>4. LOG_SIZE \in Int /\ LOG_SIZE > 0 /\ t \in Int /\ tail \in Int
    BY <1>3, <1>4
  <2> HIDE DEF Filling, t
  <2>5. interp_contents' = {i \in t - LOG_SIZE .. t - 1 : \A s \in Replica : i \notin Filling(s)'}
    BY <1>1 DEF interp_contents
  <2>6. \A i : i \in interp_contents' <=>
           /\ i \in Int /\ t - LOG_SIZE <= i /\ i < t /\ ~(tail <= i /\ i < t)
           /\ \A s \in Replica \ {r} : i \notin Filling(s)
    <3>1. \A i : i \in interp_contents' <=>
             /\ i \in t - LOG_SIZE .. t - 1 /\ i \notin Filling(r)'
             /\ \A s \in Replica \ {r} : i \notin Filling(s)'
      BY <2>5
    <3>2. \A i : i \in t - LOG_SIZE .. t - 1 <=> i \in Int /\ t - LOG_SIZE <= i /\ i < t
      BY <2>4
    <3> QED BY <2>2, <2>3, <3>1, <3>2
  <2>7. \A i : i \in interp_contents <=>
           /\ i \in Int /\ tail - LOG_SIZE <= i /\ i < tail
           /\ \A s \in Replica \ {r} : i \notin Filling(s)
    <3>1. \A i : i \in interp_contents <=>
             /\ i \in tail - LOG_SIZE .. tail - 1
             /\ \A s \in Replica \ {r} : i \notin Filling(s)
      BY <2>1 DEF interp_contents
    <3>2. \A i : i \in tail - LOG_SIZE .. tail - 1 <=> i \in Int /\ tail - LOG_SIZE <= i /\ i < tail
      BY <2>4
    <3> QED BY <3>1, <3>2
  <2>8. \A i : i \in low <=> i \in Int /\ tail - LOG_SIZE <= i /\ i < t - LOG_SIZE
    BY <2>4
  <2>9. \A i \in Int : (t - LOG_SIZE <= i /\ i < t /\ ~(tail <= i /\ i < t))
            <=> (tail - LOG_SIZE <= i /\ i < tail /\ ~(tail - LOG_SIZE <= i /\ i < t - LOG_SIZE))
    <3>1. tail <= t /\ t <= tail + LOG_SIZE
      BY <1>2, <1>3, <1>4 
    <3> QED BY <2>4, <3>1
  <2> HIDE DEF low
  <2> QED BY <2>6, <2>7, <2>8, <2>9
<1>11. CBP!advance_tail_finish(r, t)
  <2>1. interp_combiner[r].state = "AdvancingTail" /\ interp_combiner[r].observed_head = ap[r].head
    BY <1>9 DEF CBP!AdvancingTail
  <2>2. UNCHANGED <<head, local_versions, interp_alive_bits>>
    BY <1>1 DEF interp_alive_bits
  <2> HIDE DEF t
  <2> QED BY <1>1, <1>4, <1>9, <1>10, <2>1, <2>2 DEF CBP!advance_tail_finish, CBP!In
<1>12. t \in CBP!Index
  BY <1>3, <1>4 DEF CBP!Index
<1> QED BY <1>0, <1>6, <1>7, <1>8, <1>11, <1>12, LocalsFrame

(* Writing a cell touches nothing that the buffer's tokens show. *)
LEMMA WriteEntryControl ==
  ASSUME ControlInv, NEW r \in Replica, WriteEntry(r)
  PROVE  /\ ControlTypes' /\ LocalsOK' /\ UNCHANGED CBP!vars
         /\ [op |-> operations[r][ap[r].idx + 1], node_id |-> r] \in Entry
         /\ cur_idx(r) \in Nat /\ index(cur_idx(r)) \in 0 .. LOG_SIZE - 1
<1>0. /\ ControlTypes /\ LocalsOK /\ Locals(pc[r], ap[r], ah[r], ex[r], NumOps(r))
      /\ TokenFits(r) /\ TokenFits(r)'
  BY TokenNow, TokenNext DEF ControlInv, LocalsOK
<1> DEFINE s == index(cur_idx(r))
           e == [op |-> operations[r][ap[r].idx + 1], node_id |-> r]
<1>1. /\ pc[r] = "write_entry" /\ pc' = [pc EXCEPT ![r] = "set_alive"]
      /\ slog' = [slog EXCEPT ![s].log_entry = e]
      /\ UNCHANGED <<head, tail, local_versions, version_upper_bound, operations, ap, ah, ex>>
  BY DEF WriteEntry, At, Goto
<1>2. e \in Entry
  <2>1. operations[r] \in Seq(Op[r]) /\ ap[r].idx \in Nat /\ ap[r].idx < NumOps(r) /\ NumOps(r) \in Nat
    BY <1>0, <1>1, BatchFits, Typed DEF ControlTypes, Locals
  <2>2. operations[r][ap[r].idx + 1] \in Op[r]
    BY <2>1 DEF NumOps
  <2> QED BY <2>2 DEF Entry
<1>3. cur_idx(r) \in Nat /\ s \in 0 .. LOG_SIZE - 1
  <2>1. cur_idx(r) \in Nat
    BY <1>0, Typed DEF cur_idx
  <2> QED BY <2>1, CBP!Remainder, BufferAssumption DEF index, CBP!log_entry_idx
<1> HIDE DEF s, e
<1>4. ControlTypes'
  BY <1>0, <1>1, <1>2 DEF ControlTypes, PCs, AppendPCs
<1>5. Others(r) /\ pc'[r] = "set_alive" /\ NumOps(r)' = NumOps(r)
  BY <1>0, <1>1 DEF ControlTypes, Others, NumOps
<1>6. Locals(pc'[r], ap'[r], ah'[r], ex'[r], NumOps(r)')
  BY <1>0, <1>1, <1>5 DEF Locals, ExecutePCs, LoopPCs
<1>7. interp_combiner' = interp_combiner
  <2>1. Token(r)' = Token(r)
    BY <1>0, <1>1, <1>5 DEF TokenFits
  <2>2. interp_combiner[r] = Token(r) /\ interp_combiner = [u \in Replica |-> interp_combiner[u]]
    BY Tokens
  <2>3. CBP!Become(r, Token(r)')
    BY <1>5, TokenMoves
  <2> QED BY <2>1, <2>2, <2>3 DEF CBP!Become
<1>8. interp_contents' = interp_contents
  <2>1. Filling(r)' = Filling(r)
    BY <1>1, <1>5 DEF Filling, cur_idx, new_tail
  <2> QED BY <1>1, <1>5, <2>1, ContentsKept
<1>9. interp_alive_bits' = interp_alive_bits
  BY <1>0, <1>1 DEF interp_alive_bits, ControlTypes
<1> QED BY <1>0, <1>1, <1>2, <1>3, <1>4, <1>5, <1>6, <1>7, <1>8, <1>9, LocalsFrame DEF CBP!vars, s, e

(* Setting an entry alive gives its permission to the buffer. *)
LEMMA SetAliveControl ==
  ASSUME ControlInv, NEW r \in Replica, SetAlive(r)
  PROVE  /\ ControlTypes' /\ LocalsOK' /\ CBP!append_flip_bit(r)
         /\ cur_idx(r) \in Nat /\ index(cur_idx(r)) \in 0 .. LOG_SIZE - 1
         /\ interp_contents' = interp_contents \cup {cur_idx(r)}
<1>0. /\ ControlTypes /\ LocalsOK /\ Locals(pc[r], ap[r], ah[r], ex[r], NumOps(r))
      /\ TokenFits(r) /\ TokenFits(r)'
  BY TokenNow, TokenNext DEF ControlInv, LocalsOK
<1> DEFINE c == cur_idx(r)
           s == index(c)
           b == is_alive_value(c)
           k == ap[r].idx + 1
           p == IF ap[r].idx + 1 < NumOps(r) THEN "write_entry" ELSE "append_return"
<1>1. /\ pc[r] = "set_alive" /\ pc' = [pc EXCEPT ![r] = p]
      /\ slog' = [slog EXCEPT ![s].alive = b]
      /\ ap' = [ap EXCEPT ![r].idx = @ + 1]
      /\ UNCHANGED <<head, tail, local_versions, version_upper_bound, operations, ah, ex>>
  BY DEF SetAlive, At, Goto
<1>2. /\ ap[r].tail \in Nat /\ ap[r].idx \in Nat /\ NumOps(r) \in Nat /\ ap[r].idx < NumOps(r)
      /\ NumOps(r) <= MAX_REQUESTS /\ MAX_REQUESTS \in Nat
  BY <1>0, <1>1, Typed, NrLogAssumption DEF Locals
<1>3. c \in Nat /\ s \in 0 .. LOG_SIZE - 1 /\ b \in BOOLEAN
  <2>1. c \in Nat
    BY <1>2 DEF cur_idx
  <2>2. s \in 0 .. LOG_SIZE - 1
    BY <2>1, CBP!Remainder, BufferAssumption DEF index, CBP!log_entry_idx
  <2> QED BY <2>1, <2>2, Zenon DEF is_alive_value
<1>4. /\ ap' \in [Replica -> Appends] /\ ap'[r].idx = k /\ ap'[r].tail = ap[r].tail
      /\ \A u \in Replica \ {r} : ap'[u] = ap[u]
  <2>1. ap \in [Replica -> Appends] /\ k \in 0 .. MAX_REQUESTS
    BY <1>0, <1>2 DEF ControlTypes
  <2>2. ap' = [ap EXCEPT ![r].idx = k]
    BY <1>1, <2>1 DEF Appends
  <2> HIDE DEF k
  <2> QED BY <2>1, <2>2 DEF Appends
<1>5. p \in {"write_entry", "append_return"}
  OBVIOUS
<1>6. ControlTypes'
  <2>1. slog' \in [0 .. LOG_SIZE - 1 -> [log_entry : Entry \cup {NoEntry}, alive : BOOLEAN]]
    <3> HIDE DEF b, s
    <3> QED BY <1>0, <1>1, <1>3 DEF ControlTypes
  <2> QED BY <1>0, <1>1, <1>4, <1>5, <2>1 DEF ControlTypes, PCs, AppendPCs
<1>7. Others(r) /\ pc'[r] = p /\ NumOps(r)' = NumOps(r)
  <2>1. pc'[r] = p /\ \A u \in Replica \ {r} : pc'[u] = pc[u]
    BY <1>0, <1>1 DEF ControlTypes
  <2> QED BY <1>1, <1>4, <2>1 DEF Others, NumOps
<1>8. Locals(pc'[r], ap'[r], ah'[r], ex'[r], NumOps(r)')
  <2>1. p = "append_return" => k = NumOps(r)
    BY <1>2
  <2>2. p = "write_entry" => k < NumOps(r)
    OBVIOUS
  <2> HIDE DEF p, k
  <2> QED BY <1>0, <1>1, <1>4, <1>5, <1>7, <2>1, <2>2 DEF Locals, ExecutePCs, LoopPCs
<1>9. /\ interp_combiner[r] = CBP!Appending(c, new_tail(r))
      /\ CBP!Become(r, CBP!Appending(c + 1, new_tail(r)))
      /\ c < new_tail(r) /\ new_tail(r) \in Nat
  <2>1. interp_combiner[r] = CBP!Appending(c, new_tail(r))
    BY <1>0, <1>1 DEF TokenFits, cur_idx, new_tail
  <2>2. Token(r)' = CBP!Appending(ap'[r].tail + ap'[r].idx, ap'[r].tail + NumOps(r)')
    <3> HIDE DEF p
    <3> QED BY <1>0, <1>5, <1>7 DEF TokenFits
  <2>3. ap'[r].tail + ap'[r].idx = c + 1 /\ ap'[r].tail + NumOps(r)' = new_tail(r)
    BY <1>2, <1>4, <1>7 DEF cur_idx, new_tail
  <2>4. c < new_tail(r) /\ new_tail(r) \in Nat
    BY <1>2 DEF cur_idx, new_tail
  <2> QED BY <1>7, <2>1, <2>2, <2>3, <2>4, TokenMoves
<1>10. interp_contents' = interp_contents \cup {c}
  <2>1. Filling(r) = c .. new_tail(r) - 1
    BY <1>1 DEF Filling
  <2>2. \A i \in Int : i \in Filling(r)' <=> i \in Filling(r) /\ i # c
    <3>1. CASE k < NumOps(r)
      <4>1. Filling(r)' = cur_idx(r)' .. new_tail(r)' - 1
        BY <1>7, <3>1 DEF Filling
      <4>2. cur_idx(r)' = c + 1 /\ new_tail(r)' = new_tail(r)
        BY <1>2, <1>4, <1>7 DEF cur_idx, new_tail
      <4> HIDE DEF c, Filling
      <4> QED BY <1>3, <1>9, <2>1, <4>1, <4>2
    <3>2. CASE ~(k < NumOps(r))
      <4>1. Filling(r)' = {}
        BY <1>7, <3>2 DEF Filling
      <4>2. new_tail(r) = c + 1
        BY <1>2, <3>2 DEF cur_idx, new_tail
      <4> HIDE DEF c, Filling
      <4> QED BY <1>3, <2>1, <4>1, <4>2
    <3> QED BY <3>1, <3>2
  <2>3. ASSUME NEW u \in Replica \ {r} PROVE Filling(u)' = Filling(u)
    BY <1>7, <2>3 DEF Others, Filling, cur_idx, new_tail, NumOps
  <2>4. tail \in Nat /\ LOG_SIZE \in Nat
    BY <1>0, Typed
  <2>5. c \in Filling(r)
    BY <1>3, <1>9, <2>1
  <2> HIDE DEF Filling, c
  <2>6. c \in tail - LOG_SIZE .. tail - 1 /\ \A u \in Replica \ {r} : c \notin Filling(u)
    BY <2>5, Cells
  <2>7. \A i \in tail - LOG_SIZE .. tail - 1 : i \in Int
    BY <2>4
  <2>8. interp_contents' = {i \in tail - LOG_SIZE .. tail - 1 : \A u \in Replica : i \notin Filling(u)'}
    BY <1>1 DEF interp_contents
  <2> QED BY <2>2, <2>3, <2>5, <2>6, <2>7, <2>8 DEF interp_contents
<1>11. CBP!append_flip_bit(r)
  <2>1. /\ interp_combiner[r].state = "Appending" /\ interp_combiner[r].cur_idx = c
        /\ interp_combiner[r].tail = new_tail(r)
    <3> HIDE DEF c
    <3> QED BY <1>9 DEF CBP!Appending
  <2>2. interp_alive_bits' = [interp_alive_bits EXCEPT ![s] = b]
    <3> HIDE DEF s, b
    <3> QED BY <1>0, <1>1, <1>3 DEF interp_alive_bits, ControlTypes
  <2>3. s = CBP!log_entry_idx(c) /\ b = CBP!log_entry_alive_value(c)
    BY DEF CBP!log_entry_idx, CBP!log_entry_alive_value, index, is_alive_value
  <2> HIDE DEF c, s, b
  <2> QED BY <1>1, <1>9, <1>10, <2>1, <2>2, <2>3 DEF CBP!append_flip_bit, CBP!In
<1> QED BY <1>0, <1>3, <1>6, <1>7, <1>8, <1>10, <1>11, LocalsFrame

-----------------------------------------------------------------------------
(* Control and the circular buffer *)

LEMMA InitControl == Init => ControlInv /\ CBP!Init
<1> SUFFICES ASSUME Init PROVE ControlInv /\ CBP!Init
  OBVIOUS
<1>1. ControlTypes
  <2>1. 0 \in 0 .. MAX_IDX /\ 0 \in 0 .. MAX_IDX - 1 /\ 0 \in 0 .. MAX_REQUESTS /\ 0 \in 0 .. num_replicas
    BY NrLogAssumption
  <2>2. NoAppend \in Appends /\ NoAdvance \in Advances /\ NoExecute \in Executes
    BY <2>1 DEF NoAppend, NoAdvance, NoExecute, Appends, Advances, Executes
  <2>3. \A r \in Replica : << >> \in Batch(r)
    <3> SUFFICES ASSUME NEW r \in Replica PROVE << >> \in Batch(r)
      OBVIOUS
    <3>1. << >> \in [1 .. 0 -> Op[r]]
      OBVIOUS
    <3> QED BY <2>1, <3>1 DEF Batch
  <2>4. << >> \in Seq(AllOps)
    OBVIOUS
  <2>5. slog \in [0 .. LOG_SIZE - 1 -> [log_entry : Entry \cup {NoEntry}, alive : BOOLEAN]]
    BY DEF Init, EmptyBuffer
  <2>6. "ready" \in PCs
    BY DEF PCs
  <2> QED BY <2>1, <2>2, <2>3, <2>4, <2>5, <2>6 DEF Init, ControlTypes
<1>2. LocalsOK
  BY DEF Init, LocalsOK, Locals, NoAppend, NoAdvance, NoExecute, ExecutePCs, LoopPCs
<1>3. CBP!Init
  <2>1. \A r \in Replica : Filling(r) = {}
    BY DEF Init, Filling
  <2>2. interp_contents = -LOG_SIZE .. -1
    <3>1. tail - LOG_SIZE = -LOG_SIZE /\ tail - 1 = -1
      BY NrLogAssumption DEF Init
    <3> HIDE DEF Filling
    <3> QED BY <2>1, <3>1 DEF interp_contents
  <2>3. interp_combiner = [r \in Replica |-> CBP!Idle]
    <3>1. ASSUME NEW r \in Replica PROVE interp_combiner[r] = CBP!Idle
      <4>1. pc[r] = "ready" /\ TokenFits(r)
        BY TokenNow DEF Init
      <4> QED BY <4>1 DEF TokenFits
    <3>2. interp_combiner = [r \in Replica |-> interp_combiner[r]]
      BY Tokens
    <3> QED BY <3>1, <3>2
  <2>4. interp_alive_bits = [s \in 0 .. LOG_SIZE - 1 |-> ~CBP!log_entry_alive_value(s)]
    <3>1. ASSUME NEW s \in 0 .. LOG_SIZE - 1
          PROVE  slog[s].alive = FALSE /\ CBP!log_entry_alive_value(s) = TRUE
      <4>1. slog[s].alive = FALSE
        BY <3>1 DEF Init, EmptyBuffer
      <4>2. s \div LOG_SIZE = 0
        BY <3>1, NrLogAssumption, SMTT(60)
      <4> QED BY <4>1, <4>2 DEF CBP!log_entry_alive_value
    <3>2. ASSUME NEW s \in 0 .. LOG_SIZE - 1
          PROVE  slog[s].alive = ~CBP!log_entry_alive_value(s)
      <4>1. slog[s].alive = FALSE /\ CBP!log_entry_alive_value(s) = TRUE
        BY <3>1, <3>2
      <4> QED BY <4>1, Zenon
    <3> QED BY <3>2, Zenon DEF interp_alive_bits
  <2> QED BY <2>2, <2>3, <2>4 DEF Init, CBP!Init, CBP!Replica, Replica
<1>4. CBP!IndInv /\ CBP!EntriesInv
  BY <1>3, CBP!InitHolds, CBP!InitEntries, BufferAssumption
<1> QED BY <1>1, <1>2, <1>3, <1>4 DEF ControlInv

(* Every step of a combiner is a transition of the circular buffer, or     *)
(* changes none of its tokens.                                             *)
LEMMA ControlStep ==
  ASSUME ControlInv, NEW r \in Replica,
         (\E ops \in Batch(r) : append_start(r, ops)) \/ LogStep(r) \/ finish(r)
  PROVE  ControlTypes' /\ LocalsOK' /\ [CBP!Next]_(CBP!vars)
<1>1. r \in CBP!Replica
  BY DEF CBP!Replica, Replica
<1>2. CASE \/ \E ops \in Batch(r) : append_start(r, ops)
           \/ LoadTail(r) \/ LoadHead_Wait(r) \/ WarnTailTooBig(r)
           \/ LoadGlobalHead(r) \/ LoadGlobalTail(r) \/ finish(r)
  BY <1>2, QuietControl
<1>3. CASE execute(r)
  BY <1>1, <1>3, ReaderControl DEF CBP!Next
<1>4. CASE FindMin(r) \/ NothingToFree(r) \/ StoreHead(r)
  BY <1>1, <1>4, HeadControl DEF CBP!Next
<1>5. CASE LoadHead_Room(r) \/ CasTailFails(r) \/ AppendReturn_Advance(r) \/ AppendReturn_Execute(r)
  BY <1>1, <1>5, AppendControl DEF CBP!Next
<1>6. CASE CasTail(r)
  BY <1>1, <1>6, CasTailControl DEF CBP!Next
<1>7. CASE WriteEntry(r)
  BY <1>7, WriteEntryControl
<1>8. CASE SetAlive(r)
  BY <1>1, <1>8, SetAliveControl DEF CBP!Next
<1> QED BY <1>2, <1>3, <1>4, <1>5, <1>6, <1>7, <1>8 DEF LogStep, append, advance_head

LEMMA ControlNext == ControlInv /\ [Next]_vars => ControlInv' /\ [CBP!Next]_(CBP!vars)
<1> SUFFICES ASSUME ControlInv, [Next]_vars PROVE ControlInv' /\ [CBP!Next]_(CBP!vars)
  OBVIOUS
<1>1. ControlTypes' /\ LocalsOK' /\ [CBP!Next]_(CBP!vars)
  <2>1. CASE Next
    BY <2>1, ControlStep DEF Next
  <2>2. CASE UNCHANGED vars
    <3>1. ControlTypes' /\ LocalsOK'
      BY <2>2 DEF vars, shared, ControlInv, ControlTypes, LocalsOK, Locals, NumOps
    <3>2. UNCHANGED CBP!vars
      <4>1. interp_combiner' = interp_combiner
        <5>1. ASSUME NEW r \in Replica PROVE Token(r)' = Token(r)
          BY <2>2 DEF vars, shared, Token, NumOps
        <5>2. interp_combiner' = [r \in Replica |-> Token(r)'] /\ interp_combiner = [r \in Replica |-> Token(r)]
          BY Tokens, TokensNext
        <5> QED BY <5>1, <5>2, Zenon
      <4>2. interp_contents' = interp_contents
        BY <2>2, Zenon DEF vars, shared, interp_contents, Filling, cur_idx, new_tail, NumOps
      <4>3. interp_alive_bits' = interp_alive_bits
        BY <2>2 DEF vars, shared, interp_alive_bits
      <4> QED BY <2>2, <4>1, <4>2, <4>3 DEF vars, shared, CBP!vars
    <3> QED BY <3>1, <3>2
  <2> QED BY <2>1, <2>2
<1>2. CBP!IndInv' /\ CBP!EntriesInv'
  <2>1. CBP!IndInv /\ CBP!EntriesInv
    BY DEF ControlInv
  <2>2. CBP!IndInv'
    BY <1>1, <2>1, CBP!StepHolds, BufferAssumption
  <2> QED BY <1>1, <2>1, <2>2, CBP!EntriesStep, BufferAssumption
<1> QED BY <1>1, <1>2 DEF ControlInv

LEMMA ControlCorrect == Spec => []ControlInv
<1>1. Init => ControlInv
  BY InitControl
<1>2. ControlInv /\ [Next]_vars => ControlInv'
  BY ControlNext
<1> QED BY <1>1, <1>2, PTL DEF Spec

(* Every access of the log is a transition of the circular buffer's token  *)
(* machine or changes none of its tokens: what the ghost code of log.rs    *)
(* claims, access by access, of every combiner.                            *)
THEOREM RefinesCyclicBufferCorrect == Spec => RefinesCyclicBuffer
<1>1. Init => CB!Init
  BY InitControl DEF CBP!Init, CB!Init, CBP!Replica, CB!Replica, CBP!Idle, CB!Idle,
                     CBP!log_entry_alive_value, CB!log_entry_alive_value
<1>2. ControlInv /\ [Next]_vars => [CBP!Next]_(CBP!vars)
  BY ControlNext
<1>3. CBP!Replica = CB!Replica /\ CBP!Index = CB!Index
  BY DEF CBP!Replica, CB!Replica, CBP!Index, CB!Index
<1>4. UNCHANGED CBP!vars => UNCHANGED CB!vars
  BY DEF CBP!vars, CB!vars
(* The transitions are those of the same module, instantiated once for its *)
(* specification and once for its theorems. *)
<1>5. ASSUME NEW r \in Replica
      PROVE  \A t :
               /\ CBP!reader_start(r) => CB!reader_start(r)
               /\ CBP!reader_enter(r) => CB!reader_enter(r)
               /\ CBP!reader_guard(r) => CB!reader_guard(r)
               /\ CBP!reader_unguard(r) => CB!reader_unguard(r)
               /\ CBP!reader_finish(r) => CB!reader_finish(r)
               /\ CBP!reader_abort(r) => CB!reader_abort(r)
               /\ CBP!advance_head_start(r) => CB!advance_head_start(r)
               /\ CBP!advance_head_next(r) => CB!advance_head_next(r)
               /\ CBP!advance_head_finish(r) => CB!advance_head_finish(r)
               /\ CBP!advance_head_abort(r) => CB!advance_head_abort(r)
               /\ CBP!advance_tail_start(r) => CB!advance_tail_start(r)
               /\ CBP!advance_tail_finish(r, t) => CB!advance_tail_finish(r, t)
               /\ CBP!advance_tail_abort(r) => CB!advance_tail_abort(r)
               /\ CBP!append_flip_bit(r) => CB!append_flip_bit(r)
               /\ CBP!append_finish(r) => CB!append_finish(r)
  <2>1. \A t :
         /\ CBP!reader_start(r) => CB!reader_start(r)
         /\ CBP!reader_enter(r) => CB!reader_enter(r)
         /\ CBP!reader_guard(r) => CB!reader_guard(r)
    BY DEF CBP!In, CB!In, CBP!Become, CB!Become, CBP!reader_start, CB!reader_start, CBP!Starting,
           CB!Starting, CBP!reader_enter, CB!reader_enter, CBP!Range, CB!Range, CBP!reader_guard,
           CB!reader_guard, CBP!Guard, CB!Guard, CBP!log_entry_is_alive, CB!log_entry_is_alive,
           CBP!log_entry_idx, CB!log_entry_idx, CBP!log_entry_alive_value,
           CB!log_entry_alive_value
  <2>2. \A t :
         /\ CBP!reader_unguard(r) => CB!reader_unguard(r)
         /\ CBP!reader_finish(r) => CB!reader_finish(r)
         /\ CBP!reader_abort(r) => CB!reader_abort(r)
    BY DEF CBP!In, CB!In, CBP!Become, CB!Become, CBP!reader_unguard, CB!reader_unguard,
           CBP!Range, CB!Range, CBP!reader_finish, CB!reader_finish, CBP!Idle, CB!Idle,
           CBP!reader_abort, CB!reader_abort
  <2>3. \A t :
         /\ CBP!advance_head_start(r) => CB!advance_head_start(r)
         /\ CBP!advance_head_next(r) => CB!advance_head_next(r)
         /\ CBP!advance_head_finish(r) => CB!advance_head_finish(r)
         /\ CBP!advance_head_abort(r) => CB!advance_head_abort(r)
    BY DEF CBP!In, CB!In, CBP!Become, CB!Become, CBP!advance_head_start, CB!advance_head_start,
           CBP!AdvancingHead, CB!AdvancingHead, CBP!advance_head_next, CB!advance_head_next,
           CBP!advance_head_finish, CB!advance_head_finish, CBP!Idle, CB!Idle,
           CBP!advance_head_abort, CB!advance_head_abort
  <2>4. \A t :
         /\ CBP!advance_tail_start(r) => CB!advance_tail_start(r)
         /\ CBP!advance_tail_finish(r, t) => CB!advance_tail_finish(r, t)
         /\ CBP!advance_tail_abort(r) => CB!advance_tail_abort(r)
    BY DEF CBP!In, CB!In, CBP!Become, CB!Become, CBP!advance_tail_start, CB!advance_tail_start,
           CBP!AdvancingTail, CB!AdvancingTail, CBP!advance_tail_finish, CB!advance_tail_finish,
           CBP!Appending, CB!Appending, CBP!advance_tail_abort, CB!advance_tail_abort, CBP!Idle,
           CB!Idle
  <2>5. \A t :
         /\ CBP!append_flip_bit(r) => CB!append_flip_bit(r)
         /\ CBP!append_finish(r) => CB!append_finish(r)
    BY DEF CBP!In, CB!In, CBP!Become, CB!Become, CBP!append_flip_bit, CB!append_flip_bit,
           CBP!Appending, CB!Appending, CBP!log_entry_idx, CB!log_entry_idx,
           CBP!log_entry_alive_value, CB!log_entry_alive_value, CBP!append_finish,
           CB!append_finish, CBP!Idle, CB!Idle
  <2> QED BY <2>1, <2>2, <2>3, <2>4, <2>5
<1>6. CBP!Next => CB!Next
  <2> SUFFICES ASSUME CBP!Next PROVE CB!Next
    OBVIOUS
  <2>1. CBP!Replica = Replica /\ CB!Replica = Replica
    BY DEF CBP!Replica, CB!Replica, Replica
  <2> QED BY <1>3, <1>5, <2>1 DEF CBP!Next, CB!Next
<1>7. ControlInv /\ [Next]_vars => [CB!Next]_(CB!vars)
  BY <1>2, <1>4, <1>6
<1> QED BY <1>1, <1>7, ControlCorrect, PTL DEF Spec, RefinesCyclicBuffer, CB!Spec

(* Two indices of the last LOG_SIZE have different cells. *)
LEMMA SlotOnce ==
  ASSUME ControlInv, NEW i \in tail - LOG_SIZE .. tail - 1, NEW j \in tail - LOG_SIZE .. tail - 1,
         index(i) = index(j)
  PROVE  i = j
<1>1. tail \in Nat /\ LOG_SIZE \in Nat \ {0}
  BY NrLogAssumption DEF ControlInv, ControlTypes
<1>2. i \in Int /\ j \in Int /\ i < j + LOG_SIZE /\ j < i + LOG_SIZE
  BY <1>1
<1>3. CBP!log_entry_idx(i) = CBP!log_entry_idx(j)
  BY DEF index, CBP!log_entry_idx
<1> QED BY <1>2, <1>3, CBP!SlotsDiffer, BufferAssumption

(* The buffer holds the entry that a combiner applies, and a combiner that *)
(* appends is at an entry of its own. *)
LEMMA Holding ==
  ASSUME ControlInv, NEW r \in Replica
  PROVE  /\ pc[r] = "dispatch" => ex[r].local_version \in interp_contents
         /\ pc[r] \in {"write_entry", "set_alive"} => cur_idx(r) \in Filling(r)
<1>0. TokenFits(r) /\ Locals(pc[r], ap[r], ah[r], ex[r], NumOps(r)) /\ CBP!PassedPresent
  BY TokenNow DEF ControlInv, LocalsOK, CBP!EntriesInv
<1>1. CASE pc[r] = "dispatch"
  <2>1. interp_combiner[r] = CBP!Guard(local_versions[r], ex[r].global_tail, ex[r].local_version)
    BY <1>0, <1>1 DEF TokenFits
  <2>2. CBP!Passed(interp_combiner[r], interp_contents)
    BY <1>0 DEF CBP!PassedPresent, CBP!Replica, Replica
  <2> QED BY <1>1, <2>1, <2>2 DEF CBP!Passed, CBP!Guard
<1>2. CASE pc[r] \in {"write_entry", "set_alive"}
  <2>1. ap[r].tail \in Nat /\ ap[r].idx \in Nat /\ NumOps(r) \in Nat
    BY Typed DEF ControlInv
  <2>2. ap[r].idx < NumOps(r)
    BY <1>0, <1>2 DEF Locals
  <2>3. cur_idx(r) \in cur_idx(r) .. new_tail(r) - 1
    BY <2>1, <2>2 DEF cur_idx, new_tail
  <2> QED BY <1>2, <2>3 DEF Filling
<1> QED BY <1>1, <1>2

(* No combiner writes a cell that another one writes or reads, although    *)
(* the cells of log.rs are accessed without synchronisation.               *)
THEOREM NoCellRaceCorrect == Spec => []NoCellRace
<1>1. ControlInv => NoCellRace
  <2> DEFINE writing(r) == IF At(r, "write_entry") THEN {index(cur_idx(r))} ELSE {}
             reading(r) == IF At(r, "dispatch") THEN {index(ex[r].local_version)} ELSE {}
  <2> SUFFICES ASSUME ControlInv, NEW r \in Replica, NEW s \in Replica, r # s,
                      NEW x \in writing(r), x \in writing(s) \cup reading(s)
               PROVE  FALSE
    BY DEF NoCellRace
  <2>1. pc[r] = "write_entry" /\ x = index(cur_idx(r))
    BY DEF At
  <2>2. /\ cur_idx(r) \in tail - LOG_SIZE .. tail - 1 /\ cur_idx(r) \notin interp_contents
        /\ cur_idx(r) \notin Filling(s)
    <3>1. cur_idx(r) \in Filling(r)
      BY <2>1, Holding
    <3> HIDE DEF Filling
    <3> QED BY <3>1, Cells
  <2>3. CASE x \in writing(s)
    <3>1. pc[s] = "write_entry" /\ x = index(cur_idx(s))
      BY <2>3 DEF At
    <3>2. cur_idx(s) \in Filling(s)
      BY <3>1, Holding
    <3>3. cur_idx(s) \in tail - LOG_SIZE .. tail - 1
      BY <3>2, Cells
    <3>4. cur_idx(r) = cur_idx(s)
      BY <2>1, <2>2, <3>1, <3>3, SlotOnce
    <3> QED BY <2>2, <3>2, <3>4
  <2>4. CASE x \in reading(s)
    <3>1. pc[s] = "dispatch" /\ x = index(ex[s].local_version)
      BY <2>4 DEF At
    <3>2. ex[s].local_version \in interp_contents
      BY <3>1, Holding
    <3>3. ex[s].local_version \in tail - LOG_SIZE .. tail - 1
      BY <3>2, Cells
    <3>4. cur_idx(r) = ex[s].local_version
      BY <2>1, <2>2, <3>1, <3>3, SlotOnce
    <3> QED BY <2>2, <3>2, <3>4
  <2> QED BY <2>3, <2>4
<1> QED BY <1>1, ControlCorrect, PTL

-----------------------------------------------------------------------------
(* The contents of the cells *)

(* The batch ops of replica n is in the log l after its first `at' entries. *)
BatchAt(l, ops, at, n) == \A k \in 1 .. Len(ops) : l[at + k] = [op |-> ops[k], node_id |-> n]

(* A filled cell holds the entry of the log, and so does the one that a    *)
(* combiner is about to set alive. What a combiner reserved is its batch.  *)
CellsOK ==
  /\ \A i \in interp_contents : i >= 0 => slog[index(i)].log_entry = log[i + 1]
  /\ \A r \in Replica : At(r, "set_alive") => slog[index(cur_idx(r))].log_entry = log[cur_idx(r) + 1]
  /\ \A r \in Replica : pc[r] \in {"write_entry", "set_alive"} => BatchAt(log, operations[r], ap[r].tail, r)

LogInv == log \in Seq(Entry) /\ Len(log) = tail /\ CellsOK

LEMMA Concat ==
  ASSUME NEW S, NEW a \in Seq(S), NEW b \in Seq(S)
  PROVE  /\ a \o b \in Seq(S) /\ Len(a \o b) = Len(a) + Len(b)
         /\ \A i \in 1 .. Len(a) : (a \o b)[i] = a[i]
         /\ \A k \in 1 .. Len(b) : (a \o b)[Len(a) + k] = b[k]
OBVIOUS

(* A batch in the log stays where it is when the log grows. *)
LEMMA BatchStays ==
  ASSUME NEW l \in Seq(Entry), NEW m \in Seq(Entry), NEW ops \in Seq(AllOps), NEW at \in Nat, NEW n,
         at + Len(ops) <= Len(l), BatchAt(l, ops, at, n)
  PROVE  BatchAt(l \o m, ops, at, n)
<1> SUFFICES ASSUME NEW k \in 1 .. Len(ops) PROVE (l \o m)[at + k] = [op |-> ops[k], node_id |-> n]
  BY DEF BatchAt
<1>1. at + k \in 1 .. Len(l)
  OBVIOUS
<1>2. (l \o m)[at + k] = l[at + k]
  BY <1>1
<1> QED BY <1>2 DEF BatchAt

(* A step of r that writes no cell, and does not bring r to one. *)
LEMMA CellsKept ==
  ASSUME NEW r \in Replica, CellsOK, Others(r), UNCHANGED <<slog, log>>,
         interp_contents' = interp_contents, pc'[r] \notin {"write_entry", "set_alive"}
  PROVE  CellsOK'
<1>1. \A i \in interp_contents' : i >= 0 => slog'[index(i)].log_entry = log'[i + 1]
  BY DEF CellsOK
<1>2. ASSUME NEW s \in Replica
      PROVE  /\ pc'[s] = "set_alive" => slog'[index(ap'[s].tail + ap'[s].idx)].log_entry
                                          = log'[ap'[s].tail + ap'[s].idx + 1]
             /\ pc'[s] \in {"write_entry", "set_alive"} => BatchAt(log', operations'[s], ap'[s].tail, s)
  <2>1. CASE s = r
    BY <2>1
  <2>2. CASE s # r
    BY <2>2 DEF CellsOK, Others, At, cur_idx
  <2> QED BY <2>1, <2>2
<1> QED BY <1>1, <1>2 DEF CellsOK, At, cur_idx, BatchAt, index

(* Reserving entries for a batch makes the batch part of the log. *)
LEMMA CasTailCells ==
  ASSUME ControlInv, LogInv, NEW r \in Replica, CasTail(r)
  PROVE  /\ LogInv' /\ log' \in Seq(Entry)
         /\ BatchAt(log', operations[r], tail, r)
         /\ \E m \in Seq(Entry) : log' = log \o m /\ Len(m) = NumOps(r)
                                  /\ \A k \in 1 .. Len(m) : m[k].node_id = r
<1> DEFINE ops == operations[r]
           m == [i \in 1 .. NumOps(r) |-> [op |-> operations[r][i], node_id |-> r]]
<1>0. ControlTypes /\ log \in Seq(Entry) /\ Len(log) = tail /\ CellsOK
  BY DEF ControlInv, LogInv
<1>1. /\ pc[r] = "cas_tail" /\ tail = ap[r].tail /\ tail' = new_tail(r) /\ log' = log \o m
      /\ UNCHANGED <<slog, head, local_versions, operations, ap, ah, ex>>
      /\ \A s \in Replica \ {r} : pc'[s] = pc[s]
      /\ pc'[r] \in {"append_return", "write_entry"}
  BY <1>0 DEF CasTail, At, Goto, ControlTypes
<1>2. ops \in Seq(Op[r]) /\ ops \in Seq(AllOps) /\ NumOps(r) = Len(ops) /\ Len(ops) \in Nat
  BY <1>0, BatchFits DEF ControlTypes, NumOps
<1>3. m \in Seq(Entry) /\ Len(m) = Len(ops) /\ \A k \in 1 .. Len(ops) : m[k] = [op |-> ops[k], node_id |-> r]
  <2>1. \A k \in 1 .. Len(ops) : [op |-> ops[k], node_id |-> r] \in Entry
    <3> SUFFICES ASSUME NEW k \in 1 .. Len(ops) PROVE [op |-> ops[k], node_id |-> r] \in Entry
      OBVIOUS
    <3>1. ops[k] \in Op[r]
      BY <1>2
    <3> QED BY <3>1 DEF Entry
  <2>2. m \in [1 .. Len(ops) -> Entry]
    BY <1>2, <2>1
  <2> QED BY <1>2, <2>2
<1>4. tail \in Nat /\ tail' = Len(log) + Len(m)
  BY <1>0, <1>1, <1>2, <1>3, Typed DEF new_tail
<1> HIDE DEF m, ops
<1>5. ASSUME NEW k \in 1 .. Len(m) PROVE m[k].node_id = r
  <2>1. m[k] = [op |-> ops[k], node_id |-> r]
    BY <1>3
  <2> QED BY <2>1
<1>6. /\ log' \in Seq(Entry) /\ Len(log') = Len(log) + Len(m)
      /\ \A i \in 1 .. Len(log) : log'[i] = log[i]
      /\ \A k \in 1 .. Len(m) : log'[Len(log) + k] = m[k]
  <2>1. log \in Seq(Entry) /\ m \in Seq(Entry) /\ log' = log \o m
    BY <1>0, <1>1, <1>3
  <2> QED BY <2>1, Concat
<1>7. BatchAt(log', ops, tail, r)
  <2> SUFFICES ASSUME NEW k \in 1 .. Len(ops) PROVE log'[tail + k] = [op |-> ops[k], node_id |-> r]
    BY DEF BatchAt
  <2>1. tail + k = Len(log) + k /\ k \in 1 .. Len(m)
    BY <1>0, <1>3
  <2>2. log'[Len(log) + k] = m[k]
    BY <1>6, <2>1
  <2> QED BY <1>3, <2>1, <2>2
<1>8. CellsOK'
  <2>1. ASSUME NEW i \in interp_contents', i >= 0
        PROVE  slog'[index(i)].log_entry = log'[i + 1]
    <3>1. i \in interp_contents
      <4>1. PICK t \in CBP!Index : CBP!advance_tail_finish(r, t)
        BY CasTailControl
      <4> QED BY <2>1, <4>1 DEF CBP!advance_tail_finish
    <3>2. i \in tail - LOG_SIZE .. tail - 1
      BY <3>1, Cells
    <3>3. tail \in Nat /\ LOG_SIZE \in Nat
      BY <1>0, Typed
    <3>4. i + 1 \in 1 .. Len(log)
      BY <1>0, <2>1, <3>2, <3>3
    <3> QED BY <1>0, <1>1, <1>6, <2>1, <3>1, <3>4 DEF CellsOK
  <2>2. ASSUME NEW s \in Replica, pc'[s] = "set_alive"
        PROVE  slog'[index(cur_idx(s))].log_entry = log'[cur_idx(s) + 1]
    <3>1. pc[s] = "set_alive" /\ s # r
      BY <1>1, <2>2
    <3>2. cur_idx(s) \in tail - LOG_SIZE .. tail - 1
      <4>1. cur_idx(s) \in Filling(s)
        BY <3>1, Holding
      <4> QED BY <4>1, Cells
    <3>3. tail \in Nat /\ LOG_SIZE \in Nat /\ cur_idx(s) \in Nat
      BY <1>0, Typed DEF cur_idx
    <3>4. cur_idx(s) + 1 \in 1 .. Len(log)
      BY <1>0, <3>2, <3>3
    <3> QED BY <1>0, <1>1, <1>6, <3>1, <3>4 DEF CellsOK, At
  <2>3. ASSUME NEW s \in Replica, pc'[s] \in {"write_entry", "set_alive"}
        PROVE  BatchAt(log', operations[s], ap[s].tail, s)
    <3>1. CASE s = r
      BY <1>1, <1>7, <3>1 DEF ops
    <3>2. CASE s # r
      <4>1. pc[s] \in {"write_entry", "set_alive"}
        BY <1>1, <2>3, <3>2
      <4>2. BatchAt(log, operations[s], ap[s].tail, s)
        BY <1>0, <4>1 DEF CellsOK
      <4>3. ap[s].tail + Len(operations[s]) <= Len(log)
        BY <1>0, <4>1, Guaranteed DEF NumOps
      <4>4. operations[s] \in Seq(AllOps) /\ ap[s].tail \in Nat
        BY <1>0, Typed DEF ControlTypes
      <4> QED BY <1>0, <1>1, <1>3, <4>2, <4>3, <4>4, BatchStays
    <3> QED BY <3>1, <3>2
  <2>4. cur_idx(r)' = cur_idx(r) /\ \A s \in Replica : cur_idx(s)' = cur_idx(s)
    BY <1>1 DEF cur_idx
  <2> QED BY <1>1, <2>1, <2>2, <2>3, <2>4 DEF CellsOK, At, index, BatchAt
<1> QED BY <1>1, <1>2, <1>3, <1>4, <1>5, <1>6, <1>7, <1>8 DEF LogInv, ops

(* Writing an entry: no other cell that matters has its slot. *)
LEMMA WriteEntryCells ==
  ASSUME ControlInv, LogInv, NEW r \in Replica, WriteEntry(r)
  PROVE  LogInv'
<1> DEFINE c == cur_idx(r)
           e == [op |-> operations[r][ap[r].idx + 1], node_id |-> r]
<1>0. ControlTypes /\ log \in Seq(Entry) /\ Len(log) = tail /\ CellsOK
  BY DEF ControlInv, LogInv
<1>1. /\ pc[r] = "write_entry" /\ slog' = [slog EXCEPT ![index(c)].log_entry = e]
      /\ UNCHANGED <<head, tail, log, local_versions, operations, ap, ah, ex>>
      /\ \A s \in Replica \ {r} : pc'[s] = pc[s]
      /\ pc'[r] = "set_alive"
  BY <1>0 DEF WriteEntry, At, Goto, ControlTypes
<1>2. c \in Nat /\ index(c) \in 0 .. LOG_SIZE - 1 /\ interp_contents' = interp_contents
  BY WriteEntryControl DEF CBP!vars
<1>3. c \in Filling(r)
  BY <1>1, Holding
<1>4. /\ c \in tail - LOG_SIZE .. tail - 1 /\ c \notin interp_contents
      /\ \A s \in Replica \ {r} : c \notin Filling(s)
  <2> HIDE DEF Filling, c
  <2> QED BY <1>3, Cells
<1>5. /\ slog'[index(c)].log_entry = e
      /\ \A x : x # index(c) => slog'[x] = slog[x]
  <2> HIDE DEF c, e
  <2> QED BY <1>0, <1>1, <1>2 DEF ControlTypes
<1>6. e = log[c + 1]
  <2>1. /\ ap[r].tail \in Nat /\ ap[r].idx \in Nat /\ NumOps(r) \in Nat /\ ap[r].idx < NumOps(r)
    BY <1>0, <1>1, Typed DEF ControlInv, LocalsOK, Locals
  <2>2. BatchAt(log, operations[r], ap[r].tail, r)
    BY <1>0, <1>1 DEF CellsOK
  <2>3. ap[r].idx + 1 \in 1 .. Len(operations[r]) /\ c + 1 = ap[r].tail + (ap[r].idx + 1)
    BY <2>1 DEF NumOps, cur_idx
  <2> QED BY <2>2, <2>3 DEF BatchAt
<1>7. ASSUME NEW i \in interp_contents, i >= 0
      PROVE  slog'[index(i)].log_entry = log[i + 1]
  <2>1. i \in tail - LOG_SIZE .. tail - 1 /\ i # c
    BY <1>4, <1>7, Cells
  <2>2. index(i) # index(c)
    <3> HIDE DEF c
    <3> QED BY <1>4, <2>1, SlotOnce
  <2> QED BY <1>0, <1>5, <1>7, <2>2 DEF CellsOK
<1>8. ASSUME NEW s \in Replica, pc'[s] = "set_alive"
      PROVE  slog'[index(cur_idx(s))].log_entry = log[cur_idx(s) + 1]
  <2>1. CASE s = r
    BY <1>5, <1>6, <2>1
  <2>2. CASE s # r
    <3>1. pc[s] = "set_alive" /\ cur_idx(s) \in Filling(s)
      BY <1>1, <1>8, <2>2, Holding
    <3>2. cur_idx(s) \in tail - LOG_SIZE .. tail - 1 /\ cur_idx(s) # c
      <4> HIDE DEF Filling
      <4> QED BY <1>4, <2>2, <3>1, Cells
    <3>3. index(cur_idx(s)) # index(c)
      <4> HIDE DEF c
      <4> QED BY <1>4, <3>2, SlotOnce
    <3> QED BY <1>0, <1>5, <3>1, <3>3 DEF CellsOK, At
  <2> QED BY <2>1, <2>2
<1>9. CellsOK'
  <2>1. \A s \in Replica : cur_idx(s)' = cur_idx(s)
    BY <1>1 DEF cur_idx
  <2>2. ASSUME NEW s \in Replica, pc'[s] \in {"write_entry", "set_alive"}
        PROVE  BatchAt(log, operations[s], ap[s].tail, s)
    BY <1>0, <1>1, <2>2 DEF CellsOK
  <2> QED BY <1>1, <1>2, <1>7, <1>8, <2>1, <2>2 DEF CellsOK, At, index, BatchAt
<1> QED BY <1>0, <1>1, <1>9 DEF LogInv

(* Setting an entry alive adds it to the cells that are the log's. *)
LEMMA SetAliveCells ==
  ASSUME ControlInv, LogInv, NEW r \in Replica, SetAlive(r)
  PROVE  LogInv'
<1> DEFINE c == cur_idx(r)
<1>0. ControlTypes /\ log \in Seq(Entry) /\ Len(log) = tail /\ CellsOK
  BY DEF ControlInv, LogInv
<1>1. /\ pc[r] = "set_alive" /\ slog' = [slog EXCEPT ![index(c)].alive = is_alive_value(c)]
      /\ UNCHANGED <<head, tail, log, local_versions, operations, ah, ex>>
      /\ \A s \in Replica \ {r} : pc'[s] = pc[s]
      /\ pc'[r] \in {"write_entry", "append_return"}
  BY <1>0 DEF SetAlive, At, Goto, ControlTypes
<1>2. c \in Nat /\ index(c) \in 0 .. LOG_SIZE - 1 /\ interp_contents' = interp_contents \cup {c}
  BY SetAliveControl
<1>3. \A s \in Replica \ {r} : ap'[s] = ap[s]
  BY <1>0 DEF SetAlive, ControlTypes
<1>4. ap'[r].tail = ap[r].tail
  BY <1>0 DEF SetAlive, ControlTypes, Appends
<1>5. \A x \in 0 .. LOG_SIZE - 1 : slog'[x].log_entry = slog[x].log_entry
  <2> HIDE DEF c
  <2> QED BY <1>0, <1>1, <1>2 DEF ControlTypes
<1>6. \A i \in Int : index(i) \in 0 .. LOG_SIZE - 1
  BY CBP!Remainder, BufferAssumption DEF index, CBP!log_entry_idx
<1>7. ASSUME NEW i \in interp_contents', i >= 0
      PROVE  slog'[index(i)].log_entry = log[i + 1]
  <2>1. CASE i = c
    BY <1>0, <1>1, <1>2, <1>5, <2>1 DEF CellsOK, At
  <2>2. CASE i \in interp_contents
    <3>1. i \in tail - LOG_SIZE .. tail - 1 /\ tail \in Nat /\ LOG_SIZE \in Nat
      BY <1>0, <2>2, Cells, Typed
    <3>2. i \in Int
      BY <3>1
    <3> QED BY <1>0, <1>5, <1>6, <1>7, <2>2, <3>2 DEF CellsOK
  <2> QED BY <1>2, <2>1, <2>2
<1>8. ASSUME NEW s \in Replica, pc'[s] = "set_alive"
      PROVE  slog'[index(cur_idx(s))].log_entry = log[cur_idx(s) + 1]
  <2>1. pc[s] = "set_alive" /\ s # r
    BY <1>1, <1>8
  <2>2. cur_idx(s) \in Nat
    BY <1>0, Typed DEF cur_idx
  <2>3. slog[index(cur_idx(s))].log_entry = log[cur_idx(s) + 1]
    BY <1>0, <2>1 DEF CellsOK, At
  <2>4. index(cur_idx(s)) \in 0 .. LOG_SIZE - 1
    BY <1>6, <2>2
  <2> QED BY <1>5, <2>3, <2>4
<1>9. ASSUME NEW s \in Replica, pc'[s] \in {"write_entry", "set_alive"}
      PROVE  BatchAt(log, operations[s], ap'[s].tail, s)
  <2>1. pc[s] \in {"write_entry", "set_alive"} /\ ap'[s].tail = ap[s].tail
    BY <1>1, <1>3, <1>4, <1>9
  <2> QED BY <1>0, <2>1 DEF CellsOK
<1>10. CellsOK'
  <2>1. ASSUME NEW s \in Replica, pc'[s] = "set_alive" PROVE cur_idx(s)' = cur_idx(s)
    BY <1>1, <1>3, <2>1 DEF cur_idx
  <2> QED BY <1>1, <1>7, <1>8, <1>9, <2>1 DEF CellsOK, At, index, BatchAt
<1> QED BY <1>0, <1>1, <1>10 DEF LogInv

(* The actions of combiner r that write neither the tail nor a cell. *)
QuietStep(r) ==
  \/ \E ops \in Batch(r) : append_start(r, ops)
  \/ LoadTail(r) \/ LoadHead_Wait(r) \/ LoadHead_Room(r) \/ WarnTailTooBig(r) \/ CasTailFails(r)
  \/ AppendReturn_Advance(r) \/ AppendReturn_Execute(r)
  \/ advance_head(r) \/ execute(r) \/ finish(r)

LEMMA StepKinds ==
  ASSUME Next
  PROVE  \E r \in Replica : QuietStep(r) \/ CasTail(r) \/ WriteEntry(r) \/ SetAlive(r)
BY DEF Next, LogStep, append, QuietStep

LEMMA QuietLog ==
  ASSUME ControlInv, LogInv, NEW r \in Replica, QuietStep(r)
  PROVE  /\ LogInv' /\ Others(r) /\ UNCHANGED <<slog, log, tail>>
         /\ pc' = [pc EXCEPT ![r] = pc'[r]] /\ pc[r] \notin {"write_entry", "set_alive"}
<1>0. ControlTypes /\ Locals(pc[r], ap[r], ah[r], ex[r], NumOps(r))
  BY DEF ControlInv, LocalsOK
<1>1. UNCHANGED <<slog, log, tail>> /\ pc[r] \notin {"write_entry", "set_alive"}
  BY DEF QuietStep, append_start, LoadTail, LoadHead_Wait, LoadHead_Room, WarnTailTooBig,
         CasTailFails, AppendReturn_Advance, AppendReturn_Execute, advance_head, LoadGlobalHead,
         LoadGlobalTail, FindMin, NothingToFree, StoreHead, execute, LoadLocalVersion,
         LoadExecTail_NoWork, LoadExecTail_Work, WaitAlive, DispatchEntry, BumpVersionUpperBound,
         StoreLocalVersion, finish, At, shared, vars
<1>2. interp_contents' = interp_contents
  <2>1. CASE \/ \E ops \in Batch(r) : append_start(r, ops)
             \/ LoadTail(r) \/ LoadHead_Wait(r) \/ WarnTailTooBig(r)
             \/ LoadGlobalHead(r) \/ LoadGlobalTail(r) \/ finish(r)
    BY <2>1, QuietControl DEF CBP!vars
  <2>2. CASE execute(r)
    BY <2>2, ReaderControl DEF CBP!vars, CBP!reader_start, CBP!reader_enter, CBP!reader_guard,
           CBP!reader_unguard, CBP!reader_finish, CBP!reader_abort
  <2>3. CASE FindMin(r) \/ NothingToFree(r) \/ StoreHead(r)
    BY <2>3, HeadControl DEF CBP!advance_head_start, CBP!advance_head_next,
           CBP!advance_head_finish, CBP!advance_head_abort
  <2>4. CASE LoadHead_Room(r) \/ CasTailFails(r) \/ AppendReturn_Advance(r) \/ AppendReturn_Execute(r)
    BY <2>4, AppendControl DEF CBP!vars, CBP!advance_tail_start, CBP!advance_tail_abort,
           CBP!append_finish
  <2> QED BY <2>1, <2>2, <2>3, <2>4 DEF QuietStep, advance_head
<1>3. Others(r) /\ pc' = [pc EXCEPT ![r] = pc'[r]] /\ pc'[r] \notin {"write_entry", "set_alive"}
  <2>1. CASE \E ops \in Batch(r) : append_start(r, ops)
    BY <1>0, <2>1 DEF append_start, Goto, Others, shared, ControlTypes
  <2>2. CASE LoadTail(r) \/ LoadHead_Room(r) \/ CasTailFails(r) \/ WarnTailTooBig(r)
    BY <1>0, <2>2 DEF LoadTail, LoadHead_Room, CasTailFails, WarnTailTooBig, Goto, Others, At,
                      shared, vars, ControlTypes
  <2>3. CASE LoadHead_Wait(r) \/ AppendReturn_Advance(r) \/ AppendReturn_Execute(r)
    BY <1>0, <2>3 DEF LoadHead_Wait, AppendReturn_Advance, AppendReturn_Execute, CallExecute, Goto,
                      Others, shared, ControlTypes
  <2>4. CASE LoadGlobalHead(r) \/ LoadGlobalTail(r) \/ FindMin(r)
    BY <1>0, <2>4 DEF LoadGlobalHead, LoadGlobalTail, FindMin, Goto, Others, shared, ControlTypes
  <2>5. CASE NothingToFree(r) \/ StoreHead(r)
    BY <1>0, <2>5 DEF NothingToFree, StoreHead, CallExecute, Goto, Others, shared, ControlTypes
  <2>6. CASE LoadLocalVersion(r) \/ LoadExecTail_Work(r) \/ WaitAlive(r)
    BY <1>0, <2>6 DEF LoadLocalVersion, LoadExecTail_Work, WaitAlive, Goto, Others, shared, ControlTypes
  <2>7. CASE DispatchEntry(r) \/ BumpVersionUpperBound(r)
    BY <1>0, <2>7 DEF DispatchEntry, BumpVersionUpperBound, Goto, Others, shared, ControlTypes
  <2>8. CASE LoadExecTail_NoWork(r) \/ StoreLocalVersion(r)
    <3>1. ex[r].caller \in {"load_tail", "load_global_head", "done"}
      <4>1. pc[r] \in ExecutePCs /\ ex[r] \in Executes
        BY <1>0, <2>8 DEF LoadExecTail_NoWork, StoreLocalVersion, At, ControlTypes, ExecutePCs, LoopPCs
      <4> QED BY <1>0, <4>1 DEF Locals, Executes
    <3>2. pc' = [pc EXCEPT ![r] = ex[r].caller] /\ ex' = [ex EXCEPT ![r] = NoExecute]
      BY <2>8 DEF LoadExecTail_NoWork, StoreLocalVersion, ReturnFromExecute, Goto
    <3>3. Others(r)
      BY <1>0, <2>8, <3>2 DEF LoadExecTail_NoWork, StoreLocalVersion, Others, shared, ControlTypes
    <3> QED BY <1>0, <3>1, <3>2, <3>3 DEF ControlTypes
  <2>9. CASE finish(r)
    BY <1>0, <2>9 DEF finish, Goto, Others, shared, ControlTypes
  <2> QED BY <2>1, <2>2, <2>3, <2>4, <2>5, <2>6, <2>7, <2>8, <2>9 DEF QuietStep, advance_head, execute
<1>4. LogInv'
  <2>1. CellsOK'
    BY <1>1, <1>2, <1>3, CellsKept DEF LogInv
  <2> QED BY <1>1, <2>1 DEF LogInv
<1> QED BY <1>1, <1>3, <1>4

LEMMA LogNext == ControlInv /\ LogInv /\ [Next]_vars => LogInv'
<1> SUFFICES ASSUME ControlInv, LogInv, [Next]_vars PROVE LogInv'
  OBVIOUS
<1>1. CASE Next
  <2>1. PICK r \in Replica : QuietStep(r) \/ CasTail(r) \/ WriteEntry(r) \/ SetAlive(r)
    BY <1>1, StepKinds
  <2> QED BY <2>1, QuietLog, CasTailCells, WriteEntryCells, SetAliveCells
<1>2. CASE UNCHANGED vars
  <2>1. ASSUME NEW r \in Replica PROVE Filling(r)' = Filling(r) /\ cur_idx(r)' = cur_idx(r)
    BY <1>2 DEF vars, shared, Filling, cur_idx, new_tail, NumOps
  <2>2. interp_contents' = interp_contents
    <3> HIDE DEF Filling
    <3> QED BY <1>2, <2>1 DEF vars, shared, interp_contents
  <2>3. CellsOK'
    BY <1>2, <2>1, <2>2 DEF vars, shared, LogInv, CellsOK, At, index, BatchAt
  <2> QED BY <1>2, <2>3 DEF vars, shared, LogInv
<1> QED BY <1>1, <1>2

LEMMA InitLog == Init => LogInv
<1> SUFFICES ASSUME Init PROVE LogInv
  OBVIOUS
<1>1. log \in Seq(Entry) /\ Len(log) = tail
  BY DEF Init
<1>2. \A i \in interp_contents : ~(i >= 0)
  <2>1. tail = 0 /\ LOG_SIZE \in Nat
    BY NrLogAssumption DEF Init
  <2>2. \A i \in tail - LOG_SIZE .. tail - 1 : ~(i >= 0)
    BY <2>1
  <2> QED BY <2>2 DEF interp_contents
<1>3. CellsOK
  BY <1>2 DEF Init, CellsOK, At
<1> QED BY <1>1, <1>3 DEF LogInv

LEMMA LogCorrect == Spec => [](ControlInv /\ LogInv)
<1>1. Init => ControlInv /\ LogInv
  BY InitControl, InitLog
<1>2. ControlInv /\ LogInv /\ [Next]_vars => ControlInv' /\ LogInv'
  BY ControlNext, LogNext
<1> QED BY <1>1, <1>2, PTL DEF Spec

(* An entry that is alive for a round of the buffer is the entry of that   *)
(* round, whole, until every replica has applied it, and reserved entries  *)
(* are not alive: whoever waits for an alive bit of log.rs may read the    *)
(* cell without looking at anything else.                                  *)
THEOREM AliveEntriesAreTheLogCorrect == Spec => []AliveEntriesAreTheLog
<1>1. ControlInv /\ LogInv => AliveEntriesAreTheLog
  <2> SUFFICES ASSUME ControlInv, LogInv, NEW i \in 0 .. tail - 1,
                      NEW r \in Replica, local_versions[r] <= i
               PROVE  /\ alive(i) <=> \A s \in Replica : i \notin Filling(s)
                      /\ alive(i) => slog[index(i)].log_entry = log[i + 1]
    BY DEF AliveEntriesAreTheLog
  <2>1. tail \in Nat /\ LOG_SIZE \in Nat /\ local_versions[r] \in Nat /\ tail <= local_versions[r] + LOG_SIZE
    BY Typed, Guaranteed DEF ControlInv
  <2>2. i \in tail - LOG_SIZE .. tail - 1 /\ i >= 0
    BY <2>1
  <2>3. i \in interp_contents <=> \A s \in Replica : i \notin Filling(s)
    BY <2>2 DEF interp_contents
  <2>4. alive(i) <=> i \in interp_contents
    <3> HIDE DEF Filling
    <3> QED BY <2>2, Cells
  <2> QED BY <2>2, <2>3, <2>4 DEF LogInv, CellsOK
<1> QED BY <1>1, LogCorrect, PTL

-----------------------------------------------------------------------------
(* Copies and answers *)

(* The batch of replica n has not been appended: a combiner at p, with the *)
(* locals e of execute. *)
NotAppended(p, e) ==
  p \in {"ready", "load_tail", "load_head", "cas_tail", "panic"} \/ e.caller = "load_tail"

(* No entry of replica n in the log l after its first `from' entries. *)
NoneOf(l, from, n) == \A i \in from + 1 .. Len(l) : l[i].node_id # n

(* How many entries of a batch after `at' a replica at version v has applied. *)
Applied(v, at, size) == IF v <= at THEN 0 ELSE IF v < at + size THEN v - at ELSE size

(* The batch ops of replica n is in the log l after `at' and the last that *)
(* n has appended. A replica at version v that has recorded version u has  *)
(* nothing else of n's to apply, has recorded all of the batch or nothing, *)
(* and has answered what it has applied of it.                             *)
Answered(l, ops, resp, v, u, at, n) ==
  /\ at + Len(ops) <= Len(l)
  /\ BatchAt(l, ops, at, n)
  /\ NoneOf(l, at + Len(ops), n)
  /\ \A i \in u + 1 .. Len(l) : l[i].node_id = n => i \in at + 1 .. at + Len(ops)
  /\ u <= at \/ at + Len(ops) <= u
  /\ Len(resp) = Applied(v, at, Len(ops))
  /\ \A k \in 1 .. Len(resp) : resp[k] = compute_nrstate_at_version(l, at + k - 1)

(* Before it is appended, a batch has no answers and the replica has       *)
(* nothing of its own left to apply; afterwards there is one place of the  *)
(* log where it is, which execute covers before it returns to the caller.  *)
BatchOK(p, e, l, ops, resp, v, u, n) ==
  /\ NotAppended(p, e) => NoneOf(l, u, n) /\ resp = << >>
  /\ ~NotAppended(p, e) =>
       \E at \in 0 .. Len(l) :
          /\ Answered(l, ops, resp, v, u, at, n)
          /\ p \in LoopPCs => at + Len(ops) <= e.global_tail
          /\ p = "done" => at + Len(ops) <= v

(* Where a replica's copy has got to: p is its pc, e its locals of execute, *)
(* u its local version.                                                    *)
Version(p, e, u) == IF p \in LoopPCs THEN e.local_version ELSE u

(* A replica's copy and its answers. *)
AnswerOK(p, e, u, l, ops, resp, copy, n) ==
  /\ copy = compute_nrstate_at_version(l, Version(p, e, u))
  /\ BatchOK(p, e, l, ops, resp, Version(p, e, u), u, n)

(* Given what holds of the log and its cells, this is inductive: where a   *)
(* batch is in the log is what an answer has to remember while others      *)
(* append and this replica executes, in whatever place of the code.        *)
AnswersOK ==
  /\ replicas \in [Replica -> Seq(AllOps)]
  /\ responses \in [Replica -> Seq(Seq(AllOps))]
  /\ \A r \in Replica :
       AnswerOK(pc[r], ex[r], local_versions[r], log, operations[r], responses[r], replicas[r], r)

(* Replaying one more entry. *)
LEMMA Replay ==
  ASSUME NEW l \in Seq(Entry), NEW v \in Nat, v <= Len(l)
  PROVE  /\ compute_nrstate_at_version(l, v) \in Seq(AllOps)
         /\ Len(compute_nrstate_at_version(l, v)) = v
         /\ \A i \in 1 .. v : compute_nrstate_at_version(l, v)[i] = l[i].op
<1>1. ASSUME NEW i \in 1 .. v PROVE l[i].op \in AllOps
  <2>1. l[i] \in Entry
    OBVIOUS
  <2> QED BY <2>1 DEF Entry, AllOps
<1>2. [i \in 1 .. v |-> l[i].op] \in [1 .. v -> AllOps]
  BY <1>1
<1> QED BY <1>2 DEF compute_nrstate_at_version

LEMMA ReplayOne ==
  ASSUME NEW l \in Seq(Entry), NEW v \in Nat, v < Len(l)
  PROVE  Append(compute_nrstate_at_version(l, v), l[v + 1].op) = compute_nrstate_at_version(l, v + 1)
<1> DEFINE a == compute_nrstate_at_version(l, v)
           b == compute_nrstate_at_version(l, v + 1)
           o == l[v + 1].op
<1>1. /\ a \in Seq(AllOps) /\ Len(a) = v /\ \A i \in 1 .. v : a[i] = l[i].op
  BY Replay
<1>2. /\ b \in Seq(AllOps) /\ Len(b) = v + 1 /\ \A i \in 1 .. v + 1 : b[i] = l[i].op
  <2>1. v + 1 \in Nat /\ v + 1 <= Len(l)
    OBVIOUS
  <2> QED BY <2>1, Replay
<1>3. b[v + 1] = o
  BY <1>2
<1>4. o \in AllOps
  BY <1>2, <1>3
<1> HIDE DEF a, b, o
<1>5. Append(a, o) \in Seq(AllOps) /\ Len(Append(a, o)) = v + 1
  BY <1>1, <1>4
<1>6. \A i \in 1 .. v + 1 : Append(a, o)[i] = b[i]
  BY <1>1, <1>2, <1>3, <1>4
<1>7. Append(a, o) = b
  BY <1>2, <1>5, <1>6, SeqEqual
<1> QED BY <1>7 DEF a, b, o

LEMMA ReplayPrefix ==
  ASSUME NEW l \in Seq(Entry), NEW m \in Seq(Entry), NEW v \in Nat, v <= Len(l)
  PROVE  compute_nrstate_at_version(l \o m, v) = compute_nrstate_at_version(l, v)
<1>1. \A i \in 1 .. v : (l \o m)[i] = l[i]
  OBVIOUS
<1> QED BY <1>1 DEF compute_nrstate_at_version

(* The log grows by entries of another replica. *)
LEMMA BatchGrows ==
  ASSUME NEW p, NEW e, NEW l \in Seq(Entry), NEW m \in Seq(Entry), NEW ops \in Seq(AllOps), NEW resp,
         NEW v \in Nat, NEW u \in Nat, v <= Len(l), NEW n, \A k \in 1 .. Len(m) : m[k].node_id # n,
         BatchOK(p, e, l, ops, resp, v, u, n)
  PROVE  BatchOK(p, e, l \o m, ops, resp, v, u, n)
<1> DEFINE g == l \o m
<1>1. /\ g \in Seq(Entry) /\ Len(g) = Len(l) + Len(m)
      /\ \A i \in 1 .. Len(l) : g[i] = l[i]
      /\ \A k \in 1 .. Len(m) : g[Len(l) + k] = m[k]
  BY Concat
<1>2. ASSUME NEW w \in Nat, NEW i \in w + 1 .. Len(g), g[i].node_id = n
      PROVE  i \in w + 1 .. Len(l) /\ l[i].node_id = n
  <2> HIDE DEF g
  <2>1. CASE i <= Len(l)
    BY <1>1, <1>2, <2>1
  <2>2. CASE ~(i <= Len(l))
    <3> DEFINE k == i - Len(l)
    <3>1. k \in 1 .. Len(m) /\ i = Len(l) + k
      BY <1>1, <2>2
    <3>2. g[i] = m[k]
      <4> HIDE DEF k
      <4> QED BY <1>1, <3>1
    <3> QED BY <1>2, <3>1, <3>2
  <2> QED BY <2>1, <2>2
<1>3. \A w \in Nat : NoneOf(l, w, n) => NoneOf(g, w, n)
  <2> HIDE DEF g
  <2> QED BY <1>2 DEF NoneOf
<1>4. ASSUME NEW at \in 0 .. Len(l), Answered(l, ops, resp, v, u, at, n)
      PROVE  Answered(g, ops, resp, v, u, at, n) /\ at \in 0 .. Len(g)
  <2>1. /\ at + Len(ops) <= Len(l) /\ BatchAt(l, ops, at, n)
        /\ NoneOf(l, at + Len(ops), n)
        /\ \A i \in u + 1 .. Len(l) : l[i].node_id = n => i \in at + 1 .. at + Len(ops)
        /\ u <= at \/ at + Len(ops) <= u
        /\ Len(resp) = Applied(v, at, Len(ops))
        /\ \A k \in 1 .. Len(resp) : resp[k] = compute_nrstate_at_version(l, at + k - 1)
    BY <1>4 DEF Answered
  <2>2. BatchAt(g, ops, at, n)
    BY <2>1, BatchStays
  <2>3. Len(resp) \in Nat /\ Len(resp) <= Len(ops) /\ at \in Nat /\ Len(ops) \in Nat
    BY <2>1 DEF Applied
  <2>4. ASSUME NEW k \in 1 .. Len(resp) PROVE resp[k] = compute_nrstate_at_version(g, at + k - 1)
    <3>1. at + k - 1 \in Nat /\ at + k - 1 <= Len(l)
      BY <2>1, <2>3
    <3>2. compute_nrstate_at_version(g, at + k - 1) = compute_nrstate_at_version(l, at + k - 1)
      BY <3>1, ReplayPrefix
    <3> QED BY <2>1, <3>2
  <2>5. at + Len(ops) <= Len(g) /\ at \in 0 .. Len(g)
    BY <1>1, <2>1, <2>3
  <2>6. NoneOf(g, at + Len(ops), n)
    <3>1. at + Len(ops) \in Nat
      BY <2>3
    <3> HIDE DEF g
    <3> QED BY <1>3, <2>1, <3>1
  <2> HIDE DEF g
  <2> QED BY <1>2, <2>1, <2>2, <2>4, <2>5, <2>6 DEF Answered
<1> HIDE DEF g
<1>5. BatchOK(p, e, g, ops, resp, v, u, n)
  BY <1>3, <1>4 DEF BatchOK
<1> QED BY <1>5 DEF g

(* A batch that is appended. *)
LEMMA BatchAppended ==
  ASSUME NEW p, NEW e, NEW q, NEW d, NEW l \in Seq(Entry), NEW g \in Seq(Entry),
         NEW ops \in Seq(AllOps), NEW resp, NEW v \in Nat, v <= Len(l), NEW n,
         NEW u \in Nat, u <= v,
         Len(g) = Len(l) + Len(ops), \A i \in 1 .. Len(l) : g[i] = l[i],
         BatchAt(g, ops, Len(l), n),
         BatchOK(p, e, l, ops, resp, v, u, n), NotAppended(p, e),
         ~NotAppended(q, d), q \notin LoopPCs, q # "done"
  PROVE  BatchOK(q, d, g, ops, resp, v, u, n)
<1> DEFINE at == Len(l)
<1>1. at \in Nat /\ Len(g) \in Nat /\ Len(ops) \in Nat
  OBVIOUS
<1>2. NoneOf(l, u, n) /\ resp = << >>
  BY DEF BatchOK
<1>3. \A i \in u + 1 .. Len(g) : g[i].node_id = n => i \in at + 1 .. at + Len(ops)
  <2> SUFFICES ASSUME NEW i \in u + 1 .. Len(g), i <= Len(l) PROVE g[i].node_id # n
    BY <1>1
  <2>1. g[i] = l[i] /\ i \in u + 1 .. Len(l)
    BY <1>1
  <2> QED BY <1>2, <2>1 DEF NoneOf
<1>4. /\ Len(resp) = 0 /\ Applied(v, at, Len(ops)) = 0 /\ at + Len(ops) <= Len(g) /\ at \in 0 .. Len(g)
      /\ u <= at /\ NoneOf(g, at + Len(ops), n)
  BY <1>1, <1>2 DEF Applied, NoneOf
<1>5. Answered(g, ops, resp, v, u, at, n)
  <2>1. \A k \in 1 .. Len(resp) : resp[k] = compute_nrstate_at_version(g, at + k - 1)
    BY <1>4
  <2> HIDE DEF at
  <2> QED BY <1>3, <1>4, <2>1 DEF Answered, at
<1> QED BY <1>4, <1>5 DEF BatchOK

(* The replica applies an entry. *)
LEMMA BatchDispatch ==
  ASSUME NEW p, NEW e, NEW q, NEW d, NEW l \in Seq(Entry), NEW ops \in Seq(AllOps),
         NEW resp \in Seq(Seq(AllOps)), NEW new, NEW v \in Nat, v < Len(l), NEW n,
         NEW u \in Nat, u <= v,
         BatchOK(p, e, l, ops, resp, v, u, n), p \in LoopPCs, q \in LoopPCs,
         d.caller = e.caller, d.global_tail = e.global_tail,
         new = IF l[v + 1].node_id = n THEN Append(resp, compute_nrstate_at_version(l, v)) ELSE resp
  PROVE  BatchOK(q, d, l, ops, new, v + 1, u, n)
<1> DEFINE w == v + 1
           s == compute_nrstate_at_version(l, v)
<1>0. NotAppended(q, d) <=> NotAppended(p, e)
  BY DEF NotAppended, LoopPCs
<1>w. w \in Nat /\ w \in u + 1 .. Len(l)
  OBVIOUS
<1>1. CASE NotAppended(p, e)
  <2>1. NoneOf(l, u, n) /\ resp = << >>
    BY <1>1 DEF BatchOK
  <2>2. l[w].node_id # n
    <3> HIDE DEF w
    <3> QED BY <1>w, <2>1 DEF NoneOf
  <2> QED BY <1>0, <1>1, <2>1, <2>2 DEF BatchOK
<1>2. CASE ~NotAppended(p, e)
  <2>1. PICK at \in 0 .. Len(l) : Answered(l, ops, resp, v, u, at, n) /\ at + Len(ops) <= e.global_tail
    BY <1>2 DEF BatchOK
  <2>2. /\ at + Len(ops) <= Len(l) /\ BatchAt(l, ops, at, n)
        /\ NoneOf(l, at + Len(ops), n)
        /\ \A i \in u + 1 .. Len(l) : l[i].node_id = n => i \in at + 1 .. at + Len(ops)
        /\ u <= at \/ at + Len(ops) <= u
        /\ Len(resp) = Applied(v, at, Len(ops))
        /\ \A k \in 1 .. Len(resp) : resp[k] = compute_nrstate_at_version(l, at + k - 1)
    BY <2>1 DEF Answered
  <2>3. at \in Nat /\ Len(ops) \in Nat /\ Len(resp) \in Nat
    BY <2>1
  <2>5. CASE l[w].node_id = n
    <3>1. w \in at + 1 .. at + Len(ops)
      <4> HIDE DEF w
      <4> QED BY <1>w, <2>2, <2>5
    <3>2. at <= v /\ v < at + Len(ops)
      BY <2>3, <3>1
    <3>3. Len(resp) = v - at /\ Applied(w, at, Len(ops)) = v - at + 1
      BY <2>2, <2>3, <3>2 DEF Applied
    <3>4. new = Append(resp, s) /\ s \in Seq(AllOps)
      BY <2>5, Replay
    <3>5. /\ Len(new) = v - at + 1 /\ new[v - at + 1] = s
          /\ \A k \in 1 .. v - at : new[k] = resp[k]
      <4> DEFINE S == Seq(AllOps)
      <4>1. resp \in Seq(S) /\ s \in S
        BY <3>4
      <4> HIDE DEF S, s, w
      <4>2. /\ Len(new) = Len(resp) + 1 /\ new[Len(resp) + 1] = s
            /\ \A k \in 1 .. Len(resp) : new[k] = resp[k]
        BY <3>4, <4>1, AppendProperties
      <4> QED BY <3>3, <4>2
    <3> HIDE DEF s, w
    <3>6. ASSUME NEW k \in 1 .. Len(new) PROVE new[k] = compute_nrstate_at_version(l, at + k - 1)
      <4>1. CASE k = v - at + 1
        <5>1. at + k - 1 = v
          BY <2>3, <4>1
        <5> QED BY <3>5, <4>1, <5>1 DEF s
      <4>2. CASE k # v - at + 1
        <5>1. k \in 1 .. v - at /\ k \in 1 .. Len(resp)
          BY <2>3, <3>3, <3>5, <4>2
        <5> QED BY <2>2, <3>5, <5>1
      <4> QED BY <4>1, <4>2
    <3>7. Answered(l, ops, new, w, u, at, n)
      BY <2>2, <3>3, <3>5, <3>6 DEF Answered
    <3> QED BY <1>0, <1>2, <2>1, <3>7 DEF BatchOK, w, LoopPCs
  <2>6. CASE l[w].node_id # n
    <3>1. w \notin at + 1 .. at + Len(ops)
      <4> SUFFICES ASSUME w \in at + 1 .. at + Len(ops) PROVE FALSE
        OBVIOUS
      <4> DEFINE k == w - at
      <4>1. k \in 1 .. Len(ops) /\ w = at + k
        BY <1>w, <2>3
      <4>2. l[w].node_id = n
        <5> HIDE DEF w, k
        <5>1. l[at + k] = [op |-> ops[k], node_id |-> n]
          BY <2>2, <4>1 DEF BatchAt
        <5> QED BY <4>1, <5>1
      <4> QED BY <2>6, <4>2
    <3>2. Applied(w, at, Len(ops)) = Applied(v, at, Len(ops))
      BY <2>3, <3>1 DEF Applied
    <3>3. new = resp
      BY <2>6
    <3> HIDE DEF w
    <3>4. Answered(l, ops, new, w, u, at, n)
      BY <2>2, <3>2, <3>3 DEF Answered
    <3> QED BY <1>0, <1>2, <2>1, <3>4 DEF BatchOK, w, LoopPCs
  <2> QED BY <2>5, <2>6
<1> QED BY <1>1, <1>2

-----------------------------------------------------------------------------
(* Every step keeps the answers right *)

(* From p, e and u, a combiner comes to q, d and w without applying an     *)
(* entry or appending: what it has reached of a log with `size' entries    *)
(* stays, and a pass of execute ends only where it has covered the batch.  *)
Continues(p, e, u, q, d, w, size) ==
  /\ Version(q, d, w) = Version(p, e, u)
  /\ w = u \/ (p \in LoopPCs /\ w = e.global_tail /\ u <= w)
  /\ NotAppended(q, d) <=> NotAppended(p, e)
  /\ q \in LoopPCs => \/ size <= d.global_tail
                      \/ p \in LoopPCs /\ d.global_tail = e.global_tail
  /\ q = "done" => \/ size <= Version(p, e, u)
                   \/ p \in LoopPCs /\ e.global_tail <= Version(p, e, u)

LEMMA AnswerContinues ==
  ASSUME NEW p, NEW e, NEW u, NEW q, NEW d, NEW w, NEW l \in Seq(Entry), NEW ops, NEW new,
         NEW resp, NEW copy, NEW n,
         AnswerOK(p, e, u, l, ops, resp, copy, n), Continues(p, e, u, q, d, w, Len(l)),
         NotAppended(p, e) \/ new = ops, u \in Nat,
         Len(ops) \in Nat, Version(p, e, u) \in Nat, e.global_tail \in Nat, d.global_tail \in Nat
  PROVE  AnswerOK(q, d, w, l, new, resp, copy, n)
<1> DEFINE v == Version(p, e, u)
<1>1. /\ copy = compute_nrstate_at_version(l, v) /\ BatchOK(p, e, l, ops, resp, v, u, n)
      /\ Version(q, d, w) = v /\ v \in Nat
      /\ w = u \/ (p \in LoopPCs /\ w = e.global_tail /\ u <= w)
      /\ NotAppended(q, d) <=> NotAppended(p, e)
      /\ q \in LoopPCs => Len(l) <= d.global_tail \/ (p \in LoopPCs /\ d.global_tail = e.global_tail)
      /\ q = "done" => Len(l) <= v \/ (p \in LoopPCs /\ e.global_tail <= v)
  BY DEF AnswerOK, Continues
<1> HIDE DEF v
<1>2. CASE NotAppended(p, e)
  <2>1. NoneOf(l, u, n) /\ resp = << >>
    BY <1>1, <1>2 DEF BatchOK
  <2>2. NoneOf(l, w, n)
    BY <1>1, <2>1 DEF NoneOf
  <2>3. BatchOK(q, d, l, new, resp, v, w, n)
    BY <1>1, <1>2, <2>1, <2>2 DEF BatchOK
  <2> QED BY <1>1, <2>3 DEF AnswerOK
<1>3. CASE ~NotAppended(p, e)
  <2>1. PICK at \in 0 .. Len(l) : /\ Answered(l, ops, resp, v, u, at, n)
                                  /\ p \in LoopPCs => at + Len(ops) <= e.global_tail
                                  /\ p = "done" => at + Len(ops) <= v
    BY <1>1, <1>3 DEF BatchOK
  <2>2. at + Len(ops) <= Len(l) /\ at \in Nat /\ Len(l) \in Nat
    BY <2>1 DEF Answered
  <2>3. q \in LoopPCs => at + Len(ops) <= d.global_tail
    BY <1>1, <2>1, <2>2
  <2>4. q = "done" => at + Len(ops) <= v
    BY <1>1, <2>1, <2>2
  <2>5. new = ops
    BY <1>3
  <2>6. Answered(l, ops, resp, v, w, at, n)
    <3>1. CASE w = u
      BY <2>1, <3>1
    <3>2. CASE p \in LoopPCs /\ w = e.global_tail /\ u <= w
      <4>1. at + Len(ops) <= w
        BY <2>1, <3>2
      <4>2. \A i \in w + 1 .. Len(l) : i \in u + 1 .. Len(l)
        BY <3>2
      <4> QED BY <2>1, <4>1, <4>2 DEF Answered
    <3> QED BY <1>1, <3>1, <3>2
  <2>7. BatchOK(q, d, l, new, resp, v, w, n)
    BY <1>1, <1>3, <2>1, <2>3, <2>4, <2>5, <2>6 DEF BatchOK
  <2> QED BY <1>1, <2>7 DEF AnswerOK
<1> QED BY <1>2, <1>3

(* What the caller clears, it clears of a batch that the replica is past.  *)
LEMMA AnswerCleared ==
  ASSUME NEW e, NEW u \in Nat, NEW l \in Seq(Entry), NEW ops \in Seq(AllOps), NEW resp, NEW copy,
         NEW n, AnswerOK("done", e, u, l, ops, resp, copy, n), e.caller = "none"
  PROVE  AnswerOK("ready", e, u, l, << >>, << >>, copy, n)
<1>1. Version("done", e, u) = u /\ Version("ready", e, u) = u
  BY DEF Version, LoopPCs
<1>2. ~NotAppended("done", e) /\ NotAppended("ready", e)
  BY DEF NotAppended
<1>3. PICK at \in 0 .. Len(l) : Answered(l, ops, resp, u, u, at, n) /\ at + Len(ops) <= u
  BY <1>1, <1>2 DEF AnswerOK, BatchOK
<1>4. NoneOf(l, u, n)
  <2> SUFFICES ASSUME NEW i \in u + 1 .. Len(l), l[i].node_id = n PROVE FALSE
    BY DEF NoneOf
  <2>1. i \in at + 1 .. at + Len(ops)
    BY <1>3 DEF Answered
  <2> QED BY <1>3, <2>1
<1> QED BY <1>1, <1>2, <1>4 DEF AnswerOK, BatchOK

(* The other replicas' answers do not depend on what combiner r does, as   *)
(* long as the log stays.                                                  *)
LEMMA AnswersFrame ==
  ASSUME AnswersOK, NEW r \in Replica, Others(r), log' = log,
         replicas' \in [Replica -> Seq(AllOps)], responses' \in [Replica -> Seq(Seq(AllOps))],
         \A s \in Replica \ {r} : replicas'[s] = replicas[s] /\ responses'[s] = responses[s],
         AnswerOK(pc'[r], ex'[r], local_versions'[r], log, operations'[r], responses'[r], replicas'[r], r)
  PROVE  AnswersOK'
<1>1. ASSUME NEW s \in Replica
      PROVE  AnswerOK(pc'[s], ex'[s], local_versions'[s], log', operations'[s], responses'[s],
                      replicas'[s], s)
  <2>1. CASE s = r
    BY <2>1
  <2>2. CASE s # r
    <3>1. s \in Replica \ {r}
      BY <2>2
    <3>2. /\ pc'[s] = pc[s] /\ ex'[s] = ex[s] /\ local_versions'[s] = local_versions[s]
          /\ operations'[s] = operations[s]
      BY <3>1 DEF Others
    <3>3. AnswerOK(pc[s], ex[s], local_versions[s], log, operations[s], responses[s], replicas[s], s)
      BY DEF AnswersOK
    <3> QED BY <3>1, <3>2, <3>3
  <2> QED BY <2>1, <2>2
<1> QED BY <1>1 DEF AnswersOK, AnswerOK, BatchOK, Version, NotAppended, NoneOf, Answered, BatchAt

(* What a quiet step does to the answers' part of the state, but for the   *)
(* two that change it.                                                     *)
LEMMA QuietContinues ==
  ASSUME ControlInv, LogInv, NEW r \in Replica, QuietStep(r), ~DispatchEntry(r), ~finish(r)
  PROVE  /\ UNCHANGED <<replicas, responses>>
         /\ NotAppended(pc[r], ex[r]) \/ operations'[r] = operations[r]
         /\ Continues(pc[r], ex[r], local_versions[r], pc'[r], ex'[r], local_versions'[r], Len(log))
<1>0. /\ ControlTypes /\ Locals(pc[r], ap[r], ah[r], ex[r], NumOps(r)) /\ Len(log) = tail /\ tail \in Nat
      /\ ex[r].local_version \in Nat /\ ex[r].global_tail \in Nat
  BY Typed DEF ControlInv, LocalsOK, LogInv
<1>1. CASE \E ops \in Batch(r) : append_start(r, ops)
  <2>1. /\ pc[r] = "ready" /\ pc'[r] = "load_tail"
        /\ UNCHANGED <<replicas, responses, ex, local_versions>>
    BY <1>0, <1>1 DEF append_start, At, Goto, shared, ControlTypes
  <2> QED BY <2>1 DEF Continues, Version, NotAppended, LoopPCs
<1>2. CASE LoadTail(r) \/ LoadHead_Room(r) \/ CasTailFails(r)
  <2>1. /\ pc[r] \in {"load_tail", "load_head", "cas_tail"}
        /\ pc'[r] \in {"load_tail", "load_head", "cas_tail", "panic"}
        /\ UNCHANGED <<replicas, responses, operations, ex, local_versions>>
    BY <1>0, <1>2 DEF LoadTail, LoadHead_Room, CasTailFails, At, Goto, shared, ControlTypes
  <2> QED BY <2>1 DEF Continues, Version, NotAppended, LoopPCs
<1>3. CASE WarnTailTooBig(r)
  <2>1. UNCHANGED <<replicas, responses, operations, ex, local_versions, pc>> /\ pc[r] = "panic"
    BY <1>3 DEF WarnTailTooBig, At, vars, shared
  <2> QED BY <2>1 DEF Continues, Version, NotAppended, LoopPCs
<1>4. CASE LoadHead_Wait(r) \/ AppendReturn_Execute(r) \/ NothingToFree(r) \/ StoreHead(r)
  <2>1. /\ pc'[r] = "load_version"
        /\ \/ pc[r] = "load_head" /\ ex'[r].caller = "load_tail"
           \/ pc[r] \in {"append_return", "store_head"} /\ ex'[r].caller \in {"load_global_head", "done"}
        /\ UNCHANGED <<replicas, responses, operations, local_versions>>
    <3>1. CASE LoadHead_Wait(r)
      BY <1>0, <3>1 DEF LoadHead_Wait, CallExecute, At, Goto, shared, ControlTypes, NoExecute
    <3>2. CASE AppendReturn_Execute(r) \/ NothingToFree(r)
      BY <1>0, <3>2 DEF AppendReturn_Execute, NothingToFree, CallExecute, At, Goto, shared, ControlTypes,
                        NoExecute
    <3>3. CASE StoreHead(r)
      BY <1>0, <3>3 DEF StoreHead, CallExecute, At, Goto, shared, ControlTypes, NoExecute
    <3> QED BY <1>4, <3>1, <3>2, <3>3
  <2>2. pc[r] \in {"append_return", "store_head"} => ex[r].caller = "none"
    BY <1>0 DEF Locals, ExecutePCs, LoopPCs
  <2> QED BY <2>1, <2>2 DEF Continues, Version, NotAppended, LoopPCs
<1>5. CASE AppendReturn_Advance(r) \/ LoadGlobalHead(r) \/ LoadGlobalTail(r) \/ FindMin(r)
  <2>1. /\ pc[r] \in {"append_return"} \cup AdvancePCs /\ pc'[r] \in AdvancePCs
        /\ UNCHANGED <<replicas, responses, operations, ex, local_versions>>
    BY <1>0, <1>5 DEF AppendReturn_Advance, LoadGlobalHead, LoadGlobalTail, FindMin, At, Goto, shared,
                      ControlTypes, AdvancePCs
  <2> QED BY <2>1 DEF Continues, Version, NotAppended, LoopPCs, AdvancePCs
<1>6. CASE LoadLocalVersion(r) \/ WaitAlive(r) \/ BumpVersionUpperBound(r)
  <2>1. /\ \/ pc[r] = "load_version" /\ pc'[r] = "load_exec_tail"
           \/ pc[r] \in LoopPCs /\ pc'[r] \in LoopPCs /\ ex'[r] = ex[r]
        /\ ex'[r].caller = ex[r].caller
        /\ UNCHANGED <<replicas, responses, operations, local_versions>>
    BY <1>0, <1>6 DEF LoadLocalVersion, WaitAlive, BumpVersionUpperBound, At, Goto, shared,
                      ControlTypes, LoopPCs, Executes
  <2> QED BY <2>1 DEF Continues, Version, NotAppended, LoopPCs
<1>7. CASE LoadExecTail_Work(r)
  <2>1. /\ pc[r] = "load_exec_tail" /\ pc'[r] = "wait_alive"
        /\ ex'[r].caller = ex[r].caller /\ ex'[r].global_tail = tail
        /\ ex'[r].local_version = ex[r].local_version
        /\ UNCHANGED <<replicas, responses, operations, local_versions>>
    BY <1>0, <1>7 DEF LoadExecTail_Work, At, Goto, shared, ControlTypes, Executes
  <2>2. ex[r].local_version = local_versions[r]
    BY <2>1, Guaranteed
  <2> QED BY <1>0, <2>1, <2>2 DEF Continues, Version, NotAppended, LoopPCs
<1>8. CASE LoadExecTail_NoWork(r) \/ StoreLocalVersion(r)
  <2>1. /\ pc[r] \in {"load_exec_tail", "store_version"}
        /\ pc'[r] = ex[r].caller /\ ex'[r].caller = "none"
        /\ pc[r] = "load_exec_tail" => ex[r].local_version = tail /\ local_versions'[r] = local_versions[r]
        /\ pc[r] = "store_version" => local_versions'[r] = ex[r].global_tail
        /\ UNCHANGED <<replicas, responses, operations>>
    BY <1>0, <1>8 DEF LoadExecTail_NoWork, StoreLocalVersion, ReturnFromExecute, At, Goto, shared,
                      ControlTypes, NoExecute
  <2>2. ex[r].caller \in {"load_tail", "load_global_head", "done"}
    <3>1. pc[r] \in ExecutePCs /\ ex[r] \in Executes
      BY <1>0, <2>1 DEF ControlTypes, ExecutePCs, LoopPCs
    <3> QED BY <1>0, <3>1 DEF Locals, Executes
  <2>3. CASE pc[r] = "load_exec_tail"
    <3>1. ex[r].local_version = local_versions[r]
      BY <2>3, Guaranteed
    <3> QED BY <1>0, <2>1, <2>2, <2>3, <3>1 DEF Continues, Version, NotAppended, LoopPCs
  <2>4. CASE pc[r] = "store_version"
    <3>1. ex[r].local_version = ex[r].global_tail
      BY <1>0, <2>4 DEF Locals
    <3>2. local_versions[r] <= ex[r].global_tail
      <4>1. local_versions[r] <= ex[r].local_version
        BY <2>4, Guaranteed DEF LoopPCs
      <4> QED BY <3>1, <4>1
    <3> QED BY <1>0, <2>1, <2>2, <2>4, <3>1, <3>2 DEF Continues, Version, NotAppended, LoopPCs
  <2> QED BY <2>1, <2>3, <2>4
<1> QED BY <1>1, <1>2, <1>3, <1>4, <1>5, <1>6, <1>7, <1>8 DEF QuietStep, advance_head, execute

(* Where the numbers of a combiner are right. *)
LEMMA AnswerTypes ==
  ASSUME ControlTypes, NEW r \in Replica
  PROVE  /\ operations[r] \in Seq(AllOps) /\ Len(operations[r]) \in Nat
         /\ Version(pc[r], ex[r], local_versions[r]) \in Nat
         /\ ex[r].global_tail \in Nat /\ ex[r].local_version \in Nat /\ local_versions[r] \in Nat
<1>1. operations[r] \in Seq(AllOps)
  BY DEF ControlTypes
<1> QED BY <1>1, Typed DEF Version

LEMMA QuietAnswers ==
  ASSUME ControlInv, LogInv, AnswersOK, ControlTypes', NEW r \in Replica, QuietStep(r),
         ~DispatchEntry(r), ~finish(r)
  PROVE  AnswersOK'
<1>1. /\ log \in Seq(Entry) /\ log' = log /\ Others(r) /\ UNCHANGED <<replicas, responses>>
      /\ NotAppended(pc[r], ex[r]) \/ operations'[r] = operations[r]
      /\ Continues(pc[r], ex[r], local_versions[r], pc'[r], ex'[r], local_versions'[r], Len(log))
  BY QuietLog, QuietContinues DEF LogInv
<1>2. ex'[r].global_tail \in Nat
  BY NrLogAssumption DEF ControlTypes, Executes
<1>3. AnswerOK(pc[r], ex[r], local_versions[r], log, operations[r], responses[r], replicas[r], r)
  BY DEF AnswersOK
<1>4. AnswerOK(pc'[r], ex'[r], local_versions'[r], log, operations'[r], responses[r], replicas[r], r)
  BY <1>1, <1>2, <1>3, AnswerTypes, AnswerContinues DEF ControlInv
<1>5. /\ replicas' \in [Replica -> Seq(AllOps)] /\ responses' \in [Replica -> Seq(Seq(AllOps))]
      /\ \A s \in Replica \ {r} : replicas'[s] = replicas[s] /\ responses'[s] = responses[s]
  BY <1>1 DEF AnswersOK
<1> QED BY <1>1, <1>4, <1>5, AnswersFrame

LEMMA WriteAnswers ==
  ASSUME ControlInv, LogInv, AnswersOK, ControlTypes', NEW r \in Replica, WriteEntry(r) \/ SetAlive(r)
  PROVE  AnswersOK'
<1>1. /\ Others(r) /\ UNCHANGED <<log, replicas, responses, operations, ex, local_versions>>
      /\ pc[r] \in {"write_entry", "set_alive"}
      /\ pc'[r] \in {"write_entry", "set_alive", "append_return"}
  BY DEF WriteEntry, SetAlive, At, Goto, Others, ControlInv, ControlTypes
<1>2. Continues(pc[r], ex[r], local_versions[r], pc'[r], ex'[r], local_versions'[r], Len(log))
  BY <1>1 DEF Continues, Version, NotAppended, LoopPCs
<1>3. AnswerOK(pc[r], ex[r], local_versions[r], log, operations[r], responses[r], replicas[r], r)
  BY DEF AnswersOK
<1>4. ex'[r].global_tail \in Nat /\ log \in Seq(Entry) /\ operations'[r] = operations[r]
  BY <1>1, AnswerTypes DEF LogInv, ControlInv
<1>5. AnswerOK(pc'[r], ex'[r], local_versions'[r], log, operations'[r], responses[r], replicas[r], r)
  BY <1>2, <1>3, <1>4, AnswerTypes, AnswerContinues DEF ControlInv
<1>6. /\ replicas' \in [Replica -> Seq(AllOps)] /\ responses' \in [Replica -> Seq(Seq(AllOps))]
      /\ \A s \in Replica \ {r} : replicas'[s] = replicas[s] /\ responses'[s] = responses[s]
  BY <1>1 DEF AnswersOK
<1> QED BY <1>1, <1>5, <1>6, AnswersFrame

(* Applying an entry: it is the log's, because what a guard protects is in *)
(* the buffer.                                                             *)
LEMMA DispatchAnswers ==
  ASSUME ControlInv, LogInv, AnswersOK, NEW r \in Replica, DispatchEntry(r), Others(r)
  PROVE  AnswersOK'
<1> DEFINE v == ex[r].local_version
           copy == replicas[r]
           resp == responses[r]
           ent == log[v + 1]
           new == IF ent.node_id = r THEN Append(resp, compute_nrstate_at_version(log, v)) ELSE resp
<1>0. /\ ControlTypes /\ log \in Seq(Entry) /\ Len(log) = tail /\ tail \in Nat /\ v \in Nat
      /\ replicas \in [Replica -> Seq(AllOps)] /\ responses \in [Replica -> Seq(Seq(AllOps))]
      /\ Locals(pc[r], ap[r], ah[r], ex[r], NumOps(r))
      /\ pc[r] = "dispatch"
  BY Typed DEF ControlInv, LocalsOK, LogInv, AnswersOK, DispatchEntry, At
<1>1. v < Len(log) /\ v + 1 \in 1 .. Len(log)
  <2>1. v < ex[r].global_tail
    BY <1>0 DEF Locals
  <2>2. ex[r].global_tail <= tail /\ ex[r].global_tail \in Nat
    BY <1>0, Guaranteed, Typed
  <2> QED BY <1>0, <2>1, <2>2
<1>2. slog[index(v)].log_entry = ent
  <2>1. v \in interp_contents
    BY <1>0, Holding
  <2> QED BY <1>0, <2>1 DEF LogInv, CellsOK
<1>u. local_versions[r] \in Nat /\ local_versions[r] <= v
  BY <1>0, Guaranteed, Typed DEF LoopPCs
<1>3. /\ copy = compute_nrstate_at_version(log, v)
      /\ BatchOK(pc[r], ex[r], log, operations[r], resp, v, local_versions[r], r)
  BY <1>0 DEF AnswersOK, AnswerOK, Version, LoopPCs
<1>4. compute_nrstate_at_version(log, v) \in Seq(AllOps)
  BY <1>0, <1>1, Replay
<1>5. /\ replicas' = [replicas EXCEPT ![r] = Append(copy, ent.op)]
      /\ responses' = [responses EXCEPT ![r] = new]
      /\ ex'[r].local_version = v + 1 /\ ex'[r].global_tail = ex[r].global_tail
      /\ ex'[r].caller = ex[r].caller
      /\ pc'[r] \in LoopPCs
      /\ log' = log /\ operations'[r] = operations[r] /\ local_versions'[r] = local_versions[r]
  <2>1. /\ replicas' = [replicas EXCEPT ![r] = Append(copy, ent.op)]
        /\ responses' = IF ent.node_id = r THEN [responses EXCEPT ![r] = Append(@, copy)] ELSE responses
        /\ ex' = [ex EXCEPT ![r].local_version = @ + 1]
        /\ pc' = [pc EXCEPT ![r] = IF v + 1 < ex[r].global_tail THEN "wait_alive" ELSE "bump_version"]
        /\ log' = log /\ operations' = operations /\ local_versions' = local_versions
    BY <1>2 DEF DispatchEntry, dispatch_mut_spec, Goto, shared
  <2>2. responses' = [responses EXCEPT ![r] = new]
    BY <1>0, <1>3, <2>1
  <2>3. /\ ex'[r].local_version = v + 1 /\ ex'[r].global_tail = ex[r].global_tail
        /\ ex'[r].caller = ex[r].caller /\ pc'[r] \in LoopPCs
    BY <1>0, <2>1 DEF ControlTypes, Executes, LoopPCs
  <2> QED BY <2>1, <2>2, <2>3
<1>6. Append(copy, ent.op) = compute_nrstate_at_version(log, v + 1)
  BY <1>0, <1>1, <1>3, ReplayOne
<1>7. BatchOK(pc'[r], ex'[r], log, operations[r], new, v + 1, local_versions[r], r)
  <2>1. operations[r] \in Seq(AllOps) /\ resp \in Seq(Seq(AllOps)) /\ pc[r] \in LoopPCs
    BY <1>0, AnswerTypes DEF LoopPCs
  <2> QED BY <1>0, <1>1, <1>u, <1>3, <1>5, <2>1, BatchDispatch
<1>8. new \in Seq(Seq(AllOps)) /\ Append(copy, ent.op) \in Seq(AllOps)
  <2>1. Append(copy, ent.op) \in Seq(AllOps)
    BY <1>0, <1>1, <1>6, Replay
  <2>2. new \in Seq(Seq(AllOps))
    <3> DEFINE S == Seq(AllOps)
               c == compute_nrstate_at_version(log, v)
    <3>1. resp \in Seq(S) /\ c \in S
      BY <1>0, <1>4
    <3> HIDE DEF S, c
    <3>2. Append(resp, c) \in Seq(S)
      BY <3>1, AppendProperties
    <3> QED BY <3>1, <3>2 DEF S, c
  <2> QED BY <2>1, <2>2
<1> HIDE DEF new, copy, ent
<1>9. /\ replicas' \in [Replica -> Seq(AllOps)] /\ responses' \in [Replica -> Seq(Seq(AllOps))]
      /\ replicas'[r] = Append(copy, ent.op) /\ responses'[r] = new
      /\ \A s \in Replica \ {r} : replicas'[s] = replicas[s] /\ responses'[s] = responses[s]
  BY <1>0, <1>5, <1>8
<1>10. AnswerOK(pc'[r], ex'[r], local_versions'[r], log, operations'[r], responses'[r], replicas'[r], r)
  BY <1>5, <1>6, <1>7, <1>9 DEF AnswerOK, Version
<1> QED BY <1>5, <1>9, <1>10, AnswersFrame

LEMMA FinishAnswers ==
  ASSUME ControlInv, LogInv, AnswersOK, NEW r \in Replica, finish(r), Others(r)
  PROVE  AnswersOK'
<1>0. /\ ControlTypes /\ log \in Seq(Entry) /\ Locals(pc[r], ap[r], ah[r], ex[r], NumOps(r))
      /\ replicas \in [Replica -> Seq(AllOps)] /\ responses \in [Replica -> Seq(Seq(AllOps))]
  BY DEF ControlInv, LocalsOK, LogInv, AnswersOK
<1>1. /\ pc[r] = "done" /\ pc'[r] = "ready" /\ operations'[r] = << >>
      /\ responses' = [responses EXCEPT ![r] = << >>]
      /\ UNCHANGED <<log, replicas, ex, local_versions>>
  BY <1>0 DEF finish, At, Goto, shared, ControlTypes
<1>2. ex[r].caller = "none"
  BY <1>0, <1>1 DEF Locals, ExecutePCs, LoopPCs
<1>3. AnswerOK("done", ex[r], local_versions[r], log, operations[r], responses[r], replicas[r], r)
  BY <1>1 DEF AnswersOK
<1>4. AnswerOK("ready", ex[r], local_versions[r], log, << >>, << >>, replicas[r], r)
  BY <1>0, <1>2, <1>3, AnswerTypes, AnswerCleared
<1>5. /\ replicas' \in [Replica -> Seq(AllOps)] /\ responses'[r] = << >>
      /\ \A s \in Replica \ {r} : replicas'[s] = replicas[s] /\ responses'[s] = responses[s]
  BY <1>0, <1>1
<1>6. responses' \in [Replica -> Seq(Seq(AllOps))]
  <2> DEFINE S == Seq(AllOps)
  <2> HIDE DEF S
  <2>1. << >> \in Seq(S)
    OBVIOUS
  <2>2. responses \in [Replica -> Seq(S)]
    BY <1>0 DEF S
  <2>3. responses' \in [Replica -> Seq(S)]
    BY <1>1, <2>1, <2>2
  <2> QED BY <2>3 DEF S
<1> QED BY <1>1, <1>4, <1>5, <1>6, AnswersFrame

(* An append adds entries of r, and for r it says where its batch is. *)
LEMMA CasTailAnswers ==
  ASSUME ControlInv, LogInv, AnswersOK, NEW r \in Replica, CasTail(r)
  PROVE  AnswersOK'
<1>0. /\ ControlTypes /\ log \in Seq(Entry) /\ Len(log) = tail /\ tail \in Nat
      /\ Locals(pc[r], ap[r], ah[r], ex[r], NumOps(r))
  BY Typed DEF ControlInv, LocalsOK, LogInv
<1>1. /\ pc[r] = "cas_tail" /\ pc'[r] \in {"append_return", "write_entry"}
      /\ UNCHANGED <<operations, responses, replicas, ex, local_versions>>
      /\ \A s \in Replica \ {r} : pc'[s] = pc[s]
  BY <1>0 DEF CasTail, At, Goto, ControlTypes
<1>2. /\ log' \in Seq(Entry) /\ BatchAt(log', operations[r], Len(log), r)
      /\ \E m \in Seq(Entry) : log' = log \o m /\ Len(m) = NumOps(r)
                               /\ \A k \in 1 .. Len(m) : m[k].node_id = r
  BY <1>0, CasTailCells
<1>3. PICK m \in Seq(Entry) : /\ log' = log \o m /\ Len(m) = NumOps(r)
                              /\ \A k \in 1 .. Len(m) : m[k].node_id = r
  BY <1>2
<1>4. /\ Len(log') = Len(log) + NumOps(r)
      /\ \A i \in 1 .. Len(log) : log'[i] = log[i]
  <2>1. /\ Len(log \o m) = Len(log) + Len(m)
        /\ \A i \in 1 .. Len(log) : (log \o m)[i] = log[i]
    BY <1>0, Concat
  <2> QED BY <1>3, <2>1
<1>5. ASSUME NEW s \in Replica
      PROVE  AnswerOK(pc'[s], ex'[s], local_versions'[s], log', operations'[s], responses'[s],
                      replicas'[s], s)
  <2> DEFINE v == Version(pc[s], ex[s], local_versions[s])
  <2>1. /\ replicas[s] = compute_nrstate_at_version(log, v)
        /\ BatchOK(pc[s], ex[s], log, operations[s], responses[s], v, local_versions[s], s)
    BY DEF AnswersOK, AnswerOK
  <2>2. local_versions[s] \in Nat /\ v \in Nat /\ operations[s] \in Seq(AllOps) /\ Len(operations[s]) \in Nat
    BY <1>0, AnswerTypes
  <2>3. v <= Len(log) /\ local_versions[s] <= v
    <3>1. /\ local_versions[s] <= tail
          /\ pc[s] \in LoopPCs => /\ ex[s].local_version <= ex[s].global_tail /\ ex[s].global_tail <= tail
                                  /\ local_versions[s] <= ex[s].local_version
      BY Guaranteed DEF LoopPCs
    <3>2. ex[s].local_version \in Nat /\ ex[s].global_tail \in Nat
      BY <1>0, Typed
    <3> QED BY <1>0, <2>2, <3>1, <3>2 DEF Version
  <2>4. Version(pc'[s], ex'[s], local_versions'[s]) = v
    BY <1>1 DEF Version, LoopPCs
  <2> HIDE DEF v
  <2>5. replicas'[s] = compute_nrstate_at_version(log', v)
    BY <1>0, <1>1, <1>3, <2>1, <2>2, <2>3, ReplayPrefix
  <2>6. CASE s # r
    <3>1. \A k \in 1 .. Len(m) : m[k].node_id # s
      BY <1>3, <2>6
    <3>2. BatchOK(pc[s], ex[s], log \o m, operations[s], responses[s], v, local_versions[s], s)
      BY <1>0, <2>1, <2>2, <2>3, <3>1, BatchGrows
    <3>3. /\ pc'[s] = pc[s] /\ ex' = ex /\ operations' = operations /\ responses' = responses
          /\ local_versions' = local_versions
      BY <1>1, <2>6
    <3>4. BatchOK(pc'[s], ex'[s], log', operations'[s], responses'[s], v, local_versions'[s], s)
      BY <1>3, <3>2, <3>3
    <3> QED BY <2>4, <2>5, <3>4 DEF AnswerOK
  <2>7. CASE s = r
    <3>1. ex[r].caller = "none"
      BY <1>0, <1>1 DEF Locals, ExecutePCs, LoopPCs
    <3>2. /\ NotAppended(pc[r], ex[r]) /\ ~NotAppended(pc'[r], ex'[r])
          /\ pc'[r] \notin LoopPCs /\ pc'[r] # "done"
      BY <1>1, <3>1 DEF NotAppended, LoopPCs
    <3>3. BatchOK(pc[r], ex[r], log, operations[r], responses[r], v, local_versions[r], r)
      BY <2>1, <2>7
    <3>4. Len(log') = Len(log) + Len(operations[r]) /\ operations[r] \in Seq(AllOps)
      BY <1>4, <2>2, <2>7 DEF NumOps
    <3>5. BatchOK(pc'[r], ex'[r], log', operations[r], responses[r], v, local_versions[r], r)
      BY <1>0, <1>2, <1>4, <2>2, <2>3, <2>7, <3>2, <3>3, <3>4, BatchAppended
    <3>6. BatchOK(pc'[s], ex'[s], log', operations'[s], responses'[s], v, local_versions'[s], s)
      BY <1>1, <2>7, <3>5
    <3> QED BY <2>4, <2>5, <3>6 DEF AnswerOK
  <2> QED BY <2>6, <2>7
<1>6. /\ replicas' \in [Replica -> Seq(AllOps)] /\ responses' \in [Replica -> Seq(Seq(AllOps))]
  BY <1>1 DEF AnswersOK
<1> QED BY <1>5, <1>6 DEF AnswersOK, AnswerOK, BatchOK, Version, NotAppended, NoneOf, Answered, BatchAt

LEMMA InitAnswers == Init => AnswersOK
<1> SUFFICES ASSUME Init PROVE AnswersOK
  OBVIOUS
<1>1. ASSUME NEW r \in Replica
      PROVE  AnswerOK(pc[r], ex[r], local_versions[r], log, operations[r], responses[r], replicas[r], r)
  <2>1. /\ pc[r] = "ready" /\ local_versions[r] = 0 /\ log = << >> /\ responses[r] = << >>
        /\ replicas[r] = << >>
    BY DEF Init, init_spec
  <2>2. Version(pc[r], ex[r], local_versions[r]) = 0
    BY <2>1 DEF Version, LoopPCs
  <2>3. replicas[r] = compute_nrstate_at_version(log, 0)
    <3>1. compute_nrstate_at_version(log, 0) = << >>
      BY DEF compute_nrstate_at_version
    <3> QED BY <2>1, <3>1
  <2>4. NoneOf(log, 0, r)
    BY <2>1 DEF NoneOf
  <2> QED BY <2>1, <2>2, <2>3, <2>4 DEF AnswerOK, BatchOK, NotAppended
<1>2. replicas \in [Replica -> Seq(AllOps)]
  BY DEF Init, init_spec
<1>3. responses \in [Replica -> Seq(Seq(AllOps))]
  <2> DEFINE S == Seq(AllOps)
  <2> HIDE DEF S
  <2>1. << >> \in Seq(S)
    OBVIOUS
  <2>2. responses \in [Replica -> Seq(S)]
    BY <2>1 DEF Init
  <2> QED BY <2>2 DEF S
<1> QED BY <1>1, <1>2, <1>3 DEF AnswersOK

LEMMA AnswersNext == ControlInv /\ ControlInv' /\ LogInv /\ AnswersOK /\ [Next]_vars => AnswersOK'
<1> SUFFICES ASSUME ControlInv, ControlInv', LogInv, AnswersOK, [Next]_vars PROVE AnswersOK'
  OBVIOUS
<1>1. CASE Next
  <2>1. PICK r \in Replica : QuietStep(r) \/ CasTail(r) \/ WriteEntry(r) \/ SetAlive(r)
    BY <1>1, StepKinds
  <2>2. ControlTypes'
    BY DEF ControlInv
  <2>3. QuietStep(r) => Others(r)
    BY QuietLog
  <2>4. CASE DispatchEntry(r)
    BY <2>3, <2>4, DispatchAnswers DEF QuietStep, execute
  <2>5. CASE finish(r)
    BY <2>3, <2>5, FinishAnswers DEF QuietStep
  <2>6. CASE QuietStep(r) /\ ~DispatchEntry(r) /\ ~finish(r)
    BY <2>2, <2>6, QuietAnswers
  <2> QED BY <2>1, <2>2, <2>4, <2>5, <2>6, CasTailAnswers, WriteAnswers
<1>2. CASE UNCHANGED vars
  <2>1. UNCHANGED <<pc, ex, local_versions, log, operations, responses, replicas>>
    BY <1>2 DEF vars, shared
  <2>2. \A r \in Replica :
          AnswerOK(pc'[r], ex'[r], local_versions'[r], log', operations'[r], responses'[r], replicas'[r], r)
    BY <2>1 DEF AnswersOK
  <2> QED BY <2>1, <2>2 DEF AnswersOK, AnswerOK, BatchOK, Version, NotAppended, NoneOf, Answered, BatchAt
<1> QED BY <1>1, <1>2

LEMMA AnswersCorrect == Spec => [](ControlInv /\ LogInv /\ AnswersOK)
<1>1. Init => AnswersOK
  BY InitAnswers
<1>2. ControlInv /\ LogInv /\ AnswersOK /\ ControlInv' /\ [Next]_vars => AnswersOK'
  BY AnswersNext
<1> QED BY <1>1, <1>2, LogCorrect, PTL DEF Spec

(* Every copy of the data structure is a prefix of the log applied, and a  *)
(* combiner that is done has, for each operation of its batch and in       *)
(* order, the answer the log gives at the place where the operation is,    *)
(* whichever of the executes of log.rs applied it and however the buffer   *)
(* was reused meanwhile; all indices stay within their bounds.             *)
THEOREM NrLogCorrect == Spec => []NrLogInv
<1>1. ControlInv /\ LogInv /\ AnswersOK => NrLogInv
  <2> SUFFICES ASSUME ControlInv, LogInv, AnswersOK PROVE NrLogInv
    OBVIOUS
  <2>1. TypeOK
    BY DEF TypeOK, ControlInv, ControlTypes, LogInv, AnswersOK, Appends, Advances, Executes
  <2>2. replica_state
    BY DEF replica_state, AnswersOK, AnswerOK, Version, current_local_version
  <2>3. ASSUME NEW r \in Replica, At(r, "done")
        PROVE  /\ Len(responses[r]) = NumOps(r)
               /\ NumOps(r) > 0 =>
                    \E i \in 0 .. tail - NumOps(r) :
                       \A k \in 1 .. NumOps(r) :
                          /\ log[i + k] = [op |-> operations[r][k], node_id |-> r]
                          /\ responses[r][k] = compute_nrstate_at_version(log, i + k - 1)
    <3>1. ControlTypes /\ pc[r] = "done" /\ Locals(pc[r], ap[r], ah[r], ex[r], NumOps(r))
      BY <2>3 DEF ControlInv, LocalsOK, At
    <3>2. /\ Version(pc[r], ex[r], local_versions[r]) = local_versions[r]
          /\ ~NotAppended(pc[r], ex[r])
      BY <3>1 DEF Version, LoopPCs, Locals, ExecutePCs, NotAppended
    <3> DEFINE v == local_versions[r]
               n == Len(operations[r])
    <3>3. PICK at \in 0 .. Len(log) : Answered(log, operations[r], responses[r], v, v, at, r) /\ at + n <= v
      BY <3>1, <3>2 DEF AnswersOK, AnswerOK, BatchOK
    <3>4. n \in Nat /\ v \in Nat /\ Len(log) = tail /\ tail \in Nat
      BY <3>1, AnswerTypes, Typed DEF LogInv
    <3>5. /\ at + n <= Len(log) /\ BatchAt(log, operations[r], at, r)
          /\ Len(responses[r]) = Applied(v, at, n)
          /\ \A k \in 1 .. Len(responses[r]) : responses[r][k] = compute_nrstate_at_version(log, at + k - 1)
      BY <3>3 DEF Answered
    <3>6. Applied(v, at, n) = n
      BY <3>3, <3>4 DEF Applied
    <3>7. at \in 0 .. tail - n
      BY <3>4, <3>5
    <3> QED BY <3>5, <3>6, <3>7 DEF NumOps, BatchAt
  <2>4. ResponsesMatchLog
    BY <2>3 DEF ResponsesMatchLog
  <2> QED BY <2>1, <2>2, <2>4 DEF NrLogInv
<1> QED BY <1>1, AnswersCorrect, PTL
=============================================================================
