-------------------------------- MODULE OS ---------------------------------
(***************************************************************************)
(* The operating system state machine of page-table/spec_t/os.rs: user     *)
(* level threads (ULTs), each pinned to a core, map and unmap pages. A     *)
(* core that runs a system call waits for the kernel lock, lets the page   *)
(* table implementation work on the shared page table and, after a         *)
(* successful unmap, waits until every core has acknowledged that its TLB  *)
(* no longer holds the translation.                                        *)
(***************************************************************************)
EXTENDS Hardware

CONSTANTS
  ULT,        \* the valid user level threads
  ULT2core,   \* ULT2core[ULT_id]: the core a thread runs on
  VAddr,      \* the addresses threads use, a set of numbers
  PTE,        \* the entries threads ask to map
  Err         \* the result of an unmap that found no mapping

ASSUME OSAssumption ==
  /\ ULT2core \in [ULT -> Core]
  /\ VAddr \subseteq Nat
  /\ PTE \subseteq PageTableEntry
  /\ Err \notin PageTableEntry

VARIABLES
  core_states,     \* core_states[core]: the system call in progress on it
  TLB_Shootdown,   \* the shootdown request and the cores still to answer
  sound            \* ghost flag of the refinement proof

vars == <<mem, tlb, pt, free_pages, core_states, TLB_Shootdown, sound>>

-----------------------------------------------------------------------------
(* CoreState *)

Idle == [tag |-> "Idle"]

MapState(tag, ULT_id, vaddr, pte) ==
  [tag |-> tag, ULT_id |-> ULT_id, vaddr |-> vaddr, pte |-> pte]

UnmapWaiting(ULT_id, vaddr) ==
  [tag |-> "UnmapWaiting", ULT_id |-> ULT_id, vaddr |-> vaddr]

UnmapState(tag, ULT_id, vaddr, result) ==
  [tag |-> tag, ULT_id |-> ULT_id, vaddr |-> vaddr, result |-> result]

MapTags == {"MapWaiting", "MapExecuting"}

UnmapOpTags == {"UnmapOpExecuting", "UnmapOpDone", "UnmapShootdownWaiting"}

CoreState ==
  {Idle}
    \cup [tag : MapTags, ULT_id : ULT, vaddr : VAddr, pte : PTE]
    \cup [tag : {"UnmapWaiting"}, ULT_id : ULT, vaddr : VAddr]
    \cup [tag : UnmapOpTags, ULT_id : ULT, vaddr : VAddr, result : PTE \cup {Err}]

(* Mutant: the lock is given up before the shootdown is answered. *)
holds_lock_Early(cs) ==
  cs.tag \notin {"Idle", "MapWaiting", "UnmapWaiting", "UnmapShootdownWaiting"}

holds_lock(cs) == cs.tag \notin {"Idle", "MapWaiting", "UnmapWaiting"}

(* Mutant: only map operations are looked at. *)
LockFree_MapOnly == \A core \in Core : core_states[core].tag # "MapExecuting"

(* kernel_lock() is None. *)
LockFree == \A core \in Core : ~holds_lock(core_states[core])

(* The frame that an operation in flight maps or unmaps: a set with no or  *)
(* one element. An unmap that waits refers to what is mapped right now.    *)
InflightFrames(cs) ==
  CASE cs.tag \in MapTags -> {cs.pte.frame}
    [] cs.tag = "UnmapWaiting" -> IF cs.vaddr \in DOMAIN pt THEN {pt[cs.vaddr].frame} ELSE {}
    [] cs.tag \in UnmapOpTags -> IF cs.result # Err THEN {cs.result.frame} ELSE {}
    [] OTHER -> {}

vmem_pte_size(cs) ==
  IF InflightFrames(cs) = {} THEN 0 ELSE (CHOOSE f \in InflightFrames(cs) : TRUE).size

candidate_mapping_overlaps_inflight_pmem(candidate) ==
  \E core \in Core : \E frame \in InflightFrames(core_states[core]) :
    overlap(candidate.frame, frame)

candidate_mapping_overlaps_inflight_vmem(base, candidate_size) ==
  \E core \in Core :
    /\ core_states[core] # Idle
    /\ overlap(Region(core_states[core].vaddr, vmem_pte_size(core_states[core])),
               Region(base, candidate_size))

-----------------------------------------------------------------------------
Init ==
  /\ HWInit
  /\ core_states = [core \in Core |-> Idle]
  /\ TLB_Shootdown \in [vaddr : VAddr, open_requests : {{}}]
  /\ sound = TRUE

-----------------------------------------------------------------------------
(***************************************************************************)
(* Hardware steps. A thread accesses memory only while its core runs no    *)
(* system call; the MMU fills and evicts TLB entries at any time. The core *)
(* whose TLB is used is a parameter of the hardware step of its own: the   *)
(* source does not tie it to the core of the thread.                       *)
(***************************************************************************)
UserRuns == \E ULT_id \in ULT : core_states[ULT2core[ULT_id]] = Idle

osvars == <<core_states, TLB_Shootdown, sound>>

step_HW_ReadWrite_Cached(core, vaddr, op, base) ==
  /\ UserRuns
  /\ step_ReadWrite_Cached(core, vaddr, op, base)
  /\ UNCHANGED osvars

step_HW_ReadWrite_Pagefault(vaddr) ==
  /\ UserRuns
  /\ step_ReadWrite_Pagefault(vaddr)
  /\ UNCHANGED osvars

step_HW_TLBFill(core, vaddr) ==
  /\ ULT # {}
  /\ step_TLBFill(core, vaddr)
  /\ UNCHANGED osvars

step_HW_TLBEvict(core, vaddr) ==
  /\ ULT # {}
  /\ step_TLBEvict(core, vaddr)
  /\ UNCHANGED osvars

-----------------------------------------------------------------------------
(* Map *)

step_Map_enabled(vaddr, pte) ==
  /\ MapArgsValid(vaddr, pte)
  /\ free_pages >= 3

(* Mutant: forgets the addresses of calls in flight. *)
step_Map_sound_NoVmem(vaddr, pte) ==
  /\ ~candidate_mapping_overlaps_existing_pmem(pt, pte)
  /\ ~candidate_mapping_overlaps_inflight_pmem(pte)

(* Mutant: forgets the frames of calls in flight. *)
step_Map_sound_NoInflightPmem(vaddr, pte) ==
  /\ ~candidate_mapping_overlaps_existing_pmem(pt, pte)
  /\ ~candidate_mapping_overlaps_inflight_vmem(vaddr, pte.frame.size)

step_Map_sound(vaddr, pte) ==
  /\ ~candidate_mapping_overlaps_existing_pmem(pt, pte)
  /\ ~candidate_mapping_overlaps_inflight_pmem(pte)
  /\ ~candidate_mapping_overlaps_inflight_vmem(vaddr, pte.frame.size)

(* The last two conjuncts are one expression in the source,                *)
(*   s2.sound == s1.sound && step_Map_sound(..)                            *)
(* in which == binds tighter than &&: step_Map_sound enables the step.     *)
step_Map_Start(ULT_id, vaddr, pte) ==
  LET core == ULT2core[ULT_id] IN
  /\ core_states[core] = Idle
  /\ step_Map_enabled(vaddr, pte)
  /\ PtStutter
  /\ core_states' = [core_states EXCEPT ![core] = MapState("MapWaiting", ULT_id, vaddr, pte)]
  /\ UNCHANGED TLB_Shootdown
  /\ sound' = sound
  /\ step_Map_sound(vaddr, pte)

step_Map_op_Start(core) ==
  /\ core_states[core].tag = "MapWaiting"
  /\ LockFree
  /\ PtStutter
  /\ core_states' = [core_states EXCEPT ![core].tag = "MapExecuting"]
  /\ UNCHANGED <<TLB_Shootdown, sound>>

step_Map_End(core) ==
  /\ core_states[core].tag = "MapExecuting"
  /\ PtMapEnd(core_states[core].vaddr, core_states[core].pte)
  /\ core_states' = [core_states EXCEPT ![core] = Idle]
  /\ UNCHANGED <<TLB_Shootdown, sound>>

-----------------------------------------------------------------------------
(* Unmap *)

step_Unmap_sound(vaddr) ==
  ~candidate_mapping_overlaps_inflight_vmem(
      vaddr, IF vaddr \in DOMAIN pt THEN pt[vaddr].frame.size ELSE 0)

(* Mutant: the call is put on any idle core. *)
step_Unmap_Start_AnyCore(ULT_id, vaddr) ==
  \E core \in Core :
    /\ core_states[core] = Idle
    /\ step_Unmap_enabled(vaddr)
    /\ PtStutter
    /\ core_states' = [core_states EXCEPT ![core] = UnmapWaiting(ULT_id, vaddr)]
    /\ UNCHANGED <<TLB_Shootdown, sound>>
    /\ step_Unmap_sound(vaddr)

step_Unmap_Start(ULT_id, vaddr) ==
  LET core == ULT2core[ULT_id] IN
  /\ core_states[core] = Idle
  /\ step_Unmap_enabled(vaddr)
  /\ PtStutter
  /\ core_states' = [core_states EXCEPT ![core] = UnmapWaiting(ULT_id, vaddr)]
  /\ UNCHANGED TLB_Shootdown
  /\ sound' = sound
  /\ step_Unmap_sound(vaddr)

step_Unmap_Op_Start(core) ==
  LET cs     == core_states[core]
      result == IF cs.vaddr \in DOMAIN pt THEN pt[cs.vaddr] ELSE Err IN
  /\ cs.tag = "UnmapWaiting"
  /\ LockFree
  /\ PtUnmapStart(cs.vaddr)
  /\ core_states' = [core_states EXCEPT ![core] =
                       UnmapState("UnmapOpExecuting", cs.ULT_id, cs.vaddr, result)]
  /\ UNCHANGED <<TLB_Shootdown, sound>>

step_Unmap_Op_End(core) ==
  /\ core_states[core].tag = "UnmapOpExecuting"
  /\ PtStutter
  /\ core_states' = [core_states EXCEPT ![core].tag = "UnmapOpDone"]
  /\ UNCHANGED <<TLB_Shootdown, sound>>

(* Mutant: the initiator forgets its own TLB. *)
step_Unmap_Initiate_Shootdown_Others(core) ==
  /\ core_states[core].tag = "UnmapOpDone"
  /\ core_states[core].result # Err
  /\ PtStutter
  /\ core_states' = [core_states EXCEPT ![core].tag = "UnmapShootdownWaiting"]
  /\ TLB_Shootdown' = [vaddr |-> core_states[core].vaddr, open_requests |-> Core \ {core}]
  /\ UNCHANGED sound

step_Unmap_Initiate_Shootdown(core) ==
  /\ core_states[core].tag = "UnmapOpDone"
  /\ core_states[core].result # Err
  /\ PtStutter
  /\ core_states' = [core_states EXCEPT ![core].tag = "UnmapShootdownWaiting"]
  /\ TLB_Shootdown' = [vaddr |-> core_states[core].vaddr, open_requests |-> Core]
  /\ UNCHANGED sound

(* Mutant: the handler answers before it has evicted the translation. *)
step_Ack_Shootdown_IPI_Early(core) ==
  /\ core \in TLB_Shootdown.open_requests
  /\ TLB_Shootdown.vaddr \notin DOMAIN pt
  /\ PtStutter
  /\ TLB_Shootdown' = [TLB_Shootdown EXCEPT !.open_requests = @ \ {core}]
  /\ UNCHANGED <<core_states, sound>>

(* Mutant: a core inside a system call does not take the interrupt. *)
step_Ack_Shootdown_IPI_Masked(core) ==
  /\ core_states[core].tag \notin {"MapWaiting", "UnmapWaiting"}
  /\ core \in TLB_Shootdown.open_requests
  /\ TLB_Shootdown.vaddr \notin DOMAIN tlb[core]
  /\ TLB_Shootdown.vaddr \notin DOMAIN pt
  /\ PtStutter
  /\ TLB_Shootdown' = [TLB_Shootdown EXCEPT !.open_requests = @ \ {core}]
  /\ UNCHANGED <<core_states, sound>>

(* The handler of the shootdown IPI answers once its TLB is clean. *)
step_Ack_Shootdown_IPI(core) ==
  /\ core \in TLB_Shootdown.open_requests
  /\ TLB_Shootdown.vaddr \notin DOMAIN tlb[core]
  /\ TLB_Shootdown.vaddr \notin DOMAIN pt
  /\ PtStutter
  /\ TLB_Shootdown' = [TLB_Shootdown EXCEPT !.open_requests = @ \ {core}]
  /\ UNCHANGED <<core_states, sound>>

(* Mutant: returns without waiting for the answers. *)
step_Unmap_End_NoWait(core) ==
  /\ core_states[core].tag \in {"UnmapShootdownWaiting", "UnmapOpDone"}
  /\ PtStutter
  /\ core_states' = [core_states EXCEPT ![core] = Idle]
  /\ UNCHANGED <<TLB_Shootdown, sound>>

step_Unmap_End(core) ==
  LET cs == core_states[core] IN
  /\ \/ cs.tag = "UnmapShootdownWaiting" /\ TLB_Shootdown.open_requests = {}
     \/ cs.tag = "UnmapOpDone" /\ cs.result = Err
  /\ PtStutter
  /\ core_states' = [core_states EXCEPT ![core] = Idle]
  /\ UNCHANGED <<TLB_Shootdown, sound>>

(* The implementation writes page table memory without changing its view. *)
step_View_Stutter(core) ==
  /\ core_states[core].tag \in {"UnmapOpExecuting", "MapExecuting"}
  /\ PtViewStutter
  /\ UNCHANGED osvars

-----------------------------------------------------------------------------
HWStep(core) ==
  \/ \E vaddr \in VAddr, op \in HWRWOp, base \in VAddr :
       step_HW_ReadWrite_Cached(core, vaddr, op, base)
  \/ \E vaddr \in VAddr :
       \/ step_HW_ReadWrite_Pagefault(vaddr)
       \/ step_HW_TLBFill(core, vaddr)
       \/ step_HW_TLBEvict(core, vaddr)

KernelStep(core) ==
  \/ step_Map_op_Start(core)
  \/ step_Map_End(core)
  \/ step_Unmap_Op_Start(core)
  \/ step_Unmap_Op_End(core)
  \/ step_Unmap_Initiate_Shootdown(core)
  \/ step_Ack_Shootdown_IPI(core)
  \/ step_Unmap_End(core)
  \/ step_View_Stutter(core)

SyscallStart(ULT_id) ==
  \E vaddr \in VAddr :
    \/ \E pte \in PTE : step_Map_Start(ULT_id, vaddr, pte)
    \/ step_Unmap_Start(ULT_id, vaddr)

Next ==
  \/ \E core \in Core : HWStep(core) \/ KernelStep(core)
  \/ \E ULT_id \in ULT : SyscallStart(ULT_id)

Spec == Init /\ [][Next]_vars
=============================================================================
