---------------------------- MODULE OSProperties ---------------------------
(***************************************************************************)
(* What the operating system state machine guarantees. The names in lower  *)
(* case are invariants that os.rs itself names.                            *)
(***************************************************************************)
EXTENDS OS

(* The mapping tables: partial functions from addresses to entries.        *)
Mappings == UNION {[dom -> PTE] : dom \in SUBSET VAddr}

(* Every component keeps its type; a core only runs calls of its threads   *)
(* (os.rs valid_ids).                                                      *)
TypeOK ==
  /\ mem \in [0 .. phys_mem_size - 1 -> Value]
  /\ tlb \in [Core -> Mappings]
  /\ pt \in Mappings
  /\ free_pages \in FreePages
  /\ core_states \in [Core -> CoreState]
  /\ \A core \in Core : core_states[core] # Idle => ULT2core[core_states[core].ULT_id] = core
  /\ TLB_Shootdown \in [vaddr : VAddr, open_requests : SUBSET Core]
  /\ sound \in BOOLEAN

(* At most one core works on the page table: the kernel lock (os.rs wf).   *)
LockExclusive ==
  \A core1, core2 \in Core :
    holds_lock(core_states[core1]) /\ holds_lock(core_states[core2]) => core1 = core2

(* A page table entry that an unmap has removed stays away until the call  *)
(* returns: no other core maps the address again meanwhile.                *)
successful_unmaps ==
  \A core \in Core : core_states[core].tag \in UnmapOpTags =>
    core_states[core].vaddr \notin DOMAIN pt

(* The shared request vector belongs to the core that waits for answers.   *)
ShootdownOwned ==
  \A core \in Core : core_states[core].tag = "UnmapShootdownWaiting" =>
    TLB_Shootdown.vaddr = core_states[core].vaddr

(* While a core unmaps, nobody else maps its address or takes over the one *)
(* shared request vector it waits on: the answers it counts are answers to *)
(* its own shootdown.                                                      *)
UnmapOwnsAddress == successful_unmaps /\ ShootdownOwned

(* A core that has answered a shootdown holds the translation no more and  *)
(* cannot get it back while the initiator still waits for others.          *)
successful_IPI ==
  \A dispatcher \in Core : core_states[dispatcher].tag = "UnmapShootdownWaiting" =>
    \A handler \in Core \ TLB_Shootdown.open_requests :
      core_states[dispatcher].vaddr \notin DOMAIN tlb[handler]

(* A core whose unmap has taken vaddr, mapped by pte, out of the page      *)
(* table and has not returned yet.                                         *)
BeingUnmapped(vaddr, pte) ==
  \E core \in Core :
    /\ core_states[core].tag \in UnmapOpTags
    /\ core_states[core].vaddr = vaddr
    /\ core_states[core].result = pte

(* No stale translation: whatever a TLB holds is what the page table says  *)
(* now, or is the very entry whose unmap has not returned yet. So when     *)
(* unmap returns, no core can reach the frame through the old address, and *)
(* an address mapped anew is never served from its former translation.     *)
NoStaleTranslation ==
  \A core \in Core : \A vaddr \in DOMAIN tlb[core] :
    \/ vaddr \in DOMAIN pt /\ pt[vaddr] = tlb[core][vaddr]
    \/ BeingUnmapped(vaddr, tlb[core][vaddr])

(* Mappings of the page table never overlap in virtual memory.             *)
existing_map_no_overlap_existing_vmem ==
  \A vaddr \in DOMAIN pt :
    ~candidate_mapping_overlaps_existing_vmem(Remove(pt, vaddr), vaddr, pt[vaddr])

(* Calls in flight on different cores work on disjoint addresses.          *)
inflight_map_no_overlap_inflight_vmem ==
  \A core1, core2 \in Core :
    /\ core_states[core1] # Idle
    /\ core_states[core2] # Idle
    /\ overlap(Region(core_states[core1].vaddr, vmem_pte_size(core_states[core1])),
               Region(core_states[core2].vaddr, vmem_pte_size(core_states[core2])))
    => core1 = core2

overlapping_vmem_inv ==
  sound => inflight_map_no_overlap_inflight_vmem /\ existing_map_no_overlap_existing_vmem

(* A frame reachable through a TLB, stale or not, is not the target of any *)
(* other mapping: a store through a translation that is being shot down    *)
(* never lands in memory that has been given to another address.           *)
CachedFrameNotReused ==
  \A core \in Core : \A vaddr \in DOMAIN tlb[core] : \A other \in DOMAIN pt \ {vaddr} :
    ~overlap(tlb[core][vaddr].frame, pt[other].frame)

(* An unmap that returns leaves the address in no TLB and not in the page  *)
(* table.                                                                  *)
UnmapReturnsClean ==
  [][\A core \in Core : core_states[core].tag \in UnmapOpTags /\ core_states'[core] = Idle =>
       LET vaddr == core_states[core].vaddr IN
       /\ vaddr \notin DOMAIN pt'
       /\ \A c \in Core : vaddr \notin DOMAIN tlb'[c]]_vars

-----------------------------------------------------------------------------
(***************************************************************************)
(* Progress. The core that holds the kernel lock runs on, and a core that  *)
(* is asked to shoot down a translation handles the interrupt: it evicts   *)
(* the address and answers, whatever call it has in flight itself.         *)
(***************************************************************************)
HandleShootdown(core) ==
  \/ step_Ack_Shootdown_IPI(core)
  \/ /\ core \in TLB_Shootdown.open_requests
     /\ step_HW_TLBEvict(core, TLB_Shootdown.vaddr)

RunLocked(core) ==
  \/ step_Map_End(core)
  \/ step_Unmap_Op_End(core)
  \/ step_Unmap_Initiate_Shootdown(core)
  \/ step_Unmap_End(core)

FairSpec ==
  /\ Spec
  /\ \A core \in Core : WF_vars(RunLocked(core)) /\ WF_vars(HandleShootdown(core))

(* The kernel lock is always released: no core waits for an answer that a  *)
(* core waiting for the lock would have to give.                           *)
LockReleased ==
  \A core \in Core : holds_lock(core_states[core]) ~> ~holds_lock(core_states[core])

-----------------------------------------------------------------------------
(* Statements of the source that the state machine does not satisfy. *)

(* os.rs Unmap_vaddr: the addresses some core is unmapping. It leaves out  *)
(* the cores whose page table operation is still executing.                *)
Unmap_vaddr ==
  {vaddr \in VAddr : \E core \in Core :
     /\ core_states[core].tag \in {"UnmapOpDone", "UnmapShootdownWaiting"}
     /\ core_states[core].result # Err
     /\ core_states[core].vaddr = vaddr}

(* A TLB only caches addresses that are mapped or in Unmap_vaddr: conjunct *)
(* of tlb_inv, which os_invariant.rs next_step_preserves_tlb_inv states to *)
(* be preserved by every step (the case UnmapOpStart is assumed away).     *)
TLB_dom_subset_of_pt_and_inflight_unmap_vaddr ==
  \A core \in Core : DOMAIN tlb[core] \subseteq DOMAIN pt \cup Unmap_vaddr

(* The flag sound "does not affect behaviour" (comment on the field): a    *)
(* call with valid arguments can start on an idle core whether or not it   *)
(* overlaps other calls, which would only be recorded in the flag.         *)
SoundDoesNotAffectBehaviour ==
  \A ULT_id \in ULT, vaddr \in VAddr, pte \in PTE :
    core_states[ULT2core[ULT_id]] = Idle /\ step_Map_enabled(vaddr, pte) =>
      ENABLED step_Map_Start(ULT_id, vaddr, pte)
=============================================================================
