--------------------------- MODULE OSRefinement ----------------------------
(***************************************************************************)
(* The abstraction function of os.rs (OSVariables::interp): what a process *)
(* sees of the operating system's state. A mapping that some core is       *)
(* unmapping is already gone for the process, although the page table and  *)
(* the TLBs may still hold it.                                             *)
(***************************************************************************)
EXTENDS OSProperties

UnmapTags == {"UnmapWaiting"} \cup UnmapOpTags

inflight_unmap_vaddr ==
  {vaddr \in DOMAIN pt : \E core \in Core :
     /\ core_states[core].tag \in UnmapTags
     /\ core_states[core].vaddr = vaddr}

effective_mappings == [vaddr \in DOMAIN pt \ inflight_unmap_vaddr |-> pt[vaddr]]

(* The word of physical memory behind each word of virtual memory. *)
VmemToPmem(idx) ==
  LET vaddr == idx * WORD_SIZE
      base  == CHOOSE b \in DOMAIN effective_mappings :
                 between(vaddr, b, b + effective_mappings[b].frame.size) IN
  PmemIdx(vaddr, base, effective_mappings[base])

interp_mem_domain ==
  {idx \in 0 .. UPPER_VADDR \div WORD_SIZE : \E base \in DOMAIN effective_mappings :
     /\ between(idx * WORD_SIZE, base, base + effective_mappings[base].frame.size)
     /\ PmemIdx(idx * WORD_SIZE, base, effective_mappings[base]) < phys_mem_size}

interp_vmem == [idx \in interp_mem_domain |-> mem[VmemToPmem(idx)]]

interp_thread_state ==
  [ULT_id \in ULT |->
     LET cs == core_states[ULT2core[ULT_id]] IN
     CASE cs = Idle -> [tag |-> "Empty"]
       [] cs # Idle /\ cs.ULT_id # ULT_id -> [tag |-> "Empty"]
       [] cs.tag \in MapTags /\ cs.ULT_id = ULT_id ->
            [tag |-> "Map", vaddr |-> cs.vaddr, pte |-> cs.pte]
       [] cs.tag = "UnmapWaiting" /\ cs.ULT_id = ULT_id ->
            [tag |-> "Unmap", vaddr |-> cs.vaddr,
             pte |-> IF cs.vaddr \in DOMAIN pt THEN pt[cs.vaddr] ELSE Err]
       [] cs.tag \in UnmapOpTags /\ cs.ULT_id = ULT_id ->
            [tag |-> "Unmap", vaddr |-> cs.vaddr, pte |-> cs.result]]

HL == INSTANCE HLSpec WITH
  Thread <- ULT, NoPte <- Err, mem <- interp_vmem, mappings <- effective_mappings,
  thread_state <- interp_thread_state, sound <- sound

(* Every behaviour of the operating system with its cores, TLBs and page   *)
(* table is one that the process-level specification allows               *)
(* (impl_u/os_refinement.rs, os_next_refines_hl_next).                     *)
RefinesHLSpec == HL!Spec

(* The answers agree as well, which the states alone do not show. A load   *)
(* through a cached translation that the process still has returns what    *)
(* the process' virtual memory holds; one through a translation that is    *)
(* being unmapped, or one that faults on the page table, is an access the  *)
(* process-level specification leaves undefined (OSStep::interp).          *)
LoadsRefineHLSpec ==
  /\ \A core \in Core : \A base \in DOMAIN tlb[core], vaddr \in VAddr :
       LET pte == tlb[core][base] IN
       aligned(vaddr, WORD_SIZE) /\ between(vaddr, base, base + pte.frame.size) =>
         IF base \in DOMAIN effective_mappings
         THEN /\ effective_mappings[base] = pte
              /\ PmemIdx(vaddr, base, pte) < phys_mem_size =>
                   /\ word_index_spec(vaddr) \in interp_mem_domain
                   /\ interp_vmem[word_index_spec(vaddr)] = mem[PmemIdx(vaddr, base, pte)]
         ELSE word_index_spec(vaddr) \notin interp_mem_domain
  /\ \A vaddr \in VAddr :
       aligned(vaddr, WORD_SIZE) /\ word_index_spec(vaddr) \in interp_mem_domain =>
         \E base \in DOMAIN pt : between(vaddr, base, base + pt[base].frame.size)

(* In the process' view no physical memory is reachable twice. *)
ProcessNoAliasing == HL!NoAliasing
=============================================================================
