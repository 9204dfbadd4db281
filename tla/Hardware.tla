----------------------------- MODULE Hardware ------------------------------
(***************************************************************************)
(* The hardware of page-table/spec_t/hardware.rs: physical memory, one TLB *)
(* per core and the page table the MMU walks.                              *)
(*                                                                         *)
(* A Core { NUMA_id, core_id } is one element of the set Core; the nesting *)
(* of cores in NUMA nodes carries no behaviour. The page table memory is   *)
(* seen through interp_pt_mem, the mappings a page table walk finds (pt),  *)
(* and through alloc_available_pages (free_pages): two page table memories *)
(* with the same view may still differ in the latter.                      *)
(***************************************************************************)
EXTENDS Definitions

CONSTANTS
  Core,            \* the valid cores
  phys_mem_size,   \* number of words of physical memory
  Value,           \* the contents of a word
  FreePages        \* what alloc_available_pages may return

ASSUME HardwareAssumption ==
  /\ phys_mem_size \in Nat
  /\ FreePages \subseteq Nat

VARIABLES
  mem,         \* physical memory, word-indexed
  tlb,         \* tlb[core]: the translations the core has cached
  pt,          \* interp_pt_mem(global_pt)
  free_pages   \* global_pt.alloc_available_pages()

hwvars == <<mem, tlb, pt, free_pages>>

HWRWOp == [kind : {"Store"}, new_value : Value] \cup [kind : {"Load"}, is_exec : BOOLEAN]

HWInit ==
  /\ mem \in [0 .. phys_mem_size - 1 -> Value]
  /\ tlb = [core \in Core |-> EmptyMap]
  /\ pt = EmptyMap
  /\ free_pages \in FreePages

-----------------------------------------------------------------------------

(* The word of physical memory that (base, pte) translates vaddr to. *)
PmemIdx(vaddr, base, pte) == word_index_spec(pte.frame.base + (vaddr - base))

(* Does the access go through? Otherwise it faults. *)
AccessOk(vaddr, op, base, pte) ==
  /\ PmemIdx(vaddr, base, pte) < phys_mem_size
  /\ FlagsPermit(op, pte.flags)

(* An access that the cached translation of base serves. *)
step_ReadWrite_Cached(core, vaddr, op, base) ==
  LET pte == tlb[core][base] IN
  /\ aligned(vaddr, WORD_SIZE)
  /\ base \in DOMAIN tlb[core]
  /\ between(vaddr, base, base + pte.frame.size)
  /\ mem' = IF op.kind = "Store" /\ AccessOk(vaddr, op, base, pte)
            THEN [mem EXCEPT ![PmemIdx(vaddr, base, pte)] = op.new_value]
            ELSE mem
  /\ UNCHANGED <<tlb, pt, free_pages>>

(* An access for which the walk finds no mapping: a page fault. *)
step_ReadWrite_Pagefault(vaddr) ==
  /\ aligned(vaddr, WORD_SIZE)
  /\ ~ \E base \in DOMAIN pt : between(vaddr, base, base + pt[base].frame.size)
  /\ UNCHANGED hwvars

(* The page table walker may cache any mapping of the page table, any time. *)
step_TLBFill(core, vaddr) ==
  /\ vaddr \in DOMAIN pt
  /\ tlb' = [tlb EXCEPT ![core] = Insert(@, vaddr, pt[vaddr])]
  /\ UNCHANGED <<mem, pt, free_pages>>

step_TLBEvict(core, vaddr) ==
  /\ vaddr \in DOMAIN tlb[core]
  /\ tlb' = [tlb EXCEPT ![core] = Remove(@, vaddr)]
  /\ UNCHANGED <<mem, pt, free_pages>>

(***************************************************************************)
(* Operations of the page table implementation, as impl_u/spec_pt.rs       *)
(* describes them. step_PTMemOp leaves memory and TLBs alone; the          *)
(* implementation may allocate and free table pages while it changes the   *)
(* view or writes without changing it.                                     *)
(***************************************************************************)
step_PTMemOp == UNCHANGED <<mem, tlb>>

PtStutter == step_PTMemOp /\ UNCHANGED <<pt, free_pages>>

(* Mutant: the mapping is entered although it overlaps another one. *)
PtMapEnd_Overwrite(vaddr, pte) ==
  /\ step_PTMemOp
  /\ pt' = Insert(pt, vaddr, pte)
  /\ free_pages' \in FreePages

PtMapEnd(vaddr, pte) ==
  /\ step_PTMemOp
  /\ pt' = IF candidate_mapping_overlaps_existing_vmem(pt, vaddr, pte)
           THEN pt
           ELSE Insert(pt, vaddr, pte)
  /\ free_pages' \in FreePages

PtUnmapStart(vaddr) ==
  /\ step_PTMemOp
  /\ pt' = Remove(pt, vaddr)
  /\ free_pages' \in FreePages

PtViewStutter ==
  /\ step_PTMemOp
  /\ pt' = pt
  /\ free_pages' \in FreePages
=============================================================================
