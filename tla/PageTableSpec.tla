--------------------------- MODULE PageTableSpec ---------------------------
(***************************************************************************)
(* What the page table promises to the operating system                    *)
(* (impl_u/spec_pt.rs): the mappings the MMU sees change in one step of    *)
(* each operation, and the other steps leave them alone.  Mapping is a     *)
(* sequence of view stutters and then the step that ends it; unmapping is  *)
(* the step that decides it and then view stutters.                        *)
(***************************************************************************)
EXTENDS Definitions

CONSTANTS
  VAddr,   \* the addresses the operations are called with
  PTE      \* the page table entries that are mapped

VARIABLES
  pt,       \* interp: the mappings the MMU sees
  thread,   \* ThreadState
  result    \* the answer to the last call

vars == <<pt, thread, result>>

Idle == [state |-> "Idle"]
Mapping(vaddr, pte) == [state |-> "Mapping", vaddr |-> vaddr, pte |-> pte]
Unmapping(vaddr, res) == [state |-> "Unmapping", vaddr |-> vaddr, result |-> res]

Init ==
  /\ pt = EmptyMap
  /\ thread = Idle
  /\ result = "none"

step_Map_Start(vaddr, pte) ==
  /\ thread = Idle
  /\ thread' = Mapping(vaddr, pte)
  /\ result' = "none"
  /\ UNCHANGED pt

step_Map_End(vaddr, pte) ==
  /\ thread = Mapping(vaddr, pte)
  /\ thread' = Idle
  /\ IF candidate_mapping_overlaps_existing_vmem(pt, vaddr, pte)
     THEN result' = "Err" /\ UNCHANGED pt
     ELSE result' = "Ok" /\ pt' = Insert(pt, vaddr, pte)

(* A call to unmap, before its main step: the thread has no result yet. *)
UnmapCall(vaddr) ==
  /\ thread = Idle
  /\ thread' = Unmapping(vaddr, "none")
  /\ result' = "none"
  /\ UNCHANGED pt

(* The main step: the mapping is gone, or there is none to remove. *)
step_Unmap_Start(vaddr) ==
  /\ thread = Unmapping(vaddr, "none")
  /\ IF vaddr \in DOMAIN pt
     THEN thread' = Unmapping(vaddr, "Ok") /\ pt' = Remove(pt, vaddr)
     ELSE thread' = Unmapping(vaddr, "Err") /\ UNCHANGED pt
  /\ UNCHANGED result

step_Unmap_End ==
  /\ thread.state = "Unmapping" /\ thread.result # "none"
  /\ thread' = Idle
  /\ result' = thread.result
  /\ UNCHANGED pt

Next ==
  \/ \E vaddr \in VAddr :
       \/ UnmapCall(vaddr) \/ step_Unmap_Start(vaddr)
       \/ \E pte \in PTE : step_Map_Start(vaddr, pte) \/ step_Map_End(vaddr, pte)
  \/ step_Unmap_End

Spec == Init /\ [][Next]_vars
=============================================================================
